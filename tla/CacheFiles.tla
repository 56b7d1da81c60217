----------------------------- MODULE CacheFiles -----------------------------
(***************************************************************************)
(* ResponseCache of src/fsa/sec/cache.py, one cache key, file operation by *)
(* file operation.  put writes a temporary file of a fixed name and        *)
(* renames it; get opens the file and reads it to the end, and takes       *)
(* whatever it cannot read for a miss.  The one writing process ("one CLI  *)
(* process at a time", cache.py:15) may be killed between any two          *)
(* operations, and any of them may fail; others read meanwhile.            *)
(***************************************************************************)
CONSTANTS
  Readers,
  Values,   \* what is put
  Miss,     \* get's None
  Inodes,   \* a bound: the files there can be at one time
  NoFile

ASSUME FilesAssumption == Miss \notin Values /\ NoFile \notin Inodes

VARIABLES
  path, tmp,  \* the inodes under the two names, or NoFile
  content,    \* content[i]: the value written to inode i, and whether all of it is
  writer,     \* [stage, value, handle] of put
  reader      \* reader[r]: [stage, handle, found] of get

vars == <<path, tmp, content, writer, reader>>

Resting == [stage |-> "idle", value |-> Miss, handle |-> NoFile]

Init ==
  /\ path = NoFile /\ tmp = NoFile
  /\ content = [i \in Inodes |-> [value |-> Miss, whole |-> FALSE]]
  /\ writer = Resting
  /\ reader = [r \in Readers |-> [stage |-> "idle", handle |-> NoFile, found |-> Miss]]

InUse == {path, tmp} \cup {reader[r].handle : r \in Readers}

-----------------------------------------------------------------------------
(* put *)

Put ==
  /\ writer.stage = "idle"
  /\ \E v \in Values : writer' = [Resting EXCEPT !.stage = "open", !.value = v]
  /\ UNCHANGED <<path, tmp, content, reader>>

\* a file of that name is truncated, otherwise a new one is made
Truncate(i) ==
  /\ writer' = [writer EXCEPT !.stage = "write", !.handle = i]
  /\ content' = [content EXCEPT ![i] = [value |-> writer.value, whole |-> FALSE]]

\* mutant: the file is written in place
OpenTmpInPlace ==
  /\ writer.stage = "open"
  /\ \E i \in Inodes :
       /\ IF path = NoFile THEN i \notin InUse ELSE i = path
       /\ Truncate(i) /\ tmp' = i
  /\ UNCHANGED <<path, reader>>
OpenTmp ==
  /\ writer.stage = "open"
  /\ \E i \in Inodes :
       /\ IF tmp = NoFile THEN i \notin InUse ELSE i = tmp
       /\ Truncate(i) /\ tmp' = i
  /\ UNCHANGED <<path, reader>>

WriteTmp ==
  /\ writer.stage = "write"
  /\ writer' = [writer EXCEPT !.stage = "replace"]
  /\ content' = [content EXCEPT ![writer.handle].whole = TRUE]
  /\ UNCHANGED <<path, tmp, reader>>

Replace ==
  /\ writer.stage = "replace"
  /\ writer' = [writer EXCEPT !.stage = "unlink", !.handle = NoFile]
  /\ path' = tmp /\ tmp' = NoFile
  /\ UNCHANGED <<content, reader>>

\* an operation raises OSError, and the finally clause is next
\* mutant: the error is swallowed
WriteFailsUnseen ==
  /\ writer.stage \in {"open", "write"}
  /\ writer' = [writer EXCEPT !.stage = "replace"]
  /\ UNCHANGED <<path, tmp, content, reader>>
WriteFails ==
  /\ writer.stage \in {"open", "write", "replace"}
  /\ writer' = [writer EXCEPT !.stage = "unlink", !.handle = NoFile]
  /\ UNCHANGED <<path, tmp, content, reader>>

\* finally: the temporary file goes, if it is still there
Unlink ==
  /\ writer.stage = "unlink"
  /\ writer' = Resting
  /\ tmp' = NoFile
  /\ UNCHANGED <<path, content, reader>>

\* the process is killed; the files stay as they are
Crash ==
  /\ writer.stage # "idle"
  /\ writer' = Resting
  /\ UNCHANGED <<path, tmp, content, reader>>

-----------------------------------------------------------------------------
(* get *)

\* no file is a miss; once open, the file outlives its name
OpenPath(r) ==
  /\ reader[r].stage = "idle"
  /\ reader' = [reader EXCEPT ![r] =
       IF path = NoFile THEN [@ EXCEPT !.found = Miss]
       ELSE [@ EXCEPT !.stage = "read", !.handle = path]]
  /\ UNCHANGED <<path, tmp, content, writer>>

\* A file that is not whole cannot be decompressed or parsed: a miss.  (Where the
\* exception is none that cache.py:94 names the run ends: Lookup of module Cli.)
Found(i) == IF content[i].whole THEN content[i].value ELSE Miss
ReadAll(r) ==
  /\ reader[r].stage = "read"
  /\ reader' = [reader EXCEPT ![r] =
       [stage |-> "idle", handle |-> NoFile, found |-> Found(reader[r].handle)]]
  /\ UNCHANGED <<path, tmp, content, writer>>

\* somebody empties the cache directory
Delete ==
  /\ path # NoFile /\ path' = NoFile
  /\ UNCHANGED <<tmp, content, writer, reader>>

Next ==
  \/ Put \/ OpenTmp \/ WriteTmp \/ Replace \/ WriteFails \/ Unlink \/ Crash \/ Delete
  \/ \E r \in Readers : OpenPath(r) \/ ReadAll(r)

Spec == Init /\ [][Next]_vars

-----------------------------------------------------------------------------

\* The state is well typed; a put that is over has no temporary file open.
TypeOK ==
  /\ path \in Inodes \cup {NoFile}
  /\ tmp \in Inodes \cup {NoFile}
  /\ content \in [Inodes -> [value : Values \cup {Miss}, whole : BOOLEAN]]
  /\ writer \in [stage : {"idle", "open", "write", "replace", "unlink"},
                 value : Values \cup {Miss}, handle : Inodes \cup {NoFile}]
  /\ writer.handle # NoFile <=> writer.stage \in {"write", "replace"}
  /\ reader \in [Readers -> [stage : {"idle", "read"}, handle : Inodes \cup {NoFile},
                             found : Values \cup {Miss}]]
  /\ \A r \in Readers : reader[r].handle # NoFile <=> reader[r].stage = "read"

\* cache.py:116-119: however often the writer is killed or fails, whatever a
\* dead one left under the temporary name, the file that get opens is whole,
\* and stays whole for a reader that has it open while it is replaced.
PathWhole ==
  /\ path # NoFile => content[path].whole
  /\ \A r \in Readers : reader[r].stage = "read" => content[reader[r].handle].whole

\* ... and the cache is a register: a put takes effect in one step, and a get
\* returns what was stored when it opened the file.
Store == INSTANCE CacheStore WITH
  stored <- IF path = NoFile THEN Miss ELSE content[path].value,
  got <- [r \in Readers |-> IF reader[r].stage = "read" THEN content[reader[r].handle].value
                            ELSE reader[r].found]
ImplementsCacheStore == Store!Spec
=============================================================================
