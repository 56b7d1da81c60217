-------------------------- MODULE CacheFiles_proofs --------------------------
(***************************************************************************)
(* The cache file is whole, and the cache a register, for every number of  *)
(* readers, entries and files.  The point of the strengthening is that the *)
(* file about to be truncated, which may be what a killed writer has left, *)
(* is never the one under the cache's own name nor one that is being read. *)
(***************************************************************************)
EXTENDS CacheFiles, TLAPS

\* the temporary file is nobody else's
TmpApart ==
  tmp # NoFile => tmp # path /\ \A r \in Readers : reader[r].handle # tmp

\* the writer writes the temporary file, a value somebody put
WriterInv ==
  /\ writer.stage = "open" => writer.value \in Values
  /\ writer.stage \in {"write", "replace"} =>
       tmp # NoFile /\ writer.handle = tmp /\ content[tmp].value \in Values
  /\ writer.stage = "replace" => content[tmp].whole

WholeIsPut == \A i \in Inodes : content[i].whole => content[i].value \in Values

IInv == TypeOK /\ PathWhole /\ TmpApart /\ WriterInv /\ WholeIsPut

\* the steps of get
Reads == \E r \in Readers : OpenPath(r) \/ ReadAll(r)

LEMMA InitIInv == Init => IInv
BY FilesAssumption
   DEF Init, IInv, TypeOK, PathWhole, TmpApart, WriterInv, WholeIsPut, Resting

LEMMA OpenIInv == IInv /\ OpenTmp => IInv'
<1> SUFFICES ASSUME IInv, OpenTmp PROVE IInv'
  OBVIOUS
<1>1. PICK i \in Inodes : /\ IF tmp = NoFile THEN i \notin InUse ELSE i = tmp
                          /\ Truncate(i) /\ tmp' = i
  BY DEF OpenTmp
<1>2. i # path /\ \A r \in Readers : reader[r].handle # i
  BY <1>1, FilesAssumption DEF IInv, TmpApart, InUse
<1>3. /\ writer' = [writer EXCEPT !.stage = "write", !.handle = i]
      /\ content' = [content EXCEPT ![i] = [value |-> writer.value, whole |-> FALSE]]
      /\ path' = path /\ reader' = reader /\ tmp' = i
      /\ writer.stage = "open" /\ writer.value \in Values /\ i # NoFile
  BY <1>1, FilesAssumption DEF OpenTmp, Truncate, IInv, WriterInv
<1>4. TypeOK'
  BY <1>3 DEF IInv, TypeOK
<1>5. PathWhole'
  BY <1>2, <1>3 DEF IInv, TypeOK, PathWhole
<1>6. TmpApart' /\ WriterInv' /\ WholeIsPut'
  BY <1>2, <1>3 DEF IInv, TypeOK, TmpApart, WriterInv, WholeIsPut
<1> QED BY <1>4, <1>5, <1>6 DEF IInv

LEMMA WriterIInv ==
  IInv /\ (Put \/ WriteTmp \/ Replace \/ WriteFails \/ Unlink \/ Crash \/ Delete) => IInv'
<1> SUFFICES ASSUME IInv, Put \/ WriteTmp \/ Replace \/ WriteFails \/ Unlink \/ Crash \/ Delete
             PROVE IInv'
  OBVIOUS
<1> USE FilesAssumption DEF IInv, TypeOK, PathWhole, TmpApart, WriterInv, WholeIsPut
<1>1. CASE Put
  BY <1>1 DEF Put, Resting
<1>2. CASE WriteTmp
  <2>1. writer.stage = "write" /\ writer.handle = tmp /\ tmp \in Inodes
    BY <1>2 DEF WriteTmp
  <2>2. /\ content'[tmp] = [content[tmp] EXCEPT !.whole = TRUE]
        /\ \A i \in Inodes : i # tmp => content'[i] = content[i]
        /\ content' \in [Inodes -> [value : Values \cup {Miss}, whole : BOOLEAN]]
    <3>1. content' = [content EXCEPT ![tmp].whole = TRUE]
      BY <1>2, <2>1 DEF WriteTmp
    <3>2. content \in [Inodes -> [value : Values \cup {Miss}, whole : BOOLEAN]]
      OBVIOUS
    <3>3. content[tmp] \in [value : Values \cup {Miss}, whole : BOOLEAN]
      BY <2>1, <3>2
    <3>4. [content[tmp] EXCEPT !.whole = TRUE] \in [value : Values \cup {Miss}, whole : BOOLEAN]
      BY <3>3
    <3>5. content' = [content EXCEPT ![tmp] = [content[tmp] EXCEPT !.whole = TRUE]]
      BY <3>1
    <3> HIDE DEF IInv, TypeOK, PathWhole, TmpApart, WriterInv, WholeIsPut
    <3> QED BY <2>1, <3>2, <3>4, <3>5
  <2>3. /\ writer' = [writer EXCEPT !.stage = "replace"]
        /\ path' = path /\ tmp' = tmp /\ reader' = reader
    BY <1>2 DEF WriteTmp
  <2>4. TypeOK' /\ TmpApart'
    BY <2>1, <2>2, <2>3
  <2>5. PathWhole' /\ WholeIsPut'
    BY <2>1, <2>2, <2>3
  <2>6. WriterInv'
    BY <2>1, <2>2, <2>3
  <2> QED BY <2>4, <2>5, <2>6
<1>3. CASE Replace
  BY <1>3 DEF Replace
<1>4. CASE WriteFails
  BY <1>4 DEF WriteFails
<1>5. CASE Unlink
  BY <1>5 DEF Unlink, Resting
<1>6. CASE Crash
  BY <1>6 DEF Crash, Resting
<1>7. CASE Delete
  BY <1>7 DEF Delete
<1> QED BY <1>1, <1>2, <1>3, <1>4, <1>5, <1>6, <1>7

LEMMA ReaderIInv == IInv /\ Reads => IInv'
<1> SUFFICES ASSUME IInv, NEW r \in Readers, OpenPath(r) \/ ReadAll(r) PROVE IInv'
  BY DEF Reads
<1> USE FilesAssumption DEF IInv, TypeOK, PathWhole, TmpApart, WriterInv, WholeIsPut
<1>1. CASE OpenPath(r)
  <2>1. UNCHANGED <<path, tmp, content, writer>>
    BY <1>1 DEF OpenPath
  <2>2. CASE path = NoFile
    BY <1>1, <2>1, <2>2 DEF OpenPath
  <2>3. CASE path # NoFile
    <3>1. reader' = [reader EXCEPT ![r] = [@ EXCEPT !.stage = "read", !.handle = path]]
      BY <1>1, <2>3 DEF OpenPath
    <3>2. /\ reader'[r].stage = "read" /\ reader'[r].handle = path
          /\ reader'[r].found = reader[r].found
          /\ \A q \in Readers : q # r => reader'[q] = reader[q]
      BY <3>1
    <3>3. TypeOK'
      <4>1. [reader[r] EXCEPT !.stage = "read", !.handle = path]
              \in [stage : {"idle", "read"}, handle : Inodes \cup {NoFile},
                   found : Values \cup {Miss}]
        OBVIOUS
      <4>2. reader' \in [Readers -> [stage : {"idle", "read"}, handle : Inodes \cup {NoFile},
                                     found : Values \cup {Miss}]]
        BY <3>1, <4>1
      <4> QED BY <2>1, <2>3, <3>2, <4>2
    <3>4. PathWhole'
      BY <2>1, <2>3, <3>2
    <3>5. TmpApart' /\ WriterInv' /\ WholeIsPut'
      BY <2>1, <2>3, <3>2
    <3> QED BY <3>3, <3>4, <3>5
  <2> QED BY <2>2, <2>3
<1>2. CASE ReadAll(r)
  BY <1>2 DEF ReadAll, Found
<1> QED BY <1>1, <1>2

LEMMA NextIInv == IInv /\ [Next]_vars => IInv'
<1> SUFFICES ASSUME IInv, [Next]_vars PROVE IInv'
  OBVIOUS
<1>1. CASE OpenTmp
  BY <1>1, OpenIInv
<1>2. CASE Put \/ WriteTmp \/ Replace \/ WriteFails \/ Unlink \/ Crash \/ Delete
  BY <1>2, WriterIInv
<1>3. CASE Reads
  BY <1>3, ReaderIInv
<1>4. CASE UNCHANGED vars
  BY <1>4 DEF vars, IInv, TypeOK, PathWhole, TmpApart, WriterInv, WholeIsPut
<1> QED BY <1>1, <1>2, <1>3, <1>4 DEF Next, Reads

\* The strengthened invariant holds of every behaviour: cache.py's writer
\* truncates nothing that is, or is being read as, the cache entry.
THEOREM FilesInvariance == Spec => []IInv
<1>1. Init => IInv
  BY InitIInv
<1>2. IInv /\ [Next]_vars => IInv'
  BY NextIInv
<1> QED BY <1>1, <1>2, PTL DEF Spec

\* put and get keep to their types, whatever fails or is killed.
THEOREM FilesTypeCorrect == Spec => []TypeOK
<1>1. IInv => TypeOK
  BY DEF IInv
<1> QED BY <1>1, FilesInvariance, PTL

\* cache.py:116-119: no crash leaves a half-written file under the name that
\* get opens, nor in the hands of a reader.
THEOREM PathAlwaysWhole == Spec => []PathWhole
<1>1. IInv => PathWhole
  BY DEF IInv
<1> QED BY <1>1, FilesInvariance, PTL

-----------------------------------------------------------------------------

StoredValue == IF path = NoFile THEN Miss ELSE content[path].value
GotValue == [r \in Readers |-> IF reader[r].stage = "read" THEN content[reader[r].handle].value
                               ELSE reader[r].found]

LEMMA InitStore == Init => Store!Init
BY DEF Init, Store!Init

LEMMA QuietStep ==
  IInv /\ (Put \/ WriteTmp \/ WriteFails \/ Unlink \/ Crash)
    => UNCHANGED <<StoredValue, GotValue>>
<1> SUFFICES ASSUME IInv, Put \/ WriteTmp \/ WriteFails \/ Unlink \/ Crash
             PROVE StoredValue' = StoredValue /\ GotValue' = GotValue
  OBVIOUS
<1> USE DEF IInv, TypeOK, PathWhole, TmpApart, WriterInv, StoredValue, GotValue
<1>1. CASE Put \/ WriteFails \/ Unlink \/ Crash
  BY <1>1 DEF Put, WriteFails, Unlink, Crash
<1>2. CASE WriteTmp
  <2>1. path' = path /\ reader' = reader /\ \A i \in Inodes : content'[i].value = content[i].value
    BY <1>2 DEF WriteTmp
  <2>2. StoredValue' = StoredValue
    BY <2>1
  <2>3. ASSUME NEW r \in Readers
        PROVE reader[r].stage = "read" =>
                content'[reader[r].handle].value = content[reader[r].handle].value
    BY <2>1, FilesAssumption
  <2> QED BY <2>1, <2>2, <2>3
<1> QED BY <1>1, <1>2

LEMMA OpenTmpQuiet == IInv /\ OpenTmp => UNCHANGED <<StoredValue, GotValue>>
<1> SUFFICES ASSUME IInv, OpenTmp PROVE StoredValue' = StoredValue /\ GotValue' = GotValue
  OBVIOUS
<1>1. PICK i \in Inodes : /\ IF tmp = NoFile THEN i \notin InUse ELSE i = tmp
                          /\ Truncate(i)
  BY DEF OpenTmp
<1>2. i # path /\ \A r \in Readers : reader[r].handle # i
  BY <1>1, FilesAssumption DEF IInv, TmpApart, InUse
<1>3. path' = path /\ reader' = reader /\ \A j \in Inodes : j # i => content'[j] = content[j]
  BY <1>1 DEF OpenTmp, Truncate, IInv, TypeOK
<1>4. StoredValue' = StoredValue
  BY <1>2, <1>3 DEF StoredValue, IInv, TypeOK
<1>5. \A r \in Readers : reader[r].stage = "read" =>
        content'[reader[r].handle] = content[reader[r].handle]
  BY <1>2, <1>3 DEF IInv, TypeOK
<1> QED BY <1>3, <1>4, <1>5 DEF GotValue

LEMMA ReplaceStores == IInv /\ Replace => Store!Put
<1> SUFFICES ASSUME IInv, Replace PROVE StoredValue' \in Values /\ GotValue' = GotValue
  BY DEF Store!Put, StoredValue, GotValue
<1>1. path' = tmp /\ content' = content /\ reader' = reader /\ writer.stage = "replace"
  BY DEF Replace
<1>2. tmp # NoFile /\ content[tmp].value \in Values
  BY <1>1 DEF IInv, WriterInv
<1> QED BY <1>1, <1>2 DEF StoredValue, GotValue

LEMMA DeleteLoses == IInv /\ Delete => Store!Lose
BY DEF Delete, Store!Lose

LEMMA ReadStep ==
  ASSUME IInv, NEW r \in Readers, OpenPath(r) \/ ReadAll(r)
  PROVE  Store!Get(r) \/ UNCHANGED <<StoredValue, GotValue>>
<1> USE FilesAssumption DEF IInv, TypeOK, PathWhole, StoredValue, GotValue
<1>1. CASE OpenPath(r)
  <2>1. StoredValue' = StoredValue
    BY <1>1 DEF OpenPath
  <2>2. content' = content /\ \A q \in Readers : q # r => reader'[q] = reader[q]
    BY <1>1 DEF OpenPath
  <2>3. ASSUME path = NoFile PROVE GotValue' = [GotValue EXCEPT ![r] = StoredValue]
    <3>1. reader'[r].stage = "idle" /\ reader'[r].found = Miss /\ StoredValue = Miss
      BY <1>1, <2>3 DEF OpenPath
    <3>2. GotValue'[r] = StoredValue
      BY <3>1
    <3> QED BY <2>2, <3>2
  <2>4. ASSUME path # NoFile PROVE GotValue' = [GotValue EXCEPT ![r] = StoredValue]
    <3>1. /\ reader'[r].stage = "read" /\ reader'[r].handle = path
          /\ StoredValue = content[path].value
      BY <1>1, <2>4 DEF OpenPath
    <3>2. GotValue'[r] = StoredValue
      BY <2>2, <3>1
    <3> QED BY <2>2, <3>2
  <2>5. GotValue' = [GotValue EXCEPT ![r] = StoredValue]
    BY <2>3, <2>4
  <2> QED BY <2>1, <2>5 DEF Store!Get
<1>2. CASE ReadAll(r)
  <2>1. StoredValue' = StoredValue
    BY <1>2 DEF ReadAll
  <2>2. Found(reader[r].handle) = content[reader[r].handle].value
    BY <1>2 DEF ReadAll, Found
  <2>3. GotValue' = GotValue
    BY <1>2, <2>2 DEF ReadAll
  <2> QED BY <2>1, <2>3
<1> QED BY <1>1, <1>2

\* The file operations of cache.py implement the register the client uses: a
\* put is atomic even when it is interrupted, a get is one read of it.
THEOREM FilesImplementStore == Spec => ImplementsCacheStore
<1>1. Init => Store!Init
  BY InitStore
<1>2. IInv /\ [Next]_vars => [Store!Next]_<<StoredValue, GotValue>>
  <2> SUFFICES ASSUME IInv, [Next]_vars
               PROVE Store!Next \/ UNCHANGED <<StoredValue, GotValue>>
    OBVIOUS
  <2>1. CASE Put \/ WriteTmp \/ WriteFails \/ Unlink \/ Crash
    BY <2>1, QuietStep
  <2>2. CASE OpenTmp
    BY <2>2, OpenTmpQuiet
  <2>3. CASE Replace
    BY <2>3, ReplaceStores DEF Store!Next
  <2>4. CASE Delete
    BY <2>4, DeleteLoses DEF Store!Next
  <2>5. CASE Reads
    BY <2>5, ReadStep DEF Store!Next, Reads
  <2>6. CASE UNCHANGED vars
    BY <2>6 DEF vars, StoredValue, GotValue
  <2> QED BY <2>1, <2>2, <2>3, <2>4, <2>5, <2>6 DEF Next, Reads
<1> QED BY <1>1, <1>2, FilesInvariance, PTL
        DEF Spec, ImplementsCacheStore, Store!Spec, StoredValue, GotValue
=============================================================================
