------------------------------- MODULE Shell -------------------------------
(***************************************************************************)
(* The launch from Excel: the macro RunSpike of spike/vba/SpikeShell.bas   *)
(* starts spike/spike_target.py and polls for the file it writes.  Shell() *)
(* does not wait, so the children of earlier launches may still be at work *)
(* when the user runs the macro again, and DoEvents lets the user run it   *)
(* while an earlier activation sleeps: that one goes on when the later one *)
(* has ended.  The sandbox may hide the output path from Dir and show it   *)
(* again.  Time is Excel's Timer, the seconds since midnight, in steps of  *)
(* the poll interval.                                                      *)
(***************************************************************************)
EXTENDS Integers, Sequences

CONSTANTS
  None,
  Day,          \* Timer goes from 0 to Day - 1 and starts again
  Timeout,      \* SPIKE_TIMEOUT_SECONDS
  MaxLaunches   \* bound of the model

ASSUME NoneAssumption == None \notin [writers : SUBSET Nat, whole : BOOLEAN]
ASSUME ShellAssumption == {Day, Timeout, MaxLaunches} \subseteq Nat /\ Timeout < Day

VARIABLES
  timer,
  frames,    \* the activations of RunSpike, the innermost one last: stage,
             \* startTime, the target of Sleep
  status,    \* the status cell, which they share
  launches,  \* launches so far
  child,     \* child[n]: the process of launch n
  file,      \* what is at the output path, or None
  shown,     \* whether Dir can see the output path
  owed,      \* history: the activations that have had the file in time
  makers     \* history: whose children may have made the file, for each activation

vars == <<timer, frames, status, launches, child, file, shown, owed, makers>>

Launches == 1..MaxLaunches
AtWork == {n \in Launches : child[n] \in {"starting", "writing"}}

Init ==
  /\ timer \in 0..(Day - 1)
  /\ frames = <<>>
  /\ status = "blank"
  /\ launches = 0
  /\ child = [n \in Launches |-> "none"]
  /\ file = None
  /\ shown \in BOOLEAN
  /\ owed = {}
  /\ makers = <<>>

-----------------------------------------------------------------------------
(* The macro: the innermost activation moves, the others wait for it. *)

Depth == Len(frames)
Top == frames[Depth]
At(stage) == Depth > 0 /\ Top.stage = stage
Go(frame) == frames' = [frames EXCEPT ![Depth] = frame] /\ UNCHANGED status
End(ending) == frames' = SubSeq(frames, 1, Depth - 1) /\ status' = ending
MacroOnly == UNCHANGED <<timer, launches, child, file, shown>>

\* On Error Resume Next: where Dir raises an error the answer is no
FileExists == file # None /\ shown

\* The user starts the macro, in the DoEvents of a sleep too.  The cells are
\* read; with one of them empty, or in error, there is nothing to launch.
Run ==
  /\ (Depth = 0 \/ At("sleep")) /\ launches < MaxLaunches
  /\ \/ /\ frames' = Append(frames, [stage |-> "clear", start |-> 0, target |-> 0])
        /\ status' = "running"
     \/ UNCHANGED frames /\ status' = "failed"
  /\ MacroOnly

\* mutant: an old file stays
ClearNothing ==
  At("clear") /\ Go([Top EXCEPT !.stage = "shell"]) /\ MacroOnly
\* An old file is removed if it can be seen; Kill may raise an error.
Clear ==
  /\ At("clear")
  /\ \/ /\ file' = IF FileExists THEN None ELSE file
        /\ Go([Top EXCEPT !.stage = "shell"])
     \/ FileExists /\ UNCHANGED file /\ End("failed")
  /\ UNCHANGED <<timer, launches, child, shown>>

\* The command is launched, or the sandbox keeps it from starting, or Shell
\* raises an error.
Launch ==
  /\ At("shell")
  /\ launches' = launches + 1
  /\ \/ /\ \E state \in {"none", "starting"} : child' = [child EXCEPT ![launches + 1] = state]
        /\ Go([Top EXCEPT !.stage = "start"])
     \/ UNCHANGED child /\ End("failed")
  /\ UNCHANGED <<timer, file, shown>>

\* startTime = Timer
Start == At("start") /\ Go([Top EXCEPT !.stage = "look", !.start = timer]) /\ MacroOnly

\* elapsed = Timer - startTime, negative after midnight
TimedOut == timer > Top.start + Timeout

\* mutant: the time is looked at before the file
LookTimeFirst ==
  /\ At("look")
  /\ \/ TimedOut /\ End("timedout")
     \/ ~TimedOut /\ Go([Top EXCEPT !.stage = IF FileExists THEN "open" ELSE "check"])
  /\ MacroOnly
Look ==
  /\ At("look")
  /\ Go([Top EXCEPT !.stage = IF FileExists THEN "open" ELSE "check"])
  /\ MacroOnly

\* mutant: the pause is twice as long
CheckSlowly ==
  /\ At("check")
  /\ \/ TimedOut /\ End("timedout")
     \/ ~TimedOut /\ Go([Top EXCEPT !.stage = "sleep", !.target = timer + 2])
  /\ MacroOnly
Check ==
  /\ At("check")
  /\ \/ TimedOut /\ End("timedout")
     \/ ~TimedOut /\ Go([Top EXCEPT !.stage = "sleep", !.target = timer + 1])
  /\ MacroOnly

\* Do While Timer < target
Awake == At("sleep") /\ timer >= Top.target
\* mutant: startTime is taken inside the loop
WakeAndRestart == Awake /\ Go([Top EXCEPT !.stage = "look", !.start = timer]) /\ MacroOnly
Wake == Awake /\ Go([Top EXCEPT !.stage = "look"]) /\ MacroOnly

\* Access is refused or granted; Workbooks.Open raises an error, or the file is
\* a whole workbook.
Open ==
  /\ At("open")
  /\ End("failed") \/ (file # None /\ file.whole /\ End("pass"))
  /\ MacroOnly

-----------------------------------------------------------------------------
(* The children. *)

Become(n, state) == child' = [child EXCEPT ![n] = state]
ChildOnly == UNCHANGED <<timer, frames, status, launches, shown>>

\* wb.save creates the file, or empties the one that is there, before it
\* writes anything; others that have it open go on writing into it
Create(n) ==
  /\ child[n] = "starting" /\ Become(n, "writing")
  /\ file' = [writers |-> {n} \cup (IF file = None THEN {} ELSE file.writers \cap AtWork), whole |-> FALSE]
  /\ ChildOnly

\* The workbook is complete.  If the file has been removed meanwhile nobody
\* sees it; what two children have written into one file may be anything.
Close(n) ==
  /\ child[n] = "writing" /\ Become(n, "done")
  /\ IF file = None \/ n \notin file.writers THEN UNCHANGED file
     ELSE \E whole \in IF file.writers = {n} THEN {TRUE} ELSE BOOLEAN :
            file' = [file EXCEPT !.whole = whole]
  /\ ChildOnly

\* no such directory, no openpyxl, a full disk: exit code 1, which nobody reads
Fail(n) == child[n] \in {"starting", "writing"} /\ Become(n, "failed") /\ UNCHANGED file /\ ChildOnly

-----------------------------------------------------------------------------
(* The surroundings. *)

\* Time passes anywhere but inside the loop, whose own steps take none.
Tick ==
  /\ ~At("look") /\ ~At("check") /\ ~Awake
  /\ timer' = (timer + 1) % Day
  /\ UNCHANGED <<frames, status, launches, child, file, shown>>

\* the sandbox hides the path, or access has been granted
Toggle == shown' = ~shown /\ UNCHANGED <<timer, frames, status, launches, child, file>>

-----------------------------------------------------------------------------

(* History, which no action reads. *)

\* An activation has had the file in time if it could see it at some moment
\* before its time was over, and ever since.
Waits(frame) == frame.stage \in {"look", "check", "sleep"}
Owe ==
  owed' = {d \in DOMAIN frames' :
             /\ Waits(frames'[d]) /\ FileExists'
             /\ d \in owed \/ timer' <= frames'[d].start + Timeout}

\* The file an activation finds is made by children that have been at work
\* since it removed the old one; or it is the old one, hidden at that moment.
Make ==
  LET Left(d) == IF frames[d].stage # "clear" THEN makers[d]
                 ELSE IF file' # None /\ ~shown' THEN file'.writers ELSE {}
  IN  makers' = [d \in DOMAIN frames' |->
                   IF frames'[d].stage = "clear" THEN {} ELSE AtWork' \cup Left(d)]

Step ==
  \/ Run \/ Clear \/ Launch \/ Start \/ Look \/ Check \/ Wake \/ Open \/ Tick \/ Toggle
  \/ \E n \in Launches : Create(n) \/ Close(n) \/ Fail(n)
Next == Step /\ Owe /\ Make

\* Excel goes on with the macro, and time goes on.
Macro == Clear \/ Launch \/ Start \/ Look \/ Check \/ Wake
Spec == /\ Init /\ [][Next]_vars
        /\ WF_vars(Macro /\ Owe /\ Make) /\ WF_vars(Tick /\ Owe /\ Make)

-----------------------------------------------------------------------------

Stages == {"clear", "shell", "start", "look", "check", "sleep", "open"}
Frame == [stage : Stages, start : 0..(Day - 1), target : 0..Day]
Statuses == {"blank", "running", "pass", "timedout", "failed"}

TypeOK ==
  /\ timer \in 0..(Day - 1) /\ launches \in 0..MaxLaunches /\ shown \in BOOLEAN
  /\ frames \in Seq(Frame)
  /\ \A d \in 1..(Depth - 1) : frames[d].stage = "sleep"
  /\ status \in Statuses
  /\ child \in [Launches -> {"none", "starting", "writing", "done", "failed"}]
  /\ file \in {None} \cup [writers : SUBSET Launches, whole : BOOLEAN]
  /\ owed \subseteq DOMAIN frames
  /\ makers \in [DOMAIN frames -> SUBSET Launches]

\* SpikeShell.bas:88-92 ("Remove any stale output from a previous run so we
\* don't mistake an old file for evidence that THIS run succeeded"): whatever
\* an activation opens was made by children that were at work at some time
\* since it removed the old file, whoever started them, or was hidden by the
\* sandbox when it looked for the old file.
NoOldFileIsTaken == At("open") /\ file # None => file.writers \subseteq makers[Depth]

\* SpikeShell.bas:106-114, "for up to this many seconds": no activation times
\* out that could see the file at some moment before its time was over and
\* ever since, whatever other activations have done in its sleeps.
NoFileIsMissed ==
  [][Len(frames') < Depth /\ status' = "timedout" => Depth \notin owed]_vars

\* SpikeShell.bas:49-55, "for up to this many seconds": the loop of an
\* activation ends, unless the user runs the macro again meanwhile, if its
\* last sleep ends before midnight.  Otherwise it need not: Timer never
\* reaches a target beyond the end of the day.
MacroEnds ==
  \A d \in Launches, t \in 0..(Day - Timeout - 2) :
    (Depth = d /\ Waits(Top) /\ Top.start = t) ~> ~(Depth = d /\ Waits(Top))
=============================================================================
