---------------------------- MODULE Shell_proofs ----------------------------
(* Theorems about module Shell, for a day, a timeout and a number of       *)
(* launches of any length, and any depth of activations.                   *)
EXTENDS Shell, TLAPS

\* a launch is left for the activation that is about to make it
LaunchIsLeft == At("clear") \/ At("shell") => launches < MaxLaunches

\* Whoever may still create the file counts among its possible makers, and so
\* does whoever has written what is there: this makes NoOldFileIsTaken
\* inductive, whichever activation looks.
MakersAreKnown ==
  \A d \in DOMAIN frames : frames[d].stage # "clear" =>
    AtWork \subseteq makers[d] /\ (file # None => file.writers \subseteq makers[d])

\* after a look in vain at a time that is over nothing is owed
NothingIsOwed == At("check") /\ TimedOut => Depth \notin owed

IInv == TypeOK /\ LaunchIsLeft /\ MakersAreKnown /\ NothingIsOwed

\* The initial states satisfy the invariant.
LEMMA InitIInv == Init => IInv
  BY NoneAssumption, ShellAssumption
  DEF Init, IInv, TypeOK, LaunchIsLeft, MakersAreKnown, NothingIsOwed, At, Depth, Launches, Statuses

\* What a step does to the activations: nothing, or it moves the innermost
\* one, ends it, or puts one at its beginning on top of one that sleeps.
Moves(frame) == Depth > 0 /\ frames' = [frames EXCEPT ![Depth] = frame]
Ends == Depth > 0 /\ frames' = SubSeq(frames, 1, Depth - 1)
Starts == /\ Depth = 0 \/ At("sleep")
          /\ \E frame \in Frame : frame.stage = "clear" /\ frames' = Append(frames, frame)

\* The user's start, and each action of the macro, is one of these.
LEMMA RunFrames == ASSUME TypeOK, Run PROVE status' \in Statuses /\ (UNCHANGED frames \/ Starts)
  BY ShellAssumption DEF Run, Starts, TypeOK, Statuses, Frame, Stages

LEMMA MacroFrames ==
  ASSUME TypeOK, Clear \/ Launch \/ Start \/ Look \/ Check \/ Wake \/ Open
  PROVE  /\ status' \in Statuses
         /\ Ends \/ \E frame \in Frame : Moves(frame) /\ frame.stage # "clear"
<1> USE ShellAssumption
<1>1. /\ Depth \in Nat /\ timer \in 0..(Day - 1) /\ Day \in Nat /\ status \in Statuses
      /\ Depth > 0 => Top \in Frame
  BY DEF TypeOK, Depth, Top
<1>2. ASSUME Depth > 0, NEW stage \in Stages, NEW start \in 0..(Day - 1), NEW target \in 0..Day
      PROVE  /\ [Top EXCEPT !.stage = stage] \in Frame
             /\ [Top EXCEPT !.stage = stage, !.start = start] \in Frame
             /\ [Top EXCEPT !.stage = stage, !.target = target] \in Frame
             /\ [Top EXCEPT !.stage = stage].stage = stage
             /\ [Top EXCEPT !.stage = stage, !.start = start].stage = stage
             /\ [Top EXCEPT !.stage = stage, !.target = target].stage = stage
  BY <1>1, <1>2 DEF Frame
<1>3. /\ {"shell", "start", "look", "check", "open", "sleep"} \subseteq Stages
      /\ {"failed", "pass", "timedout"} \subseteq Statuses
      /\ timer + 1 \in 0..Day
  BY <1>1 DEF Stages, Statuses
<1>4. CASE Clear
  BY <1>1, <1>2, <1>3, <1>4 DEF Clear, Go, End, Ends, Moves, At
<1>5. CASE Launch
  BY <1>1, <1>2, <1>3, <1>5 DEF Launch, Go, End, Ends, Moves, At
<1>6. CASE Start
  BY <1>1, <1>2, <1>3, <1>6 DEF Start, Go, Moves, At
<1>7. CASE Look
  BY <1>1, <1>2, <1>3, <1>7 DEF Look, Go, Moves, At
<1>8. CASE Check
  <2>1. CASE End("timedout")
    BY <1>1, <1>3, <1>8, <2>1 DEF Check, End, Ends, At
  <2>2. CASE Go([Top EXCEPT !.stage = "sleep", !.target = timer + 1])
    BY <1>1, <1>2, <1>3, <1>8, <2>2 DEF Check, Go, Moves, At
  <2> QED
    BY <1>8, <2>1, <2>2 DEF Check
<1>9. CASE Wake
  BY <1>1, <1>2, <1>3, <1>9 DEF Wake, Awake, Go, Moves, At
<1>10. CASE Open
  BY <1>1, <1>3, <1>10 DEF Open, End, Ends, At
<1> QED
  BY <1>4, <1>5, <1>6, <1>7, <1>8, <1>9, <1>10

\* The activations stay well typed, and what is below the innermost one stays.
LEMMA FramesType ==
  ASSUME TypeOK,
         \/ UNCHANGED frames \/ Starts \/ Ends
         \/ \E frame \in Frame : Moves(frame) /\ frame.stage # "clear"
  PROVE  /\ frames' \in Seq(Frame)
         /\ \A d \in 1..(Len(frames') - 1) : frames'[d].stage = "sleep"
         /\ \A d \in DOMAIN frames' :
              /\ d \notin DOMAIN frames => frames'[d].stage = "clear"
              /\ d \in DOMAIN frames /\ frames'[d].stage = "clear" => frames[d].stage = "clear"
              /\ d \in DOMAIN frames /\ d # Depth => frames'[d] = frames[d]
<1>1. frames \in Seq(Frame) /\ Depth = Len(frames) /\ Depth \in Nat /\ DOMAIN frames = 1..Depth
      /\ \A d \in 1..(Depth - 1) : frames[d].stage = "sleep"
  BY DEF TypeOK, Depth
<1>2. CASE UNCHANGED frames
  BY <1>1, <1>2
<1>3. CASE Starts
  BY <1>1, <1>3 DEF Starts, At, Top
<1>4. CASE Ends
  <2>1. /\ Len(frames') = Depth - 1 /\ DOMAIN frames' = 1..(Depth - 1)
        /\ \A d \in 1..(Depth - 1) : frames'[d] = frames[d]
        /\ frames' \in Seq(Frame)
    BY <1>1, <1>4 DEF Ends
  <2> QED
    BY <1>1, <2>1
<1>5. ASSUME NEW frame \in Frame, Moves(frame), frame.stage # "clear"
      PROVE  /\ frames' \in Seq(Frame) /\ Len(frames') = Depth
             /\ \A d \in 1..Depth : frames'[d] = IF d = Depth THEN frame ELSE frames[d]
  BY <1>1, <1>5 DEF Moves
<1> QED
  BY <1>1, <1>2, <1>3, <1>4, <1>5

\* Every step moves the activations in one of these ways.
LEMMA StepFrames ==
  ASSUME TypeOK, Step
  PROVE  /\ status' \in Statuses
         /\ \/ UNCHANGED frames \/ Starts \/ Ends
            \/ \E frame \in Frame : Moves(frame) /\ frame.stage # "clear"
  BY RunFrames, MacroFrames DEF Step, Tick, Toggle, Create, Close, Fail, ChildOnly, TypeOK

\* The other variables keep their types.
LEMMA RestType ==
  ASSUME TypeOK, LaunchIsLeft, Step
  PROVE  /\ timer' \in 0..(Day - 1) /\ launches' \in 0..MaxLaunches /\ shown' \in BOOLEAN
         /\ child' \in [Launches -> {"none", "starting", "writing", "done", "failed"}]
         /\ file' \in {None} \cup [writers : SUBSET Launches, whole : BOOLEAN]
<1> USE ShellAssumption
<1>1. CASE Run \/ Clear \/ Start \/ Look \/ Check \/ Wake \/ Open \/ Toggle
  BY <1>1 DEF Run, Clear, Start, Look, Check, Wake, Open, Toggle, MacroOnly, TypeOK
<1>2. CASE Launch
  <2>1. launches + 1 \in 0..MaxLaunches /\ launches + 1 \in Launches
    BY <1>2 DEF Launch, LaunchIsLeft, TypeOK, Launches
  <2> QED
    BY <1>2, <2>1 DEF Launch, TypeOK
<1>3. CASE Tick
  BY <1>3 DEF Tick, TypeOK
<1>4. ASSUME NEW n \in Launches, Create(n) \/ Close(n) \/ Fail(n)
      PROVE  /\ UNCHANGED <<timer, launches, shown>>
             /\ child' \in [Launches -> {"none", "starting", "writing", "done", "failed"}]
             /\ file' \in {None} \cup [writers : SUBSET Launches, whole : BOOLEAN]
  <2>1. CASE Create(n)
    BY <1>4, <2>1 DEF Create, Become, ChildOnly, TypeOK, AtWork
  <2>2. CASE Close(n)
    BY <1>4, <2>2 DEF Close, Become, ChildOnly, TypeOK
  <2>3. CASE Fail(n)
    BY <1>4, <2>3 DEF Fail, Become, ChildOnly, TypeOK
  <2> QED
    BY <1>4, <2>1, <2>2, <2>3
<1> QED
  BY <1>1, <1>2, <1>3, <1>4 DEF Step, TypeOK

\* The file is new only where a child that is at work has created it, or gone.
LEMMA FileStep ==
  ASSUME TypeOK, Step, file' # None
  PROVE  \/ file # None /\ file'.writers \subseteq file.writers \cup AtWork'
         \/ file'.writers \subseteq AtWork'
<1>1. CASE UNCHANGED file
  BY <1>1
<1>2. CASE Clear
  BY <1>2 DEF Clear
<1>3. ASSUME NEW n \in Launches, Create(n)
      PROVE  file'.writers \subseteq AtWork'
  BY <1>3 DEF Create, Become, AtWork, TypeOK
<1>4. ASSUME NEW n \in Launches, Close(n)
      PROVE  UNCHANGED file \/ (file # None /\ file'.writers = file.writers)
  BY <1>4 DEF Close, TypeOK
<1> QED
  BY <1>1, <1>2, <1>3, <1>4
  DEF Step, Run, Launch, Start, Look, Check, Wake, Open, Tick, Toggle, MacroOnly, Fail

\* Whoever may have made the file stays known to every activation.
LEMMA MakersStep ==
  ASSUME TypeOK, MakersAreKnown, Step, Make
  PROVE  MakersAreKnown'
<1> SUFFICES ASSUME NEW d \in DOMAIN frames', frames'[d].stage # "clear"
             PROVE  AtWork' \subseteq makers'[d] /\ (file' # None => file'.writers \subseteq makers'[d])
  BY DEF MakersAreKnown
<1>1. d \in DOMAIN frames
  BY StepFrames, FramesType
<1>2. CASE frames[d].stage = "clear"
  <2>1. d = Depth /\ At("clear")
    BY <1>1, <1>2 DEF TypeOK, Depth, At, Top
  <2>2. frames'[d] # frames[d] /\ frames' # frames
    BY <1>2
  <2>3. Clear
    <3>1. Depth # 0 /\ Top.stage = "clear"
      BY <2>1, <1>1 DEF TypeOK, Depth, At
    <3>2. ~(Run \/ Launch \/ Start \/ Look \/ Check \/ Wake \/ Open)
      BY <3>1 DEF Run, Launch, Start, Look, Check, Wake, Awake, Open, At
    <3>3. ~(Tick \/ Toggle \/ \E n \in Launches : Create(n) \/ Close(n) \/ Fail(n))
      BY <2>2 DEF Tick, Toggle, Create, Close, Fail, ChildOnly
    <3> QED
      BY <3>2, <3>3 DEF Step
  <2>4. file' # None => ~shown' /\ file' = file
    <3>1. ~End("failed")
      BY <2>1 DEF End, TypeOK, Depth
    <3> QED
      BY <2>3, <3>1 DEF Clear, FileExists
  <2>5. makers'[d] = AtWork' \cup IF file' # None /\ ~shown' THEN file'.writers ELSE {}
    BY <1>2 DEF Make
  <2> QED
    BY <2>4, <2>5
<1>3. CASE frames[d].stage # "clear"
  <2>1. makers'[d] = AtWork' \cup makers[d]
    BY <1>1, <1>3 DEF Make
  <2>2. AtWork \subseteq makers[d] /\ (file # None => file.writers \subseteq makers[d])
    BY <1>1, <1>3 DEF MakersAreKnown
  <2> QED
    BY <2>1, <2>2, FileStep
<1> QED
  BY <1>2, <1>3

\* How the innermost activation has come to its stage.
LEMMA NewTop ==
  ASSUME TypeOK, Step, At("clear")' \/ At("shell")' \/ At("check")'
  PROVE  \/ UNCHANGED <<frames, launches>> /\ (At("check") => UNCHANGED timer)
         \/ Run /\ UNCHANGED launches
         \/ At("clear") /\ ~At("check")' /\ UNCHANGED launches
         \/ At("check")' /\ Look /\ ~FileExists'
<1>1. /\ Depth \in Nat /\ Depth = Len(frames)
      /\ Depth > 0 => Top \in Frame
      /\ \A d \in 1..(Depth - 1) : frames[d].stage = "sleep"
  BY DEF TypeOK, Depth, Top
<1>2. /\ Depth' = Len(frames') /\ Depth' > 0
      /\ frames'[Depth'].stage \in {"clear", "shell", "check"}
      /\ \A stage \in {"clear", "shell", "check"} : At(stage)' <=> frames'[Depth'].stage = stage
  BY DEF At, Depth, Top
<1>3. ASSUME NEW frame, Go(frame), Depth > 0
      PROVE  frames'[Depth'] = frame
  BY <1>1, <1>2, <1>3 DEF Go, TypeOK
<1>4. ~Ends
  <2>1. ASSUME Ends PROVE frames'[Depth'] = frames[Depth - 1] /\ Depth - 1 \in 1..(Depth - 1)
    <3>1. /\ frames' = SubSeq(frames, 1, Depth - 1) /\ frames \in Seq(Frame) /\ Depth > 0
      BY <2>1 DEF Ends, TypeOK
    <3>2. Len(frames') = Depth - 1 /\ \A d \in 1..(Depth - 1) : frames'[d] = frames[d]
      BY <3>1, <1>1
    <3> QED
      BY <3>2, <1>1, <1>2
  <2> QED
    BY <2>1, <1>1, <1>2
<1>5. \A ending : Depth > 0 => ~End(ending)
  BY <1>4 DEF End, Ends
<1>6. \A stage : Depth > 0 => [Top EXCEPT !.stage = stage].stage = stage
  BY <1>1 DEF Frame
<1>7. CASE Run
  BY <1>7 DEF Run, MacroOnly
<1>8. CASE Clear
  BY <1>2, <1>3, <1>5, <1>6, <1>8 DEF Clear, At
<1>9. CASE Look
  <2>1. Depth > 0 /\ UNCHANGED <<file, shown>>
        /\ Go([Top EXCEPT !.stage = IF FileExists THEN "open" ELSE "check"])
    BY <1>9 DEF Look, At, MacroOnly
  <2>2. frames'[Depth'].stage = IF FileExists THEN "open" ELSE "check"
    BY <1>3, <1>6, <2>1
  <2> QED
    BY <1>2, <1>9, <2>1, <2>2 DEF FileExists
<1>10. CASE Launch \/ Start \/ Check \/ Wake \/ Open
  <2>1. CASE Launch
    <3>1. Depth > 0 /\ Go([Top EXCEPT !.stage = "start"])
      BY <1>5, <2>1 DEF Launch, At
    <3> QED
      BY <3>1, <1>2, <1>3, <1>6
  <2>2. CASE Start
    <3>1. Depth > 0 /\ Go([Top EXCEPT !.stage = "look", !.start = timer])
      BY <2>2 DEF Start, At
    <3>2. frames'[Depth'] = [Top EXCEPT !.stage = "look", !.start = timer]
      BY <3>1, <1>3
    <3> QED
      BY <3>1, <3>2, <1>1, <1>2 DEF Frame
  <2>3. CASE Check
    <3>1. Depth > 0 /\ Go([Top EXCEPT !.stage = "sleep", !.target = timer + 1])
      BY <1>5, <2>3 DEF Check, At
    <3>2. frames'[Depth'] = [Top EXCEPT !.stage = "sleep", !.target = timer + 1]
      BY <3>1, <1>3
    <3> QED
      BY <3>1, <3>2, <1>1, <1>2 DEF Frame
  <2>4. CASE Wake
    <3>1. Depth > 0 /\ Go([Top EXCEPT !.stage = "look"])
      BY <2>4 DEF Wake, Awake, At
    <3> QED
      BY <3>1, <1>2, <1>3, <1>6
  <2>5. CASE Open
    BY <1>5, <2>5 DEF Open, At
  <2> QED
    BY <1>10, <2>1, <2>2, <2>3, <2>4, <2>5
<1>11. CASE Tick
  BY <1>11 DEF Tick
<1>12. CASE Toggle \/ \E n \in Launches : Create(n) \/ Close(n) \/ Fail(n)
  BY <1>12 DEF Toggle, Create, Close, Fail, ChildOnly
<1> QED
  BY <1>7, <1>8, <1>9, <1>10, <1>11, <1>12 DEF Step

\* A look in vain is the only way to the time, and at that moment nothing is
\* owed; while the time is looked at it stands still.
LEMMA NothingIsOwedStep ==
  ASSUME TypeOK, TypeOK', NothingIsOwed, Step, Owe
  PROVE  NothingIsOwed'
<1> SUFFICES ASSUME At("check")', TimedOut'
             PROVE  Depth' \notin owed'
  BY DEF NothingIsOwed
<1>1. timer' > frames'[Depth'].start + Timeout
  BY DEF TimedOut, Top
<1>2. Depth' \in owed' => FileExists' /\ Depth' \in owed
  <2>1. \A d \in owed' : FileExists' /\ (d \in owed \/ timer' <= frames'[d].start + Timeout)
    BY DEF Owe
  <2>2. timer' \in Int /\ frames'[Depth'].start + Timeout \in Int
    <3>1. Depth' \in DOMAIN frames' /\ frames'[Depth'] \in Frame
      BY DEF TypeOK, Depth, At
    <3> QED
      BY <3>1, ShellAssumption DEF TypeOK, Frame
  <2> QED
    BY <1>1, <2>1, <2>2
<1>3. CASE UNCHANGED frames /\ (At("check") => UNCHANGED timer)
  BY <1>1, <1>2, <1>3 DEF NothingIsOwed, TimedOut, At, Top, Depth
<1>4. CASE Run
  <2>1. UNCHANGED frames /\ UNCHANGED timer
    <3>1. ~Starts
      BY DEF Starts, At, Top, Depth, TypeOK
    <3> QED
      BY <1>4, <3>1, RunFrames DEF Run, MacroOnly
  <2> QED
    BY <1>3, <2>1
<1>5. CASE ~FileExists'
  BY <1>2, <1>5
<1> QED
  BY <1>3, <1>4, <1>5, NewTop

\* A step keeps the invariant.
LEMMA StepIInv == ASSUME IInv, Next PROVE IInv'
<1> USE DEF IInv
<1>1. Step /\ Owe /\ Make
  BY DEF Next
<1>2. /\ frames' \in Seq(Frame)
      /\ \A d \in 1..(Len(frames') - 1) : frames'[d].stage = "sleep"
      /\ \A d \in DOMAIN frames' :
           /\ d \notin DOMAIN frames => frames'[d].stage = "clear"
           /\ d \in DOMAIN frames /\ frames'[d].stage = "clear" => frames[d].stage = "clear"
  BY <1>1, StepFrames, FramesType
<1>3. TypeOK'
  <2>1. owed' \subseteq DOMAIN frames'
    BY <1>1 DEF Owe
  <2>2. makers' \in [DOMAIN frames' -> SUBSET Launches]
    <3> SUFFICES ASSUME NEW d \in DOMAIN frames', frames'[d].stage # "clear"
                 PROVE  makers'[d] \in SUBSET Launches
      BY <1>1 DEF Make
    <3>1. d \in DOMAIN frames /\ AtWork' \subseteq Launches /\ makers[d] \subseteq Launches
      BY <1>2 DEF TypeOK, AtWork
    <3>2. file' # None => file'.writers \subseteq Launches
      BY <1>1, RestType
    <3>3. makers'[d] = AtWork' \cup (IF frames[d].stage # "clear" THEN makers[d]
                                     ELSE IF file' # None /\ ~shown' THEN file'.writers ELSE {})
      BY <1>1 DEF Make
    <3> QED
      BY <3>1, <3>2, <3>3
  <2> QED
    BY <1>1, <1>2, <2>1, <2>2, RestType, StepFrames DEF TypeOK, Depth
<1>4. MakersAreKnown'
  BY <1>1, MakersStep
<1>5. NothingIsOwed'
  BY <1>1, <1>3, NothingIsOwedStep
<1>6. LaunchIsLeft'
  <2> SUFFICES ASSUME At("clear")' \/ At("shell")' PROVE launches' < MaxLaunches
    BY DEF LaunchIsLeft
  <2>1. ~At("check")'
    BY DEF At
  <2>2. Run => launches < MaxLaunches
    BY DEF Run
  <2>3. UNCHANGED frames => At("clear") \/ At("shell")
    BY DEF At, Top, Depth
  <2> QED
    BY <1>1, <2>1, <2>2, <2>3, NewTop DEF LaunchIsLeft
<1> QED
  BY <1>3, <1>4, <1>5, <1>6

\* The invariant holds in every state.
LEMMA SpecIInv == Spec => []IInv
<1>1. IInv /\ UNCHANGED vars => IInv'
  BY DEF IInv, vars, TypeOK, LaunchIsLeft, MakersAreKnown, NothingIsOwed, At, TimedOut, Top,
         Depth, AtWork
<1>2. IInv /\ Next => IInv'
  BY StepIInv
<1> QED
  BY InitIInv, <1>1, <1>2, PTL DEF Spec

\* SpikeShell.bas and spike_target.py: the state is well typed.
THEOREM ShellTypeOK == Spec => []TypeOK
<1>1. IInv => TypeOK
  BY DEF IInv
<1> QED
  BY <1>1, SpecIInv, PTL

\* SpikeShell.bas:88-92: what an activation opens was made by children at work
\* since it removed the old file, or was hidden from it at that moment.
THEOREM ShellNoOldFileIsTaken == Spec => []NoOldFileIsTaken
<1>1. IInv => NoOldFileIsTaken
  BY DEF IInv, TypeOK, MakersAreKnown, NoOldFileIsTaken, At, Top, Depth
<1> QED
  BY <1>1, SpecIInv, PTL

\* SpikeShell.bas:106-114: no activation times out that has had the file in time.
THEOREM ShellNoFileIsMissed == Spec => NoFileIsMissed
<1>1. IInv /\ [Next]_vars => [Len(frames') < Depth /\ status' = "timedout" => Depth \notin owed]_vars
  <2> SUFFICES ASSUME IInv, Step, Len(frames') < Depth, status' = "timedout"
               PROVE  Depth \notin owed
    BY DEF Next, vars, Depth
  <2>1. At("check") /\ TimedOut
    <3>1. Depth = Len(frames) /\ Depth \in Nat /\ frames \in Seq(Frame)
      BY DEF IInv, TypeOK, Depth
    <3>2. \A frame : ~Go(frame)
      BY <3>1 DEF Go
    <3>3. frames' # frames /\ ~Starts
      BY <3>1 DEF Starts
    <3>4. ~Run
      BY <3>3, RunFrames DEF IInv
    <3>5. ~End("failed") /\ ~End("pass")
      BY DEF End
    <3>6. ~(Clear \/ Launch \/ Start \/ Look \/ Wake \/ Open)
      BY <3>2, <3>5 DEF Clear, Launch, Start, Look, Wake, Open
    <3>7. ~(Tick \/ Toggle \/ \E n \in Launches : Create(n) \/ Close(n) \/ Fail(n))
      BY <3>3 DEF Tick, Toggle, Create, Close, Fail, ChildOnly
    <3> QED
      BY <3>2, <3>4, <3>6, <3>7 DEF Step, Check
  <2> QED
    BY <2>1 DEF IInv, NothingIsOwed
<1> QED
  BY <1>1, SpecIInv, PTL DEF Spec, NoFileIsMissed
=============================================================================
