------------------------- MODULE TokenBucket_proofs -------------------------
(***************************************************************************)
(* Theorems about TokenBucket, for every number of threads, every rate,    *)
(* capacity and tolerance.  None uses the bounds Quota and MaxTime.        *)
(***************************************************************************)
EXTENDS TokenBucket, TLAPS

(* The inductive invariant. *)

\* The thread between Enter and Grant or Defer is the lock's holder.
LockInv == \A t \in Threads : pc[t] \in {"locked", "refill", "decide"} <=> lock = t

\* The clock readings the bucket is brought up to only move forward.
ReadingInv ==
  /\ lastRefill <= clock
  /\ \A t \in Threads :
       /\ pc[t] = "refill" => lastRefill <= nowRead[t] /\ nowRead[t] <= clock
       /\ pc[t] = "decide" => nowRead[t] = lastRefill

\* A token is consumed after it is accounted, and accounted after every
\* earlier one was consumed.
LogInv ==
  /\ \A i \in 1..Len(log) :
       /\ log[i].read <= log[i].at
       /\ log[i].read <= lastRefill
       /\ log[i].at <= clock
       /\ \A t \in Threads : pc[t] \in {"refill", "decide"} => log[i].at <= nowRead[t]
  /\ \A j \in 1..Len(log) : \A i \in 1..(j - 1) : log[i].at <= log[j].read

\* What is in the bucket and what was taken since the i-th token are paid for
\* by a full bucket and the refill since.
BudgetInv ==
  \A i \in 1..Len(log) :
    tokens + (Len(log) - i + 1) * Cost <= Capacity + Rate * (lastRefill - log[i].read)

IInv == TypeOK /\ LockInv /\ ReadingInv /\ LogInv /\ BudgetInv /\ WindowCap

-----------------------------------------------------------------------------

\* The shape of the state is kept by every step.
LEMMA TypeStep == TypeOK /\ [Next]_vars => TypeOK'
<1> USE ConstantsAssumption DEF bucket, history
<1> SUFFICES ASSUME TypeOK, [Next]_vars PROVE TypeOK'
  OBVIOUS
<1>1. CASE Tick
  BY <1>1 DEF TypeOK, Tick
<1>2. ASSUME NEW t \in Threads, Call(t) PROVE TypeOK'
  <2>1. Len(log) \in Nat
    BY DEF TypeOK
  <2>2. /\ calls' \in [Threads -> Nat]
        /\ loops' \in [Threads -> Nat]
        /\ mark' \in [Threads -> Nat]
    <3>1. calls \in [Threads -> Nat] /\ loops \in [Threads -> Nat] /\ mark \in [Threads -> Nat]
      BY DEF TypeOK
    <3>2. calls' = [calls EXCEPT ![t] = calls[t] + 1] /\ calls[t] + 1 \in Nat
      BY <1>2, <3>1 DEF Call
    <3>3. loops' = [loops EXCEPT ![t] = 0] /\ mark' = [mark EXCEPT ![t] = Len(log)]
      BY <1>2 DEF Call
    <3>4. calls' \in [Threads -> Nat]
      BY <3>1, <3>2
    <3>5. loops' \in [Threads -> Nat] /\ mark' \in [Threads -> Nat]
      BY <2>1, <3>1, <3>3
    <3> QED
      BY <3>4, <3>5
  <2>3. pc' \in [Threads -> {"idle", "want", "locked", "refill", "decide", "asleep"}]
    BY <1>2 DEF TypeOK, Call, Goto
  <2> QED
    BY <1>2, <2>2, <2>3 DEF TypeOK, Call
<1>3. ASSUME NEW t \in Threads, Enter(t) PROVE TypeOK'
  BY <1>3 DEF TypeOK, Enter, Goto
<1>4. ASSUME NEW t \in Threads, ReadClock(t) PROVE TypeOK'
  BY <1>4 DEF TypeOK, ReadClock, Goto
<1>5. ASSUME NEW t \in Threads, Refill(t) PROVE TypeOK'
  <2>1. Elapsed(nowRead[t]) \in Nat
    BY DEF TypeOK, Elapsed
  <2>2. Elapsed(nowRead[t]) * Rate \in Nat
    BY <2>1
  <2>3. Refilled(nowRead[t]) \in 0..Capacity
    BY <2>2 DEF TypeOK, Refilled
  <2> QED
    BY <1>5, <2>3 DEF TypeOK, Refill, Goto
<1>6. ASSUME NEW t \in Threads, Grant(t) PROVE TypeOK'
  <2>1. Debited \in 0..Capacity
    BY DEF TypeOK, Debited
  <2> QED
    BY <1>6, <2>1 DEF TypeOK, Grant, Goto
<1>7. ASSUME NEW t \in Threads, Defer(t) PROVE TypeOK'
  <2>1. One - tokens \in Nat
    BY <1>7 DEF TypeOK, Defer, HasToken
  <2>2. \A a \in Nat : a \div Rate \in Nat
    OBVIOUS
  <2>3. Waits \subseteq Nat
    BY <2>1, <2>2 DEF Waits
  <2> QED
    BY <1>7, <2>3 DEF TypeOK, Defer, Goto
<1>8. ASSUME NEW t \in Threads, Wake(t) PROVE TypeOK'
  BY <1>8 DEF TypeOK, Wake, Goto
<1>9. CASE UNCHANGED vars
  BY <1>9 DEF TypeOK, vars
<1> QED
  BY <1>1, <1>2, <1>3, <1>4, <1>5, <1>6, <1>7, <1>8, <1>9 DEF Next, Step

\* The state of the limiter always has its shape: in particular the bucket is
\* never overdrawn nor overfilled, whatever the interleaving.
THEOREM TypeCorrect == Spec => []TypeOK
<1>1. Init => TypeOK
  BY ConstantsAssumption DEF Init, TypeOK
<1> QED
  BY <1>1, TypeStep, PTL DEF Spec
-----------------------------------------------------------------------------
(* Arithmetic of the budget: Rate * elapsed is additive. *)

LEMMA RefillAdds ==
  ASSUME NEW a \in Int, NEW b \in Int, NEW c \in Int
  PROVE  Rate * (a - c) = Rate * (b - c) + (a - b) * Rate
BY ConstantsAssumption

LEMMA SeqElement ==
  ASSUME NEW S, NEW l \in Seq(S), NEW i \in 1..Len(l)
  PROVE  l[i] \in S /\ Len(l) \in Nat
OBVIOUS

LEMMA LogTyped ==
  ASSUME TypeOK
  PROVE  /\ Len(log) \in Nat
         /\ \A i \in 1..Len(log) : log[i].read \in Nat /\ log[i].at \in Nat
<1>1. log \in Seq([read : Nat, at : Nat])
  BY DEF TypeOK
<1>2. \A i \in 1..Len(log) : log[i] \in [read : Nat, at : Nat]
  BY <1>1, SeqElement
<1> QED
  BY <1>1, <1>2

LEMMA RefillMonotone ==
  ASSUME NEW a \in Int, NEW b \in Int, a <= b
  PROVE  Rate * a <= Rate * b
BY ConstantsAssumption

\* A budget that held up to time b holds up to time a, when what is in the
\* bucket has grown from x to y by at most the refill in between.
LEMMA BudgetMoves ==
  ASSUME NEW a \in Int, NEW b \in Int, NEW c \in Int, NEW spent \in Int,
         NEW x \in Int, NEW y \in Int,
         y <= x + (a - b) * Rate,
         x + spent <= Capacity + Rate * (b - c)
  PROVE  y + spent <= Capacity + Rate * (a - c)
<1>1. Rate * (a - c) = Rate * (b - c) + (a - b) * Rate
  BY RefillAdds
<1> DEFINE gained == Rate * (b - c)
           refill == (a - b) * Rate
           total == Rate * (a - c)
<1>2. gained \in Int /\ refill \in Int /\ total \in Int
  BY ConstantsAssumption
<1>3. y <= x + refill /\ x + spent <= Capacity + gained /\ total = gained + refill
  BY <1>1
<1>4. SUFFICES y + spent <= Capacity + total
  OBVIOUS
<1> HIDE DEF gained, refill, total
<1> QED
  BY <1>2, <1>3, ConstantsAssumption

\* A budget that covers x and what was spent covers y and one Cost more, when
\* the bucket went from x to y by paying Cost.
LEMMA BudgetPays ==
  ASSUME NEW spent \in Int, NEW budget \in Int, NEW x \in Int, NEW y \in Int,
         y + Cost <= x, x + spent <= budget
  PROVE  y + (spent + Cost) <= budget
BY ConstantsAssumption DEF Cost

\* A refill brings at most the time since the last one.
LEMMA RefilledBound ==
  ASSUME TypeOK, NEW now \in Nat, lastRefill <= now
  PROVE  Refilled(now) <= tokens + (now - lastRefill) * Rate
<1>1. (now - lastRefill) * Rate \in Nat
  BY ConstantsAssumption DEF TypeOK
<1>2. Elapsed(now) = now - lastRefill
  BY DEF TypeOK, Elapsed
<1> QED
  BY <1>1, <1>2, ConstantsAssumption DEF TypeOK, Refilled

\* A grant takes at least Cost out of the bucket.
LEMMA DebitedBound ==
  ASSUME TypeOK, HasToken
  PROVE  Debited + Cost <= tokens /\ Debited + Cost <= Capacity
BY ConstantsAssumption DEF TypeOK, HasToken, Debited, Cost

-----------------------------------------------------------------------------

LEMMA InitIInv == Init => IInv
BY ConstantsAssumption
   DEF Init, IInv, TypeOK, LockInv, ReadingInv, LogInv, BudgetInv, WindowCap

\* Only the steps that move the lock change who is inside it.
LEMMA LockStep == TypeOK /\ LockInv /\ [Next]_vars => LockInv'
<1> SUFFICES ASSUME TypeOK, LockInv, [Next]_vars PROVE LockInv'
  OBVIOUS
<1> USE ConstantsAssumption DEF TypeOK, LockInv
<1>1. CASE Tick
  BY <1>1 DEF Tick
<1>2. ASSUME NEW t \in Threads, Call(t) PROVE LockInv'
  BY <1>2 DEF Call, Goto
<1>3. ASSUME NEW t \in Threads, Enter(t) PROVE LockInv'
  BY <1>3 DEF Enter, Goto
<1>4. ASSUME NEW t \in Threads, ReadClock(t) PROVE LockInv'
  BY <1>4 DEF ReadClock, Goto
<1>5. ASSUME NEW t \in Threads, Refill(t) PROVE LockInv'
  BY <1>5 DEF Refill, Goto
<1>6. ASSUME NEW t \in Threads, Grant(t) PROVE LockInv'
  BY <1>6 DEF Grant, Goto
<1>7. ASSUME NEW t \in Threads, Defer(t) PROVE LockInv'
  BY <1>7 DEF Defer, Goto
<1>8. ASSUME NEW t \in Threads, Wake(t) PROVE LockInv'
  BY <1>8 DEF Wake, Goto
<1>9. CASE UNCHANGED vars
  BY <1>9 DEF vars
<1> QED
  BY <1>1, <1>2, <1>3, <1>4, <1>5, <1>6, <1>7, <1>8, <1>9 DEF Next, Step

\* The bucket and the log are untouched, and time does not go back: the other
\* conjuncts follow from those before.
LEMMA BucketUnchanged ==
  ASSUME IInv, TypeOK', clock <= clock', UNCHANGED <<bucket, log>>,
         \A t \in Threads :
           \/ pc'[t] \notin {"refill", "decide"}
           \/ pc'[t] = "refill" /\ pc[t] = "locked" /\ nowRead'[t] = clock /\ clock' = clock
           \/ pc'[t] = pc[t] /\ nowRead'[t] = nowRead[t]
  PROVE  ReadingInv' /\ LogInv' /\ BudgetInv' /\ WindowCap'
<1>0. tokens' = tokens /\ lastRefill' = lastRefill /\ log' = log
  BY DEF bucket
<1>1. ReadingInv'
  <2>1. clock \in Nat /\ clock' \in Nat /\ lastRefill \in Nat /\ lastRefill <= clock
    BY DEF IInv, TypeOK, ReadingInv
  <2>2. lastRefill' <= clock'
    BY <1>0, <2>1
  <2>3. ASSUME NEW t \in Threads
        PROVE  /\ pc'[t] = "refill" => lastRefill' <= nowRead'[t] /\ nowRead'[t] <= clock'
               /\ pc'[t] = "decide" => nowRead'[t] = lastRefill'
    <3>1. nowRead[t] \in Nat /\ nowRead'[t] \in Nat
      BY DEF IInv, TypeOK
    <3>2. /\ pc[t] = "refill" => lastRefill <= nowRead[t] /\ nowRead[t] <= clock
          /\ pc[t] = "decide" => nowRead[t] = lastRefill
      BY DEF IInv, ReadingInv
    <3> QED
      BY <1>0, <2>1, <3>1, <3>2
  <2> QED
    BY <2>2, <2>3 DEF ReadingInv
<1>2. LogInv'
  <2>1. ASSUME NEW i \in 1..Len(log)
        PROVE  /\ log[i].read <= log[i].at /\ log[i].read <= lastRefill /\ log[i].at <= clock'
               /\ \A t \in Threads : pc'[t] \in {"refill", "decide"} => log[i].at <= nowRead'[t]
    <3>1. log[i].read \in Nat /\ log[i].at \in Nat /\ clock \in Nat /\ clock' \in Nat
      BY LogTyped DEF IInv, TypeOK
    <3>2. /\ log[i].read <= log[i].at /\ log[i].read <= lastRefill /\ log[i].at <= clock
          /\ \A t \in Threads : pc[t] \in {"refill", "decide"} => log[i].at <= nowRead[t]
      BY DEF IInv, LogInv
    <3> QED
      BY <3>1, <3>2
  <2>2. \A j \in 1..Len(log) : \A i \in 1..(j - 1) : log[i].at <= log[j].read
    BY DEF IInv, LogInv
  <2> QED
    BY <1>0, <2>1, <2>2 DEF LogInv
<1>3. BudgetInv' /\ WindowCap'
  BY <1>0 DEF IInv, BudgetInv, WindowCap, Cost
<1> QED
  BY <1>1, <1>2, <1>3

\* The refill: the holder brings the bucket up to its reading.
LEMMA RefillStep ==
  ASSUME IInv, TypeOK', NEW t \in Threads, Refill(t)
  PROVE  ReadingInv' /\ LogInv' /\ BudgetInv' /\ WindowCap'
<1> USE DEF IInv, bucket, history
<1>1. lock = t /\ pc[t] = "refill" /\ lastRefill <= nowRead[t] /\ nowRead[t] <= clock
  BY DEF LockInv, Refill, Goto, ReadingInv
<1>2. \A u \in Threads \ {t} : pc'[u] = pc[u] /\ pc[u] \notin {"locked", "refill", "decide"}
  BY <1>1 DEF TypeOK, LockInv, Refill, Goto
<1>3. pc'[t] = "decide" /\ nowRead' = nowRead /\ lastRefill' = nowRead[t]
      /\ tokens' = Refilled(nowRead[t]) /\ log' = log /\ clock' = clock
  BY DEF TypeOK, Refill, Goto
<1>4. ReadingInv'
  BY <1>1, <1>2, <1>3 DEF TypeOK, ReadingInv
<1>5. LogInv'
  <2>1. ASSUME NEW i \in 1..Len(log)
        PROVE  /\ log[i].read <= log[i].at /\ log[i].read <= nowRead[t] /\ log[i].at <= clock
               /\ \A u \in Threads : pc'[u] \in {"refill", "decide"} => log[i].at <= nowRead[u]
    <3>1. log[i].read \in Nat /\ log[i].at \in Nat /\ nowRead[t] \in Nat /\ lastRefill \in Nat
      BY LogTyped DEF TypeOK
    <3>2. /\ log[i].read <= log[i].at /\ log[i].read <= lastRefill /\ log[i].at <= clock
          /\ log[i].at <= nowRead[t]
      BY <1>1 DEF LogInv
    <3> QED
      BY <1>1, <1>2, <3>1, <3>2
  <2>2. \A j \in 1..Len(log) : \A i \in 1..(j - 1) : log[i].at <= log[j].read
    BY DEF LogInv
  <2> QED
    BY <1>3, <2>1, <2>2 DEF LogInv
<1>6. BudgetInv'
  <2> SUFFICES ASSUME NEW i \in 1..Len(log)
               PROVE  tokens' + (Len(log) - i + 1) * Cost
                        <= Capacity + Rate * (nowRead[t] - log[i].read)
    BY <1>3 DEF BudgetInv, Cost
  <2>1. log[i].read \in Nat /\ nowRead[t] \in Nat /\ lastRefill \in Nat
    BY LogTyped DEF TypeOK
  <2>2. tokens' <= tokens + (nowRead[t] - lastRefill) * Rate
    BY <1>1, <1>3, <2>1, RefilledBound
  <2>3. tokens + (Len(log) - i + 1) * Cost <= Capacity + Rate * (lastRefill - log[i].read)
    BY DEF BudgetInv
  <2>4. (Len(log) - i + 1) * Cost \in Int
    <3>1. Len(log) - i + 1 \in Int /\ Cost \in Int
      BY LogTyped, ConstantsAssumption DEF Cost
    <3> QED
      BY <3>1
  <2>5. tokens \in Int /\ tokens' \in Int
    BY ConstantsAssumption DEF TypeOK
  <2>6. log[i].read \in Int /\ nowRead[t] \in Int /\ lastRefill \in Int
    BY <2>1
  <2> QED
    BY <2>2, <2>3, <2>4, <2>5, <2>6, BudgetMoves, Zenon
<1>7. WindowCap'
  BY <1>3 DEF WindowCap, Cost
<1> QED
  BY <1>4, <1>5, <1>6, <1>7

\* A product, as the solver's linear part sees it.
LEMMA ProductIsInt == \A a, b \in Int : a * b \in Int
OBVIOUS

\* The grant: a token is taken and logged.
LEMMA GrantStep ==
  ASSUME IInv, TypeOK', NEW t \in Threads, Grant(t)
  PROVE  ReadingInv' /\ LogInv' /\ BudgetInv' /\ WindowCap'
<1> USE DEF IInv
<1> DEFINE n == Len(log)
           new == [read |-> nowRead[t], at |-> clock]
<1>1. lock = t /\ pc[t] = "decide" /\ nowRead[t] = lastRefill /\ lastRefill <= clock
  BY DEF LockInv, Grant, Goto, ReadingInv
<1>2. \A u \in Threads : pc'[u] \notin {"locked", "refill", "decide"}
  BY <1>1 DEF TypeOK, LockInv, Grant, Goto
<1>3. /\ tokens' = Debited /\ log' = Append(log, new)
      /\ lastRefill' = lastRefill /\ clock' = clock /\ nowRead' = nowRead
  BY DEF Grant
<1>4. /\ lastRefill \in Nat /\ clock \in Nat /\ tokens \in Nat /\ tokens' \in Nat
      /\ Capacity \in Nat /\ tokens <= Capacity /\ Cost \in Nat
  BY ConstantsAssumption DEF TypeOK, Cost
<1>5. /\ n \in Nat /\ Len(log') = n + 1
      /\ \A i \in 1..n : log'[i] = log[i]
      /\ log'[n + 1] = new
  BY <1>3, LogTyped DEF TypeOK
<1>6. tokens' + Cost <= tokens /\ tokens' + Cost <= Capacity
  BY <1>3, DebitedBound DEF Grant
<1>7. \A i \in 1..n : log[i].read \in Nat /\ log[i].at \in Nat
  BY LogTyped
<1> HIDE DEF n
<1>8. ReadingInv'
  BY <1>2, <1>3, <1>1 DEF ReadingInv
<1>9. LogInv'
  <2>1. ASSUME NEW i \in 1..(n + 1)
        PROVE  log'[i].read <= log'[i].at /\ log'[i].read <= lastRefill /\ log'[i].at <= clock
    <3>1. CASE i \in 1..n
      BY <3>1, <1>5 DEF LogInv, n
    <3>2. CASE i = n + 1
      BY <3>2, <1>1, <1>4, <1>5
    <3> QED
      BY <3>1, <3>2, <1>5
  <2>2. ASSUME NEW j \in 1..(n + 1), NEW i \in 1..(j - 1)
        PROVE  log'[i].at <= log'[j].read
    <3>1. i \in 1..n /\ log'[i] = log[i]
      BY <1>5
    <3>2. CASE j \in 1..n
      BY <3>1, <3>2, <1>5 DEF LogInv, n
    <3>3. CASE j = n + 1
      BY <3>1, <3>3, <1>1, <1>5 DEF LogInv, n
    <3> QED
      BY <3>2, <3>3, <1>5
  <2> QED
    BY <1>2, <1>3, <1>5, <2>1, <2>2 DEF LogInv
<1>10. ASSUME NEW i \in 1..(n + 1)
       PROVE  tokens' + (n - i + 2) * Cost <= Capacity + Rate * (lastRefill - log'[i].read)
  <2>1. CASE i \in 1..n
    <3>1. tokens + (n - i + 1) * Cost <= Capacity + Rate * (lastRefill - log[i].read)
      BY <2>1 DEF BudgetInv, n
    <3>2. (n - i + 2) * Cost = (n - i + 1) * Cost + Cost
      BY <1>4, <1>5, <2>1
    <3> DEFINE spent == (n - i + 1) * Cost
               budget == Capacity + Rate * (lastRefill - log[i].read)
    <3>3. spent \in Int /\ budget \in Int
      BY <1>4, <1>5, <1>7, <2>1, ConstantsAssumption
    <3> HIDE DEF spent, budget
    <3>4. tokens' + (spent + Cost) <= budget
      <4>1. tokens + spent <= budget
        BY <3>1 DEF spent, budget
      <4>2. tokens \in Int /\ tokens' \in Int
        BY <1>4
      <4> QED
        BY <4>1, <4>2, <3>3, <1>6, BudgetPays, Zenon
    <3> QED
      BY <3>2, <3>4, <1>5, <2>1 DEF spent, budget
  <2>2. CASE i = n + 1
    <3>1. (n - i + 2) * Cost = Cost
      BY <2>2, <1>4, <1>5
    <3>2. Rate * (lastRefill - log'[i].read) = 0
      BY <2>2, <1>1, <1>4, <1>5, ConstantsAssumption
    <3>3. Capacity = Capacity + 0
      BY <1>4
    <3> QED
      BY <3>1, <3>2, <3>3, <1>6
  <2> QED
    BY <2>1, <2>2, <1>5
<1>11. BudgetInv'
  <2>1. \A i \in 1..(n + 1) : (n + 1) - i + 1 = n - i + 2
    BY <1>5
  <2> QED
    BY <1>3, <1>5, <1>10, <2>1 DEF BudgetInv, Cost
<1>12. WindowCap'
  <2> SUFFICES ASSUME NEW j \in 1..(n + 1), NEW i \in 1..j
               PROVE  (j - i + 1) * Cost <= Capacity + Rate * (log'[j].read - log'[i].read)
    BY <1>5 DEF WindowCap, Cost
  <2>1. CASE j \in 1..n
    <3>1. i \in 1..n /\ log'[i] = log[i] /\ log'[j] = log[j]
      BY <2>1, <1>5
    <3>2. (j - i + 1) * Cost <= Capacity + Rate * (log[j].read - log[i].read)
      BY <2>1 DEF WindowCap, n
    <3> QED
      BY <3>1, <3>2
  <2>2. CASE j = n + 1
    <3>1. tokens' + (n - i + 2) * Cost <= Capacity + Rate * (lastRefill - log'[i].read)
      BY <2>2, <1>10
    <3>2. n - i + 2 = j - i + 1 /\ log'[j].read = lastRefill
      BY <2>2, <1>1, <1>5
    <3>3. tokens' + (j - i + 1) * Cost <= Capacity + Rate * (log'[j].read - log'[i].read)
      BY <3>1, <3>2
    <3> DEFINE spent == (j - i + 1) * Cost
               budget == Capacity + Rate * (log'[j].read - log'[i].read)
    <3>4. spent \in Int /\ budget \in Int
      <4>1. log'[j].read \in Int /\ log'[i].read \in Int
        BY <1>1, <1>4, <1>5, <1>7, <2>2
      <4>2. j - i + 1 \in Int /\ Cost \in Int
        BY <1>4, ConstantsAssumption DEF Cost
      <4>3. log'[j].read - log'[i].read \in Int /\ Rate \in Int /\ Capacity \in Int
        BY <4>1, ConstantsAssumption
      <4>4. spent \in Int
        BY <4>2, ProductIsInt
      <4>5. budget \in Int
        BY <4>3, ProductIsInt
      <4> QED
        BY <4>4, <4>5
    <3> HIDE DEF spent, budget
    <3>5. spent <= budget
      BY <3>3, <3>4, <1>4 DEF spent, budget
    <3> QED
      BY <3>5 DEF spent, budget
  <2> QED
    BY <2>1, <2>2, <1>5
<1> QED
  BY <1>8, <1>9, <1>11, <1>12

\* Every step keeps the invariant; all but Refill and Grant leave the bucket alone.
LEMMA NextIInv == IInv /\ [Next]_vars => IInv'
<1> SUFFICES ASSUME IInv, [Next]_vars PROVE IInv'
  OBVIOUS
<1>1. TypeOK' /\ LockInv'
  BY TypeStep, LockStep DEF IInv
<1>2. SUFFICES ReadingInv' /\ LogInv' /\ BudgetInv' /\ WindowCap'
  BY <1>1 DEF IInv
<1>3. clock <= clock
  BY DEF IInv, TypeOK
<1> USE DEF bucket, history
<1>4. CASE Tick
  <2>1. clock <= clock'
    BY <1>4 DEF IInv, TypeOK, Tick
  <2> QED
    BY <1>1, <1>4, <2>1, BucketUnchanged DEF Tick
<1>5. ASSUME NEW t \in Threads, Call(t) PROVE ReadingInv' /\ LogInv' /\ BudgetInv' /\ WindowCap'
  <2>1. \A u \in Threads : pc'[u] \notin {"refill", "decide"} \/ pc'[u] = pc[u]
    BY <1>5 DEF IInv, TypeOK, Call, Goto
  <2> QED
    BY <1>1, <1>3, <1>5, <2>1, BucketUnchanged DEF Call
<1>6. ASSUME NEW t \in Threads, Enter(t) PROVE ReadingInv' /\ LogInv' /\ BudgetInv' /\ WindowCap'
  <2>1. \A u \in Threads : pc'[u] \notin {"refill", "decide"} \/ pc'[u] = pc[u]
    BY <1>6 DEF IInv, TypeOK, Enter, Goto
  <2> QED
    BY <1>1, <1>3, <1>6, <2>1, BucketUnchanged DEF Enter
<1>7. ASSUME NEW t \in Threads, ReadClock(t) PROVE ReadingInv' /\ LogInv' /\ BudgetInv' /\ WindowCap'
  <2>1. \A u \in Threads :
           \/ pc'[u] = "refill" /\ pc[u] = "locked" /\ nowRead'[u] = clock /\ clock' = clock
           \/ pc'[u] = pc[u] /\ nowRead'[u] = nowRead[u]
    BY <1>7 DEF IInv, TypeOK, ReadClock, Goto
  <2> QED
    BY <1>1, <1>3, <1>7, <2>1, BucketUnchanged DEF ReadClock
<1>8. ASSUME NEW t \in Threads, Refill(t) PROVE ReadingInv' /\ LogInv' /\ BudgetInv' /\ WindowCap'
  BY <1>1, <1>8, RefillStep
<1>9. ASSUME NEW t \in Threads, Grant(t) PROVE ReadingInv' /\ LogInv' /\ BudgetInv' /\ WindowCap'
  BY <1>1, <1>9, GrantStep
<1>10. ASSUME NEW t \in Threads, Defer(t) PROVE ReadingInv' /\ LogInv' /\ BudgetInv' /\ WindowCap'
  <2>1. \A u \in Threads : pc'[u] \notin {"refill", "decide"} \/ pc'[u] = pc[u]
    BY <1>10 DEF IInv, TypeOK, Defer, Goto
  <2> QED
    BY <1>1, <1>3, <1>10, <2>1, BucketUnchanged DEF Defer
<1>11. ASSUME NEW t \in Threads, Wake(t) PROVE ReadingInv' /\ LogInv' /\ BudgetInv' /\ WindowCap'
  <2>1. \A u \in Threads : pc'[u] \notin {"refill", "decide"} \/ pc'[u] = pc[u]
    BY <1>11 DEF IInv, TypeOK, Wake, Goto
  <2> QED
    BY <1>1, <1>3, <1>11, <2>1, BucketUnchanged DEF Wake
<1>12. CASE UNCHANGED vars
  BY <1>1, <1>3, <1>12, BucketUnchanged DEF vars
<1> QED
  BY <1>4, <1>5, <1>6, <1>7, <1>8, <1>9, <1>10, <1>11, <1>12 DEF Next, Step

\* The strengthened invariant holds of every behaviour: the log of grants stays
\* within what the bucket has gained, and only the lock's holder is in its block.
THEOREM Invariance == Spec => []IInv
BY InitIInv, NextIInv, PTL DEF Spec

\* The cap of the limiter, for any number of threads and any interleaving:
\* between two clock readings no more is consumed than a full bucket and the
\* refill in between.
THEOREM WindowCapHolds == Spec => []WindowCap
<1>1. IInv => WindowCap
  BY DEF IInv
<1> QED
  BY <1>1, Invariance, PTL

\* The cap in real time: a preempted holder of the lock can make one request
\* more fall into a window, and never two.
THEOREM WallClockCapHolds == Spec => []WallClockCap
<1>1. IInv => WallClockCap
  <2> SUFFICES ASSUME IInv, NEW j \in 1..Len(log), NEW i \in 1..j
               PROVE  (j - i) * Cost <= Capacity + Rate * (log[j].at - log[i].at)
    BY DEF WallClockCap
  <2>1. Len(log) \in Nat /\ log[j].read \in Int /\ log[j].at \in Int /\ log[i].at \in Int
    BY LogTyped DEF IInv
  <2>2. CASE i = j
    <3>1. (j - i) * Cost = 0 /\ Rate * (log[j].at - log[i].at) = 0
      BY <2>1, <2>2, ConstantsAssumption DEF Cost
    <3> QED
      BY <3>1, ConstantsAssumption
  <2>3. CASE i < j
    <3>1. i + 1 \in 1..j /\ i \in 1..(j - 1) /\ j - (i + 1) + 1 = j - i
      BY <2>1, <2>3
    <3>2. log[i + 1].read \in Int
      BY <2>1, <3>1, LogTyped DEF IInv
    <3>3. (j - i) * Cost <= Capacity + Rate * (log[j].read - log[i + 1].read)
      BY <3>1 DEF IInv, WindowCap
    <3>4. log[j].read <= log[j].at /\ log[i].at <= log[i + 1].read
      <4>1. log[j].read <= log[j].at
        BY <2>1 DEF IInv, LogInv
      <4>2. i + 1 \in 1..Len(log) /\ i \in 1..((i + 1) - 1)
        BY <2>1, <2>3
      <4>3. log[i].at <= log[i + 1].read
        BY <4>2 DEF IInv, LogInv
      <4> QED
        BY <4>1, <4>3
    <3>5. log[j].read - log[i + 1].read <= log[j].at - log[i].at
      BY <2>1, <3>2, <3>4
    <3>6. log[j].read - log[i + 1].read \in Int /\ log[j].at - log[i].at \in Int
      BY <2>1, <3>2
    <3>7. j - i \in Int
      BY <2>1
    <3>8. Rate * (log[j].read - log[i + 1].read) <= Rate * (log[j].at - log[i].at)
      BY <3>5, <3>6, RefillMonotone
    <3> DEFINE spent == (j - i) * Cost
               early == Rate * (log[j].read - log[i + 1].read)
               late == Rate * (log[j].at - log[i].at)
    <3>9. spent \in Int /\ early \in Int /\ late \in Int
      <4>1. Rate \in Int /\ Cost \in Int
        BY ConstantsAssumption DEF Cost
      <4>2. spent \in Int
        <5>1. \A d \in Int : d * Cost \in Int
          BY <4>1, ProductIsInt
        <5> QED
          BY <3>7, <5>1 DEF spent
      <4>3. \A d \in Int : Rate * d \in Int
        BY <4>1, ProductIsInt
      <4>4. early \in Int /\ late \in Int
        BY <3>6, <4>3 DEF early, late
      <4> QED
        BY <4>2, <4>4
    <3>10. spent <= Capacity + early /\ early <= late
      BY <3>3, <3>8
    <3> HIDE DEF spent, early, late
    <3>11. spent <= Capacity + late
      BY <3>9, <3>10, ConstantsAssumption
    <3> QED
      BY <3>11 DEF spent, late
  <2> QED
    BY <2>1, <2>2, <2>3
<1> QED
  BY <1>1, Invariance, PTL

\* The limiter implements RateCap: a grant is a request let through within
\* the budget, everything else is time passing or invisible.
THEOREM RefinesRateCap == Spec => ImplementsRateCap
<1>1. Init => Promise!Init
  BY DEF Init, Promise!Init
<1>2. IInv /\ IInv' /\ [Next]_vars => [Promise!Tick \/ Promise!LetThrough]_<<clock, log>>
  <2> SUFFICES ASSUME IInv, IInv', [Next]_vars
               PROVE  [Promise!Tick \/ Promise!LetThrough]_<<clock, log>>
    OBVIOUS
  <2>1. CASE Tick
    BY <2>1 DEF Tick, Promise!Tick, history
  <2>2. ASSUME NEW t \in Threads, Grant(t) PROVE Promise!LetThrough
    <3>1. pc[t] = "decide" /\ log' = Append(log, [read |-> nowRead[t], at |-> clock]) /\ clock' = clock
      BY <2>2 DEF Grant, Goto
    <3>2. nowRead[t] = lastRefill /\ lastRefill <= clock /\ lastRefill \in Nat /\ clock \in Nat
      BY <3>1 DEF IInv, TypeOK, ReadingInv
    <3>3. nowRead[t] \in 0..clock
      BY <3>2
    <3>4. \A i \in 1..Len(log) : log[i].at <= nowRead[t]
      BY <3>1 DEF IInv, LogInv
    <3>5. Len(log') \in 1..Len(log')
      BY <3>1, LogTyped DEF IInv, TypeOK
    <3>6. Promise!LastWithinBudget(log')
      BY <3>5 DEF IInv, WindowCap, Promise!LastWithinBudget
    <3> QED
      BY <3>1, <3>3, <3>4, <3>6 DEF Promise!LetThrough
  <2>3. ASSUME NEW t \in Threads, Call(t) \/ Enter(t) \/ ReadClock(t) \/ Refill(t) \/ Defer(t) \/ Wake(t)
        PROVE  UNCHANGED <<clock, log>>
    BY <2>3 DEF Call, Enter, ReadClock, Refill, Defer, Wake, history
  <2>4. CASE UNCHANGED vars
    BY <2>4 DEF vars
  <2> QED
    BY <2>1, <2>2, <2>3, <2>4 DEF Next, Step
<1> QED
  BY <1>1, <1>2, Invariance, PTL DEF Spec, ImplementsRateCap, Promise!Spec

\* A capacity below one token (a configured rate below one request a second):
\* no call of acquire() is ever granted.
THEOREM NothingBelowOneToken == Capacity < Cost /\ Spec => [][\A t \in Threads : ~Grant(t)]_vars
<1> SUFFICES ASSUME Capacity < Cost PROVE Spec => [][\A t \in Threads : ~Grant(t)]_vars
  OBVIOUS
<1>1. TypeOK => [\A t \in Threads : ~Grant(t)]_vars
  BY ConstantsAssumption DEF TypeOK, Cost, Grant, HasToken
<1> QED
  BY <1>1, TypeCorrect, PTL

-----------------------------------------------------------------------------
(* Convergence: a sleeper that nobody overtakes finds its token. *)

\* One token fits into the bucket, and the rounding of a wait, which is less
\* than what comes in a tick, stays within the tolerance.
Tolerant == One - Eps <= Capacity /\ Rate - 1 <= Eps

\* nobody has taken a token since the call of t used up its loop
Last(t) == pc[t] # "idle" /\ loops[t] = 1 + (Len(log) - mark[t])

\* a token is there, or will be when the sleep of t ends
Provided(t) ==
  \/ tokens >= One - Eps
  \/ lastRefill <= wakeAt[t] /\ tokens + (wakeAt[t] - lastRefill) * Rate >= One - Eps

LoopOf(t) ==
  /\ mark[t] <= Len(log)
  /\ pc[t] # "idle" => loops[t] <= 1 + (Len(log) - mark[t])
  /\ Last(t) => /\ pc[t] \in {"want", "locked"} => wakeAt[t] <= clock
                /\ pc[t] = "refill" => wakeAt[t] <= nowRead[t]
                /\ IF pc[t] = "decide" THEN HasToken ELSE Provided(t)
LoopInv == \A t \in Threads : LoopOf(t)

\* a wait, rounded either way, brings the deficit up to less than a tick's
LEMMA WaitBrings ==
  ASSUME NEW wait \in Waits, tokens \in Nat, tokens <= One
  PROVE  wait \in Nat /\ wait * Rate >= One - tokens - (Rate - 1)
<1> DEFINE d == One - tokens
<1>1. d \in Nat /\ Rate \in Nat \ {0}
  BY ConstantsAssumption
<1>2. \A a \in Nat : a \div Rate \in Nat /\ (a \div Rate) * Rate > a - Rate
  BY <1>1
<1>3. wait = d \div Rate \/ wait = (d + Rate - 1) \div Rate
  BY DEF Waits
<1>4. d + Rate - 1 \in Nat /\ d + Rate - 1 >= d
  BY <1>1
<1> HIDE DEF d
<1>5. CASE wait = d \div Rate
  <2>1. wait \in Nat /\ wait * Rate > d - Rate
    BY <1>1, <1>2, <1>5, Zenon
  <2>2. wait * Rate \in Int
    BY <1>1, <2>1, ProductIsInt
  <2> DEFINE p == wait * Rate
  <2>3. p \in Int /\ p > d - Rate
    BY <2>1, <2>2
  <2> HIDE DEF p
  <2>4. p >= d - (Rate - 1)
    BY <1>1, <2>3
  <2> QED BY <2>1, <2>4 DEF p, d
<1>6. CASE wait = (d + Rate - 1) \div Rate
  <2> DEFINE c == d + Rate - 1
             p == wait * Rate
  <2>1. c \in Nat /\ c >= d
    BY <1>4
  <2>2. wait = c \div Rate
    BY <1>6
  <2> HIDE DEF c
  <2>3. wait \in Nat /\ wait * Rate > c - Rate
    BY <1>2, <2>1, <2>2, Zenon
  <2>4. p \in Int /\ p > c - Rate
    BY <1>1, <2>3, ProductIsInt
  <2> HIDE DEF p
  <2>5. p >= d - (Rate - 1)
    BY <1>1, <2>1, <2>4
  <2> QED BY <2>3, <2>5 DEF p, d
<1> QED BY <1>3, <1>5, <1>6

\* a thread that has given up a token's worth of time is provided for
LEMMA DeferProvides ==
  ASSUME Tolerant, TypeOK, ~HasToken, NEW wait \in Waits, NEW w, w = clock + wait,
         lastRefill <= clock
  PROVE  lastRefill <= w /\ tokens + (w - lastRefill) * Rate >= One - Eps
<1>1. /\ tokens \in Nat /\ lastRefill \in Nat /\ clock \in Nat /\ tokens <= One
      /\ One \in Nat /\ Eps \in Nat /\ Rate \in Nat
  BY ConstantsAssumption DEF TypeOK, HasToken
<1>2. wait \in Nat /\ wait * Rate >= One - tokens - (Rate - 1)
  BY <1>1, WaitBrings
<1>3. wait <= w - lastRefill /\ w - lastRefill \in Nat
  BY <1>1, <1>2
<1>4. Rate * wait <= Rate * (w - lastRefill)
  BY <1>2, <1>3, RefillMonotone
<1>5. Rate * wait = wait * Rate /\ Rate * (w - lastRefill) = (w - lastRefill) * Rate
  BY <1>1, <1>2, <1>3
<1> DEFINE p == wait * Rate
           q == (w - lastRefill) * Rate
<1>6. p \in Int /\ q \in Int /\ p <= q /\ p >= One - tokens - (Rate - 1)
  BY <1>1, <1>2, <1>3, <1>4, <1>5, ProductIsInt
<1> HIDE DEF p, q
<1>7. tokens + q >= One - Eps
  BY <1>1, <1>6 DEF Tolerant
<1> QED BY <1>1, <1>2, <1>7 DEF q

\* what a refill brings is what was provided for, at the latest when it is due
LEMMA RefillProvides ==
  ASSUME Tolerant, TypeOK, NEW now \in Nat, lastRefill <= now, NEW w \in Nat,
         \/ tokens >= One - Eps
         \/ lastRefill <= w /\ tokens + (w - lastRefill) * Rate >= One - Eps
  PROVE  \/ Refilled(now) >= One - Eps
         \/ now < w /\ Refilled(now) + (w - now) * Rate >= One - Eps
<1> DEFINE gain == (now - lastRefill) * Rate
           due == (w - lastRefill) * Rate
           rest == (w - now) * Rate
<1>1. /\ tokens \in Nat /\ tokens <= Capacity /\ lastRefill \in Nat /\ One \in Nat /\ Eps \in Nat
      /\ Rate \in Nat /\ Capacity \in Nat /\ now - lastRefill \in Int /\ now - lastRefill >= 0
      /\ w - lastRefill \in Int /\ w - now \in Int
  BY ConstantsAssumption DEF TypeOK
<1>2. gain \in Int /\ due \in Int /\ rest \in Int
  BY <1>1, ProductIsInt
<1>3. gain >= 0
  <2>1. now - lastRefill \in Nat
    BY <1>1
  <2> QED BY <1>1, <2>1
<1>4. due = rest + gain
  <2>1. Rate * (w - lastRefill) = Rate * (now - lastRefill) + (w - now) * Rate
    BY <1>1, RefillAdds
  <2>2. Rate * (w - lastRefill) = (w - lastRefill) * Rate
        /\ Rate * (now - lastRefill) = (now - lastRefill) * Rate
    BY <1>1
  <2> QED BY <1>2, <2>1, <2>2
<1>5. w <= now => rest <= 0
  <2>1. now - w \in Int /\ (w <= now => now - w \in Nat)
    BY <1>1
  <2>2. (now - w) * Rate = 0 - rest
    BY <1>1
  <2>3. w <= now => (now - w) * Rate >= 0
    BY <1>1, <2>1
  <2> QED BY <1>2, <2>2, <2>3
<1>6. Elapsed(now) = now - lastRefill
  BY <1>1 DEF Elapsed
<1>7. Refilled(now) = IF tokens + gain < Capacity THEN tokens + gain ELSE Capacity
  BY <1>6 DEF Refilled
<1>8. \/ tokens >= One - Eps
      \/ tokens + due >= One - Eps
  OBVIOUS
<1> SUFFICES \/ Refilled(now) >= One - Eps
             \/ now < w /\ Refilled(now) + rest >= One - Eps
  OBVIOUS
<1> HIDE DEF gain, due, rest
<1> QED BY <1>1, <1>2, <1>3, <1>4, <1>5, <1>7, <1>8 DEF Tolerant

LEMMA LoopTyped ==
  ASSUME TypeOK, NEW t \in Threads
  PROVE  /\ Len(log) \in Nat /\ mark[t] \in Nat /\ loops[t] \in Nat /\ wakeAt[t] \in Nat
         /\ nowRead[t] \in Nat /\ clock \in Nat /\ tokens \in Nat /\ lastRefill \in Nat
BY DEF TypeOK

\* A thread that does not move keeps its part, when time does not go back, no
\* token is taken, and what is in the bucket stays.
LEMMA LoopWaits ==
  ASSUME TypeOK, TypeOK', LoopInv, NEW t \in Threads, clock <= clock', UNCHANGED <<bucket, log>>,
         pc'[t] = pc[t], loops'[t] = loops[t], mark'[t] = mark[t], wakeAt'[t] = wakeAt[t],
         nowRead'[t] = nowRead[t]
  PROVE  LoopOf(t)'
<1>1. tokens' = tokens /\ lastRefill' = lastRefill /\ log' = log
  BY DEF bucket
<1>2. HasToken' <=> HasToken
  BY <1>1 DEF HasToken
<1>3. Provided(t)' <=> Provided(t)
  BY <1>1 DEF Provided
<1>4. Last(t)' <=> Last(t)
  BY <1>1 DEF Last
<1>5. LoopOf(t)
  BY DEF LoopInv
<1>6. clock \in Nat /\ clock' \in Nat /\ wakeAt[t] \in Nat
  BY LoopTyped DEF TypeOK
<1> QED BY <1>1, <1>2, <1>3, <1>4, <1>5, <1>6 DEF LoopOf

\* nor does it lose it when another thread takes a token
LEMMA LoopOvertaken ==
  ASSUME TypeOK, LoopInv, NEW t \in Threads, Len(log') = Len(log) + 1,
         pc'[t] = pc[t], loops'[t] = loops[t], mark'[t] = mark[t]
  PROVE  LoopOf(t)'
<1>1. LoopOf(t)
  BY DEF LoopInv
<1>2. ~Last(t)' /\ mark'[t] <= Len(log')
      /\ (pc'[t] # "idle" => loops'[t] <= 1 + (Len(log') - mark'[t]))
  BY <1>1, LoopTyped DEF LoopOf, Last
<1> QED BY <1>2 DEF LoopOf

-----------------------------------------------------------------------------

LEMMA InitLoop == Init => LoopInv
<1> SUFFICES ASSUME Init, NEW t \in Threads PROVE LoopOf(t)
  BY DEF LoopInv
<1>1. pc[t] = "idle" /\ mark[t] = 0 /\ Len(log) = 0
  BY DEF Init
<1> QED BY <1>1 DEF LoopOf, Last

LEMMA CallLoop == ASSUME IInv, TypeOK', LoopInv, NEW t \in Threads, Call(t) PROVE LoopInv'
<1>1. /\ pc[t] = "idle" /\ pc'[t] = "want" /\ loops'[t] = 0 /\ mark'[t] = Len(log)
      /\ log' = log
  BY DEF Call, Goto, IInv, TypeOK
<1>2. LoopOf(t)'
  <2>1. ~Last(t)'
    BY <1>1, LoopTyped DEF Last, IInv
  <2> QED BY <1>1, <2>1, LoopTyped DEF LoopOf, IInv
<1>3. ASSUME NEW u \in Threads \ {t} PROVE LoopOf(u)'
  <2>1. /\ pc'[u] = pc[u] /\ loops'[u] = loops[u] /\ mark'[u] = mark[u]
        /\ wakeAt' = wakeAt /\ nowRead' = nowRead /\ clock' = clock
        /\ UNCHANGED <<bucket, log>>
    BY DEF Call, Goto, IInv, TypeOK
  <2>2. clock <= clock'
    BY <2>1 DEF IInv, TypeOK
  <2> QED BY <2>1, <2>2, LoopWaits DEF IInv
<1> QED BY <1>2, <1>3 DEF LoopInv

\* a thread that moves on without taking a token, or the clock
LEMMA MoveLoop ==
  ASSUME IInv, TypeOK', LoopInv,
         \/ Tick
         \/ \E t \in Threads : Enter(t) \/ ReadClock(t) \/ Wake(t)
         \/ UNCHANGED vars
  PROVE  LoopInv'
<1>1. /\ UNCHANGED <<bucket, log, loops, mark, wakeAt>> /\ clock <= clock'
  <2>1. clock' = clock \/ clock' = clock + 1
    BY DEF Tick, Enter, ReadClock, Wake, vars
  <2>2. clock \in Nat
    BY DEF IInv, TypeOK
  <2>3. UNCHANGED <<bucket, log, loops, mark, wakeAt>>
    BY DEF Tick, Enter, ReadClock, Wake, vars, bucket, history
  <2> QED BY <2>1, <2>2, <2>3
<1>2. ASSUME NEW t \in Threads, Enter(t) \/ ReadClock(t) \/ Wake(t) PROVE LoopInv'
  <2>1. clock' = clock /\ tokens' = tokens /\ lastRefill' = lastRefill /\ log' = log
    BY <1>1, <1>2 DEF Enter, ReadClock, Wake, bucket
  <2>2. ASSUME NEW u \in Threads \ {t} PROVE LoopOf(u)'
    <3>1. pc'[u] = pc[u] /\ nowRead'[u] = nowRead[u]
      BY <1>2 DEF Enter, ReadClock, Wake, Goto, IInv, TypeOK
    <3>2. loops'[u] = loops[u] /\ mark'[u] = mark[u] /\ wakeAt'[u] = wakeAt[u]
      BY <1>1
    <3> QED BY <1>1, <3>1, <3>2, LoopWaits DEF IInv
  <2>3. LoopOf(t)'
    <3>1. LoopOf(t)
      BY DEF LoopInv
    <3>2. \/ pc[t] = "want" /\ pc'[t] = "locked" /\ nowRead'[t] = nowRead[t]
          \/ pc[t] = "locked" /\ pc'[t] = "refill" /\ nowRead'[t] = clock
          \/ pc[t] = "asleep" /\ pc'[t] = "want" /\ clock >= wakeAt[t]
      BY <1>2 DEF Enter, ReadClock, Wake, Goto, IInv, TypeOK
    <3>3. Provided(t)' <=> Provided(t)
      BY <1>1, <2>1 DEF Provided
    <3>4. Last(t)' <=> Last(t)
      BY <1>1, <2>1, <3>2 DEF Last
    <3>5. clock \in Nat /\ wakeAt[t] \in Nat
      BY LoopTyped DEF IInv
    <3> QED BY <1>1, <2>1, <3>1, <3>2, <3>3, <3>4, <3>5 DEF LoopOf
  <2> QED BY <2>2, <2>3 DEF LoopInv
<1>3. ASSUME Tick \/ UNCHANGED vars PROVE LoopInv'
  <2>1. pc' = pc /\ nowRead' = nowRead
    BY <1>3 DEF Tick, vars
  <2>2. ASSUME NEW t \in Threads PROVE LoopOf(t)'
    BY <1>1, <2>1, LoopWaits DEF IInv
  <2> QED BY <2>2 DEF LoopInv
<1> QED BY <1>2, <1>3

LEMMA RefillLoop ==
  ASSUME Tolerant, IInv, TypeOK', LoopInv, NEW t \in Threads, Refill(t)
  PROVE  LoopInv'
<1>1. /\ pc[t] = "refill" /\ pc'[t] = "decide" /\ lock = t
      /\ lastRefill <= nowRead[t] /\ nowRead[t] \in Nat
  BY DEF Refill, Goto, IInv, TypeOK, LockInv, ReadingInv
<1>2. /\ tokens' = Refilled(nowRead[t]) /\ lastRefill' = nowRead[t]
      /\ UNCHANGED <<clock, log, loops, mark, wakeAt, nowRead>>
  BY DEF Refill, history
<1>3. ASSUME NEW u \in Threads, Provided(u)
      PROVE  \/ tokens' >= One - Eps
             \/ nowRead[t] < wakeAt[u] /\ tokens' + (wakeAt[u] - nowRead[t]) * Rate >= One - Eps
  <2>1. wakeAt[u] \in Nat
    BY DEF IInv, TypeOK
  <2> QED BY <1>1, <1>2, <1>3, <2>1, RefillProvides DEF IInv, Provided
<1>4. ASSUME NEW u \in Threads \ {t} PROVE LoopOf(u)'
  <2>1. pc'[u] = pc[u] /\ pc[u] \notin {"refill", "decide"}
    BY <1>1 DEF Refill, Goto, IInv, TypeOK, LockInv
  <2>2. LoopOf(u) /\ (Last(u)' <=> Last(u))
    BY <1>2, <2>1 DEF LoopInv, Last
  <2>3. Provided(u) => Provided(u)'
    <3>1. nowRead[t] \in Nat /\ wakeAt[u] \in Nat
      BY DEF IInv, TypeOK
    <3> QED BY <1>2, <1>3, <3>1 DEF Provided
  <2> QED BY <1>2, <2>1, <2>2, <2>3 DEF LoopOf
<1>5. LoopOf(t)'
  <2>1. LoopOf(t) /\ (Last(t)' <=> Last(t))
    BY <1>1, <1>2 DEF LoopInv, Last
  <2>2. Last(t) => HasToken'
    <3>1. Last(t) => wakeAt[t] <= nowRead[t] /\ Provided(t)
      BY <1>1, <2>1 DEF LoopOf
    <3>2. wakeAt[t] \in Nat /\ nowRead[t] \in Nat
      BY DEF IInv, TypeOK
    <3>3. Last(t) => tokens' >= One - Eps
      BY <1>3, <3>1, <3>2
    <3> QED BY <3>3 DEF HasToken
  <2> QED BY <1>1, <1>2, <2>1, <2>2 DEF LoopOf
<1> QED BY <1>4, <1>5 DEF LoopInv

LEMMA GrantLoop == ASSUME IInv, LoopInv, NEW t \in Threads, Grant(t) PROVE LoopInv'
<1>1. /\ pc'[t] = "idle" /\ \A u \in Threads \ {t} : pc'[u] = pc[u]
      /\ loops' = loops /\ mark' = mark
  BY DEF Grant, Goto, IInv, TypeOK
<1>2. Len(log') = Len(log) + 1
  BY DEF Grant, IInv, TypeOK
<1>3. ASSUME NEW u \in Threads \ {t} PROVE LoopOf(u)'
  BY <1>1, <1>2, LoopOvertaken DEF IInv
<1>4. LoopOf(t)'
  <2>1. mark[t] <= Len(log)
    BY DEF LoopInv, LoopOf
  <2>2. mark'[t] <= Len(log')
    BY <1>1, <1>2, <2>1, LoopTyped DEF IInv
  <2> QED BY <1>1, <2>2 DEF LoopOf, Last
<1> QED BY <1>3, <1>4 DEF LoopInv

LEMMA DeferLoop ==
  ASSUME Tolerant, IInv, TypeOK', LoopInv, NEW t \in Threads, Defer(t)
  PROVE  LoopInv'
<1>1. PICK wait \in Waits : wakeAt' = [wakeAt EXCEPT ![t] = clock + wait]
  BY DEF Defer
<1>2. /\ pc[t] = "decide" /\ pc'[t] = "asleep" /\ loops'[t] = loops[t] + 1
      /\ wakeAt'[t] = clock + wait /\ ~HasToken
      /\ UNCHANGED <<clock, bucket, log, mark, nowRead>>
  BY <1>1 DEF Defer, Goto, IInv, TypeOK
<1>3. tokens' = tokens /\ lastRefill' = lastRefill
  BY <1>2 DEF bucket
<1>4. ASSUME NEW u \in Threads \ {t} PROVE LoopOf(u)'
  <2>1. pc'[u] = pc[u] /\ loops'[u] = loops[u] /\ wakeAt'[u] = wakeAt[u]
    BY <1>1 DEF Defer, Goto, IInv, TypeOK
  <2>2. clock <= clock'
    BY <1>2 DEF IInv, TypeOK
  <2> QED BY <1>2, <2>1, <2>2, LoopWaits DEF IInv
<1>5. LoopOf(t)'
  <2>1. LoopOf(t)
    BY DEF LoopInv
  <2>2. ~Last(t) /\ mark[t] <= Len(log) /\ loops[t] <= 1 + (Len(log) - mark[t])
    BY <1>2, <2>1 DEF LoopOf
  <2>3. mark'[t] <= Len(log') /\ loops'[t] <= 1 + (Len(log') - mark'[t])
    <3>1. TypeOK
      BY DEF IInv
    <3>2. /\ loops[t] \in Nat /\ mark[t] \in Nat /\ Len(log) \in Nat
          /\ loops[t] # 1 + (Len(log) - mark[t])
      BY <1>2, <2>2, <3>1, LoopTyped DEF Last
    <3> QED BY <1>2, <2>2, <3>2
  <2>4. Provided(t)'
    <3>1. lastRefill <= clock
      BY DEF IInv, ReadingInv
    <3> DEFINE w == clock + wait
    <3>2. lastRefill <= w /\ tokens + (w - lastRefill) * Rate >= One - Eps
      BY <1>2, <3>1, DeferProvides DEF IInv
    <3> QED BY <1>2, <1>3, <3>2 DEF Provided
  <2> QED BY <1>2, <2>3, <2>4 DEF LoopOf
<1> QED BY <1>4, <1>5 DEF LoopInv

LEMMA NextLoop ==
  ASSUME Tolerant, IInv, TypeOK', LoopInv, [Next]_vars
  PROVE  LoopInv'
BY CallLoop, MoveLoop, RefillLoop, GrantLoop, DeferLoop DEF Next, Step

\* When a token fits into the bucket and the rounding of a wait stays within the
\* tolerance, which is what _epsilon is for (ratelimit.py:44-48), a call of
\* acquire() sleeps once, and once more for each token another thread took.
THEOREM AlwaysConverges ==
  ASSUME Tolerant
  PROVE  Spec => []ConvergesInOneExtraLoop
<1>1. Init => IInv /\ LoopInv
  BY InitIInv, InitLoop
<1>2. IInv /\ LoopInv /\ [Next]_vars => (IInv /\ LoopInv)'
  <2>1. IInv /\ [Next]_vars => IInv'
    BY NextIInv
  <2>2. IInv /\ LoopInv /\ [Next]_vars => LoopInv'
    BY <2>1, NextLoop DEF IInv
  <2> QED BY <2>1, <2>2
<1>3. LoopInv => ConvergesInOneExtraLoop
  BY DEF LoopInv, LoopOf, ConvergesInOneExtraLoop
<1> QED BY <1>1, <1>2, <1>3, PTL DEF Spec
=============================================================================
