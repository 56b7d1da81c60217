---------------------------- MODULE TokenBucket ----------------------------
(***************************************************************************)
(* The limiter every SEC request passes through: TokenBucketLimiter of     *)
(* src/fsa/sec/ratelimit.py, with several threads inside acquire().        *)
(*                                                                         *)
(* The float arithmetic of the code is modelled over the integers: a token *)
(* is One units, the bucket gains Rate units per clock tick, and the       *)
(* rounding of the float wait (deficit / rate) is a choice between the two *)
(* whole numbers of ticks next to it.  Eps is the code's tolerance.        *)
(*                                                                         *)
(* The lock-protected block of acquire() is split at the points where a    *)
(* thread can be preempted, so what the lock protects is visible.          *)
(***************************************************************************)
EXTENDS Integers, Sequences

CONSTANTS
  Threads,    \* callers sharing one limiter
  NoThread,   \* the lock's holder when nobody holds it
  One,        \* units in one token
  Eps,        \* _epsilon, in units
  Rate,       \* _rate, in units per tick
  Capacity,   \* _capacity, in units
  Quota,      \* bound: calls of acquire() by each thread
  MaxTime     \* bound: the clock stops here unless a sleeper needs it

ASSUME ConstantsAssumption ==
  /\ NoThread \notin Threads
  /\ One \in Nat \ {0}
  /\ Eps \in Nat /\ Eps < One
  /\ Rate \in Nat \ {0}
  /\ Capacity \in Nat
  /\ Quota \in Nat
  /\ MaxTime \in Nat

VARIABLES
  clock,        \* what clock() returns now
  lock,         \* holder of _lock
  tokens,       \* _tokens
  lastRefill,   \* _last_refill
  pc,           \* where each thread is in acquire()
  nowRead,      \* each thread's local `now`
  wakeAt,       \* when each thread's sleep may end
  calls,        \* calls of acquire() made by each thread
  log,          \* history: for each token consumed, the clock reading it was
                \* accounted to and the time it was really consumed
  loops,        \* history: sleeps of each thread's current call
  mark          \* history: Len(log) when each thread's current call began

bucket == <<tokens, lastRefill>>
history == <<log, loops, mark>>
vars == <<clock, lock, tokens, lastRefill, pc, nowRead, wakeAt, calls,
          log, loops, mark>>

Goto(t, from, to) == pc[t] = from /\ pc' = [pc EXCEPT ![t] = to]

Init ==
  /\ clock = 0
  /\ lock = NoThread
  /\ tokens = Capacity
  /\ lastRefill = 0
  /\ pc = [t \in Threads |-> "idle"]
  /\ nowRead = [t \in Threads |-> 0]
  /\ wakeAt = [t \in Threads |-> 0]
  /\ calls = [t \in Threads |-> 0]
  /\ log = <<>>
  /\ loops = [t \in Threads |-> 0]
  /\ mark = [t \in Threads |-> 0]

-----------------------------------------------------------------------------
(* The bucket's arithmetic. *)

\* elapsed, and the refill capped at the capacity
Elapsed(now) == IF now > lastRefill THEN now - lastRefill ELSE 0
\* mutant: no min(capacity, ...)
RefilledUncapped(now) == tokens + Elapsed(now) * Rate
Refilled(now) ==
  LET filled == tokens + Elapsed(now) * Rate
  IN  IF filled < Capacity THEN filled ELSE Capacity

\* mutant: no tolerance
HasTokenExactly == tokens >= One
\* a token is there, up to the tolerance
HasToken == tokens >= One - Eps

\* mutant: no max(0, ...)
DebitedBelowZero == tokens - One
\* what is left when a token is taken
Debited == IF tokens > One THEN tokens - One ELSE 0

\* deficit / rate as a whole number of ticks, rounded either way
Waits ==
  LET deficit == One - tokens
  IN  {deficit \div Rate, (deficit + Rate - 1) \div Rate}

-----------------------------------------------------------------------------
(* The steps of a thread. *)

\* a thread calls acquire()
Call(t) ==
  /\ calls[t] < Quota
  /\ Goto(t, "idle", "want")
  /\ calls' = [calls EXCEPT ![t] = @ + 1]
  /\ loops' = [loops EXCEPT ![t] = 0]
  /\ mark' = [mark EXCEPT ![t] = Len(log)]
  /\ UNCHANGED <<clock, lock, bucket, nowRead, wakeAt, log>>

\* mutant: the block is entered while another thread is in it
EnterUnlocked(t) ==
  /\ Goto(t, "want", "locked")
  /\ lock' = t
  /\ UNCHANGED <<clock, bucket, nowRead, wakeAt, calls, history>>
\* `with self._lock` is entered
Enter(t) ==
  /\ lock = NoThread
  /\ Goto(t, "want", "locked")
  /\ lock' = t
  /\ UNCHANGED <<clock, bucket, nowRead, wakeAt, calls, history>>

\* now = self._clock()
ReadClock(t) ==
  /\ Goto(t, "locked", "refill")
  /\ nowRead' = [nowRead EXCEPT ![t] = clock]
  /\ UNCHANGED <<clock, lock, bucket, wakeAt, calls, history>>

\* mutant: _last_refill is not moved
RefillTwice(t) ==
  /\ Goto(t, "refill", "decide")
  /\ tokens' = Refilled(nowRead[t])
  /\ UNCHANGED <<clock, lock, lastRefill, nowRead, wakeAt, calls, history>>
\* the elapsed time is turned into tokens
Refill(t) ==
  /\ Goto(t, "refill", "decide")
  /\ tokens' = Refilled(nowRead[t])
  /\ lastRefill' = nowRead[t]
  /\ UNCHANGED <<clock, lock, nowRead, wakeAt, calls, history>>

\* a token is taken and acquire() returns, leaving the lock
Grant(t) ==
  /\ HasToken
  /\ Goto(t, "decide", "idle")
  /\ tokens' = Debited
  /\ lock' = NoThread
  /\ log' = Append(log, [read |-> nowRead[t], at |-> clock])
  /\ UNCHANGED <<clock, lastRefill, nowRead, wakeAt, calls, loops, mark>>

\* mutant: the thread sleeps inside the lock
DeferInsideLock(t) ==
  /\ ~HasToken
  /\ Goto(t, "decide", "asleep")
  /\ \E wait \in Waits : wakeAt' = [wakeAt EXCEPT ![t] = clock + wait]
  /\ loops' = [loops EXCEPT ![t] = @ + 1]
  /\ UNCHANGED <<clock, lock, bucket, nowRead, calls, log, mark>>
\* no token: the lock is left and the thread sleeps for the deficit
Defer(t) ==
  /\ ~HasToken
  /\ Goto(t, "decide", "asleep")
  /\ lock' = NoThread
  /\ \E wait \in Waits : wakeAt' = [wakeAt EXCEPT ![t] = clock + wait]
  /\ loops' = [loops EXCEPT ![t] = @ + 1]
  /\ UNCHANGED <<clock, bucket, nowRead, calls, log, mark>>

\* the sleep ends, at the earliest when it is over, and the loop starts again
Wake(t) ==
  /\ clock >= wakeAt[t]
  /\ Goto(t, "asleep", "want")
  /\ UNCHANGED <<clock, lock, bucket, nowRead, wakeAt, calls, history>>

\* time passes
Tick ==
  /\ clock < MaxTime \/ \E t \in Threads : pc[t] = "asleep" /\ clock < wakeAt[t]
  /\ clock' = clock + 1
  /\ UNCHANGED <<lock, bucket, pc, nowRead, wakeAt, calls, history>>

Step(t) ==
  \/ Call(t) \/ Enter(t) \/ ReadClock(t) \/ Refill(t)
  \/ Grant(t) \/ Defer(t) \/ Wake(t)

Next == Tick \/ \E t \in Threads : Step(t)

\* Inside acquire() a thread that can run does run, and time passes; whether
\* a thread calls acquire() at all is up to its program.
Fairness ==
  /\ WF_vars(Tick)
  /\ \A t \in Threads : /\ WF_vars(Enter(t)) /\ WF_vars(ReadClock(t))
                        /\ WF_vars(Refill(t)) /\ WF_vars(Grant(t))
                        /\ WF_vars(Defer(t)) /\ WF_vars(Wake(t))

Spec == Init /\ [][Next]_vars
FairSpec == Spec /\ Fairness

-----------------------------------------------------------------------------
(* Properties. *)

\* The state has its shape; in particular the bucket is never overdrawn
\* and never above its capacity.
TypeOK ==
  /\ clock \in Nat
  /\ lock \in Threads \cup {NoThread}
  /\ tokens \in 0..Capacity
  /\ lastRefill \in Nat
  /\ pc \in [Threads -> {"idle", "want", "locked", "refill", "decide", "asleep"}]
  /\ nowRead \in [Threads -> Nat]
  /\ wakeAt \in [Threads -> Nat]
  /\ calls \in [Threads -> Nat]
  /\ log \in Seq([read : Nat, at : Nat])
  /\ loops \in [Threads -> Nat]
  /\ mark \in [Threads -> Nat]

\* The least a granted token costs.
Cost == One - Eps

\* The cap: whatever threads are interleaved, the tokens consumed between any
\* two clock readings are at most a full bucket and the refill in between.
WindowCap ==
  \A j \in 1..Len(log) : \A i \in 1..j :
    (j - i + 1) * Cost <= Capacity + Rate * (log[j].read - log[i].read)

\* The same in real time: a token may be consumed later than the reading it is
\* accounted to (the thread was preempted inside the lock), and still at most
\* one request more than the cap falls between two moments.
WallClockCap ==
  \A j \in 1..Len(log) : \A i \in 1..j :
    (j - i) * Cost <= Capacity + Rate * (log[j].at - log[i].at)

\* acquire() converges: a call sleeps once, and once more for each token that
\* another thread took since the call began (the comment on _epsilon).
ConvergesInOneExtraLoop ==
  \A t \in Threads :
    pc[t] # "idle" => loops[t] <= 1 + (Len(log) - mark[t])

\* The limiter implements its promise: each request it lets through is
\* accounted after all earlier ones were let through, within the budget.
Promise == INSTANCE RateCap WITH Burst <- Capacity, Cost <- Cost
ImplementsRateCap == Promise!Spec

\* Every call of acquire() returns.
AcquireReturns == \A t \in Threads : (pc[t] = "want") ~> (pc[t] = "idle")
=============================================================================
