------------------------------ MODULE RateCap ------------------------------
(***************************************************************************)
(* What the limiter promises its caller, with no bucket, lock or thread: a *)
(* request is let through only if every window of time that ends with it   *)
(* holds at most a burst and the refill of the window.                     *)
(***************************************************************************)
EXTENDS Integers, Sequences

CONSTANTS
  Burst,  \* units that may be spent at once
  Rate,   \* units gained per tick
  Cost    \* units a request costs

VARIABLES
  clock,  \* time
  log     \* for each request let through, the time it is accounted to and
          \* the time it was let through

Init == clock = 0 /\ log = <<>>

Tick == clock' = clock + 1 /\ UNCHANGED log

\* every window ending with the last request of l is within the budget
LastWithinBudget(l) ==
  \A i \in 1..Len(l) :
    (Len(l) - i + 1) * Cost <= Burst + Rate * (l[Len(l)].read - l[i].read)

LetThrough ==
  \E r \in 0..clock :
    /\ \A i \in 1..Len(log) : log[i].at <= r
    /\ log' = Append(log, [read |-> r, at |-> clock])
    /\ LastWithinBudget(log')
    /\ UNCHANGED clock

Spec == Init /\ [][Tick \/ LetThrough]_<<clock, log>>
=============================================================================
