--------------------------- MODULE MCTokenBucket ---------------------------
(***************************************************************************)
(* TokenBucket for TLC.  Half a token's rounding matters here: with three  *)
(* units to a token and two gained per tick, a wait rounded down leaves    *)
(* the bucket one unit short, which is what _epsilon is for.               *)
(***************************************************************************)
EXTENDS TokenBucket

CONSTANT TicksPerSecond

\* Nobody passes `capacity`: it defaults to the rate, one second's refill.
DefaultCapacity == Rate * TicksPerSecond
ASSUME CapacityIsTheDefault == Capacity = DefaultCapacity
=============================================================================
