------------------------------ MODULE MCDedupe ------------------------------
(* Dedupe for TLC: two durations with one end, an instant at that end, and an *)
(* overlapping earlier duration; any three facts of them, filed on two days,  *)
(* with and without a frame, in every order.                                  *)
EXTENDS Dedupe

MCPeriods == {[start |-> 1, end |-> 3], [start |-> 2, end |-> 3],
              [start |-> 0, end |-> 3], [start |-> 1, end |-> 2]}
MCDates == {1, 2}
=============================================================================
