------------------------------ MODULE MCShell ------------------------------
(* Shell for TLC: two launches, one after the other or the second in a     *)
(* sleep of the first, a path that is hidden and shown at any time, and a  *)
(* day that is long enough for the timeout on either side of midnight.     *)
EXTENDS Shell
=============================================================================
