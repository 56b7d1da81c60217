---------------------------- MODULE MCSecClient ----------------------------
(* SecClient for TLC: two processes that share a cache entry may overlap.  *)
EXTENDS SecClient, TLC

Interchangeable == Permutations(Clients)
=============================================================================
