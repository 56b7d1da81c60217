--------------------------- MODULE MCCacheFiles ---------------------------
(* CacheFiles for TLC: two readers, two entries, and as many files as two  *)
(* names and two open files can need.                                      *)
EXTENDS CacheFiles
=============================================================================
