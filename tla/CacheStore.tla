----------------------------- MODULE CacheStore -----------------------------
(* What a reader and a writer of the response cache rely on: an entry is   *)
(* replaced as a whole or not at all, and a read returns the entry of one  *)
(* moment, or a miss.  Module SecClient uses the cache this way.           *)
CONSTANTS Readers, Values, Miss

VARIABLES
  stored,  \* the entry, or Miss
  got      \* got[r]: what reader r's last read has found

Init == stored = Miss /\ got = [r \in Readers |-> Miss]

Put == stored' \in Values /\ got' = got
Lose == stored' = Miss /\ got' = got
Get(r) == got' = [got EXCEPT ![r] = stored] /\ stored' = stored

Next == Put \/ Lose \/ \E r \in Readers : Get(r)

Spec == Init /\ [][Next]_<<stored, got>>
=============================================================================
