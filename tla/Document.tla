------------------------------ MODULE Document ------------------------------
(***************************************************************************)
(* What get_json of src/fsa/sec/client.py promises its callers about one   *)
(* document of SEC EDGAR, whatever goes on behind it: a reader is served   *)
(* from the cache if the entry was known to be current less than Ttl ago   *)
(* and the reader does not insist on a live answer; it asks SEC otherwise, *)
(* and gets a version that was current then or later, or an error.  What   *)
(* is kept is never dated later than the question it was the answer to.    *)
(*                                                                         *)
(* Module SecClient implements this for several clients, module Cli relies *)
(* on it for every document of a run.                                      *)
(***************************************************************************)
EXTENDS Integers, Sequences

CONSTANTS
  Readers,
  None,   \* nothing is kept
  Ttl     \* cache_ttl_hours

VARIABLES
  clock,
  published,  \* published[v]: when version v replaced the one before
  stored,     \* [version, validated] of what the cache keeps, or None
  reading     \* reading[r]: what reader r is doing

vars == <<clock, published, stored, reading>>

Idle == [stage |-> "idle"]
Failed == [stage |-> "failed"]
Asked(now, insist) == [stage |-> "asked", now |-> now, insist |-> insist]
Has(version, now, insist) ==
  [stage |-> "has", version |-> version, now |-> now, insist |-> insist]

\* whether version v was still the current one at time t or later
CurrentAtOrAfter(v, t) == v = Len(published) \/ published[v + 1] >= t

IsFresh == stored # None /\ clock - stored.validated < Ttl

Init ==
  /\ clock = 1
  /\ published = <<1>>
  /\ stored = None
  /\ reading = [r \in Readers |-> Idle]

Serve(r) ==
  /\ reading[r] = Idle /\ IsFresh
  /\ reading' = [reading EXCEPT ![r] = Has(stored.version, clock, FALSE)]
  /\ UNCHANGED <<clock, published, stored>>

Ask(r) ==
  /\ reading[r] = Idle
  /\ \E insist \in BOOLEAN :
       /\ insist \/ ~IsFresh
       /\ reading' = [reading EXCEPT ![r] = Asked(clock, insist)]
  /\ UNCHANGED <<clock, published, stored>>

Answer(r) ==
  /\ reading[r].stage = "asked"
  /\ \E v \in 1..Len(published) :
       /\ CurrentAtOrAfter(v, reading[r].now)
       /\ reading' = [reading EXCEPT ![r] = Has(v, @.now, @.insist)]
       /\ stored' \in {stored, [version |-> v, validated |-> reading[r].now]}
  /\ UNCHANGED <<clock, published>>

Fail(r) ==
  /\ reading[r].stage = "asked"
  /\ reading' = [reading EXCEPT ![r] = Failed]
  /\ UNCHANGED <<clock, published, stored>>

\* the reader has what it wanted, has given up, or is killed
Leave(r) ==
  /\ reading[r] # Idle
  /\ reading' = [reading EXCEPT ![r] = Idle]
  /\ UNCHANGED <<clock, published, stored>>

Lose == stored' = None /\ UNCHANGED <<clock, published, reading>>
Tick == clock' = clock + 1 /\ UNCHANGED <<published, stored, reading>>
Publish == published' = Append(published, clock) /\ UNCHANGED <<clock, stored, reading>>

Next ==
  \/ \E r \in Readers : Serve(r) \/ Ask(r) \/ Answer(r) \/ Fail(r) \/ Leave(r)
  \/ Lose \/ Tick \/ Publish

Spec == Init /\ [][Next]_vars
=============================================================================
