------------------------------- MODULE Dedupe -------------------------------
(***************************************************************************)
(* dedupe_facts of src/fsa/normalize/facts.py: the same period is reported *)
(* by several filings, and one fact per period is kept.  The loop over the *)
(* raw facts is a state machine, one action per branch of its body.        *)
(***************************************************************************)
EXTENDS Integers, Sequences, FiniteSets

CONSTANTS
  Periods,    \* [start, end] records; an instant's start is 0 (date.min)
  Dates,      \* filing dates
  MaxFacts    \* bound: raw facts of one tag

ASSUME PeriodsAssumption == Periods \subseteq [start : Nat, end : Nat]
ASSUME DatesAssumption == Dates \subseteq Nat
ASSUME MaxFactsAssumption == MaxFacts \in Nat

\* What the tie-break can tell apart of a RawFact; framed is bool(fact.frame).
RawFact == [period : Periods, filed : Dates, framed : BOOLEAN]

VARIABLES
  facts,  \* the argument, in the order of the payload
  i,      \* the fact the loop is at
  best,   \* for each period the index of the fact kept, 0 for none
  out     \* the list returned, once it is

vars == <<facts, i, best, out>>

None == 0

Init ==
  /\ facts \in UNION {[1..n -> RawFact] : n \in 0..MaxFacts}
  /\ i = 1
  /\ best = [p \in Periods |-> None]
  /\ out = <<>>

\* mutant: any fact of the latest filing replaces the one kept
BeatsOrTies(f, g) == f.filed >= g.filed
\* mutant: the frame is not looked at
BeatsByDateOnly(f, g) == f.filed > g.filed
\* f replaces g: filed later, or the same day with a frame g lacks
Beats(f, g) ==
  \/ f.filed > g.filed
  \/ f.filed = g.filed /\ f.framed /\ ~g.framed

Reading == i <= Len(facts)
Kept == best[facts[i].period]

\* mutant: the position after the fact is kept
FirstPosition ==
  /\ Reading
  /\ Kept = None
  /\ best' = [best EXCEPT ![facts[i].period] = i + 1]
  /\ i' = i + 1
  /\ UNCHANGED <<facts, out>>
\* first fact of its period
First ==
  /\ Reading
  /\ Kept = None
  /\ best' = [best EXCEPT ![facts[i].period] = i]
  /\ i' = i + 1
  /\ UNCHANGED <<facts, out>>

Replace ==
  /\ Reading
  /\ Kept # None
  /\ Beats(facts[i], facts[Kept])
  /\ best' = [best EXCEPT ![facts[i].period] = i]
  /\ i' = i + 1
  /\ UNCHANGED <<facts, out>>

Keep ==
  /\ Reading
  /\ Kept # None
  /\ ~Beats(facts[i], facts[Kept])
  /\ i' = i + 1
  /\ UNCHANGED <<facts, best, out>>

\* mutant: the periods are sorted by start
EarlierStart(p, q) == p.start < q.start \/ (p.start = q.start /\ p.end < q.end)
\* the sort key (end, start or date.min)
Earlier(p, q) == p.end < q.end \/ (p.end = q.end /\ p.start < q.start)

\* best.values() sorted
Return ==
  /\ ~Reading
  /\ i = Len(facts) + 1
  /\ i' = i + 1
  /\ LET kept == {best[p] : p \in Periods} \ {None}
     IN  out' = CHOOSE s \in [1..Cardinality(kept) -> kept] :
                  \A m, n \in DOMAIN s : m < n => Earlier(facts[s[m]].period, facts[s[n]].period)
  /\ UNCHANGED <<facts, best>>

Returned == i = Len(facts) + 2
Done == Returned /\ UNCHANGED vars

Next == First \/ Replace \/ Keep \/ Return \/ Done

Spec == Init /\ [][Next]_vars

-----------------------------------------------------------------------------
(* Properties. *)

LoopTypeOK ==
  /\ facts \in Seq(RawFact)
  /\ i \in 1..(Len(facts) + 2)
  /\ best \in [Periods -> 0..Len(facts)]

TypeOK == LoopTypeOK /\ out \in Seq(1..Len(facts))

Read == i - 1

\* k is the fact of period p that a reader of the first n facts must keep: no
\* fact of p is filed later, none of the same day has a frame it lacks, and it
\* is the first such in the payload.
Canonical(p, k, n) ==
  /\ k \in 1..n
  /\ facts[k].period = p
  /\ \A m \in 1..n : facts[m].period = p =>
       /\ facts[m].filed <= facts[k].filed
       /\ facts[m].filed = facts[k].filed => (facts[m].framed => facts[k].framed)
       /\ (facts[m].filed = facts[k].filed /\ facts[m].framed = facts[k].framed) => k <= m

\* At every turn of the loop the facts kept are the canonical ones of what has
\* been read: a restatement wins however the filings are ordered, and a period
\* is dropped only if nobody reported it.
KeptIsCanonical ==
  Read <= Len(facts) =>
    \A p \in Periods :
      \/ best[p] = None /\ \A m \in 1..Read : facts[m].period # p
      \/ best[p] # None /\ Canonical(p, best[p], Read)

\* The list returned has one fact for each reported period, in the order of
\* the periods' ends, which the callers that take a first or a last fact of a
\* year rely on.
ReturnedInOrder ==
  Returned =>
    /\ {facts[out[n]].period : n \in 1..Len(out)} = {facts[m].period : m \in 1..Len(facts)}
    /\ \A n \in 1..(Len(out) - 1) :
         LET p == facts[out[n]].period
             q == facts[out[n + 1]].period
         IN  p.end < q.end \/ (p.end = q.end /\ p.start < q.start)
=============================================================================
