--------------------------- MODULE Dedupe_proofs ---------------------------
(***************************************************************************)
(* dedupe_facts keeps the canonical fact of every period, for payloads of  *)
(* any length, any periods and any filing dates.  The bound MaxFacts is    *)
(* not used: the proof is about the loop, whatever list it starts with.    *)
(* The list returned is the listing of the facts kept in the order of the  *)
(* periods' ends; there is one because no two of them have one period.     *)
(***************************************************************************)
EXTENDS Dedupe, SetLemmas

IInv == LoopTypeOK /\ KeptIsCanonical

LEMMA FactTyped ==
  ASSUME NEW S, NEW s \in Seq(S)
  PROVE  Len(s) \in Nat /\ \A k \in 1..Len(s) : s[k] \in S
OBVIOUS

LEMMA FactFields ==
  ASSUME LoopTypeOK, NEW k \in 1..Len(facts)
  PROVE  /\ facts[k].period \in Periods
         /\ facts[k].filed \in Nat
         /\ facts[k].framed \in BOOLEAN
<1>1. facts[k] \in RawFact
  BY FactTyped DEF LoopTypeOK
<1> QED
  BY <1>1, DatesAssumption DEF RawFact

\* A fact that nothing beats yet stays canonical when one more is read that
\* does not beat it.
LEMMA StaysCanonical ==
  ASSUME LoopTypeOK, NEW n \in Nat, n + 1 \in 1..Len(facts),
         NEW p \in Periods, NEW k \in 1..n, Canonical(p, k, n),
         facts[n + 1].period # p \/ ~Beats(facts[n + 1], facts[k])
  PROVE  Canonical(p, k, n + 1)
<1>1. k \in 1..(n + 1) /\ k \in 1..Len(facts) /\ facts[k].period = p
  BY FactTyped DEF Canonical, LoopTypeOK
<1>2. ASSUME NEW m \in 1..(n + 1), facts[m].period = p
      PROVE  /\ facts[m].filed <= facts[k].filed
             /\ facts[m].filed = facts[k].filed => (facts[m].framed => facts[k].framed)
             /\ (facts[m].filed = facts[k].filed /\ facts[m].framed = facts[k].framed) => k <= m
  <2>1. CASE m \in 1..n
    BY <1>2, <2>1 DEF Canonical
  <2>2. CASE m = n + 1
    <3>1. facts[m].filed \in Nat /\ facts[k].filed \in Nat
          /\ facts[m].framed \in BOOLEAN /\ facts[k].framed \in BOOLEAN
      BY <1>1, <2>2, FactFields
    <3>2. ~Beats(facts[m], facts[k])
      BY <1>2, <2>2
    <3> QED
      BY <2>2, <3>1, <3>2 DEF Beats
  <2> QED
    BY <2>1, <2>2
<1> QED
  BY <1>1, <1>2 DEF Canonical

\* A fact that beats the canonical one is canonical.
LEMMA BecomesCanonical ==
  ASSUME LoopTypeOK, NEW n \in Nat, n + 1 \in 1..Len(facts),
         NEW p \in Periods, NEW k \in 1..n, Canonical(p, k, n),
         facts[n + 1].period = p, Beats(facts[n + 1], facts[k])
  PROVE  Canonical(p, n + 1, n + 1)
<1>1. k \in 1..Len(facts)
  BY FactTyped DEF LoopTypeOK
<1>2. facts[n + 1].filed \in Nat /\ facts[k].filed \in Nat
      /\ facts[n + 1].framed \in BOOLEAN /\ facts[k].framed \in BOOLEAN
  BY <1>1, FactFields
<1>3. ASSUME NEW m \in 1..(n + 1), facts[m].period = p
      PROVE  /\ facts[m].filed <= facts[n + 1].filed
             /\ facts[m].filed = facts[n + 1].filed => (facts[m].framed => facts[n + 1].framed)
             /\ (facts[m].filed = facts[n + 1].filed /\ facts[m].framed = facts[n + 1].framed) => n + 1 <= m
  <2>1. CASE m \in 1..n
    <3>1. m \in 1..Len(facts)
      BY <2>1, FactTyped DEF LoopTypeOK
    <3>2. facts[m].filed \in Nat /\ facts[m].framed \in BOOLEAN
      BY <3>1, FactFields
    <3>3. /\ facts[m].filed <= facts[k].filed
          /\ facts[m].filed = facts[k].filed => (facts[m].framed => facts[k].framed)
      BY <1>3, <2>1 DEF Canonical
    <3> QED
      BY <1>2, <3>2, <3>3 DEF Beats
  <2>2. CASE m = n + 1
    BY <2>2, <1>2
  <2> QED
    BY <2>1, <2>2
<1> QED
  BY <1>3 DEF Canonical

\* The first fact of a period is canonical.
LEMMA FirstIsCanonical ==
  ASSUME LoopTypeOK, NEW n \in Nat, n + 1 \in 1..Len(facts), NEW p \in Periods,
         facts[n + 1].period = p, \A m \in 1..n : facts[m].period # p
  PROVE  Canonical(p, n + 1, n + 1)
<1>1. facts[n + 1].filed \in Nat
  BY FactFields
<1>2. \A m \in 1..(n + 1) : facts[m].period = p => m = n + 1
  OBVIOUS
<1> QED
  BY <1>1, <1>2 DEF Canonical

-----------------------------------------------------------------------------

LEMMA InitIInv == Init => IInv
<1> SUFFICES ASSUME Init PROVE IInv
  OBVIOUS
<1>1. PICK n \in 0..MaxFacts : facts \in [1..n -> RawFact]
  BY DEF Init
<1>2. n \in Nat
  BY MaxFactsAssumption
<1>3. facts \in Seq(RawFact) /\ Len(facts) = n
  BY <1>1, <1>2
<1>4. LoopTypeOK
  BY <1>2, <1>3 DEF Init, LoopTypeOK, None
<1> QED
  BY <1>4 DEF Init, IInv, KeptIsCanonical, Read, None

\* A turn of the loop reads facts[i] and changes what is kept of its period
\* only: if what is kept there is canonical afterwards, everything is.
LEMMA TurnIInv ==
  ASSUME IInv, Reading, facts' = facts, i' = i + 1, NEW k \in 1..i,
         best' = [best EXCEPT ![facts[i].period] = k],
         Canonical(facts[i].period, k, i)
  PROVE  IInv'
<1> DEFINE q == facts[i].period
<1>1. i \in 1..Len(facts) /\ Len(facts) \in Nat /\ Read \in Nat /\ Read + 1 = i
  BY FactTyped DEF IInv, LoopTypeOK, Reading, Read
<1>2. q \in Periods
  BY <1>1, FactFields DEF IInv
<1>3. LoopTypeOK'
  BY <1>1, <1>2 DEF IInv, LoopTypeOK
<1>4. best'[q] = k /\ \A p \in Periods \ {q} : best'[p] = best[p]
  BY <1>2 DEF IInv, LoopTypeOK
<1>5. ASSUME NEW p \in Periods
      PROVE  \/ best'[p] = None /\ \A m \in 1..i : facts[m].period # p
             \/ best'[p] # None /\ Canonical(p, best'[p], i)
  <2>1. CASE p = q
    BY <1>1, <1>4, <2>1 DEF None
  <2>2. CASE p # q
    <3>1. best'[p] = best[p] /\ facts[i].period # p
      BY <1>4, <2>2
    <3>2. CASE best[p] = None /\ \A m \in 1..Read : facts[m].period # p
      <4>1. \A m \in 1..i : m \in 1..Read \/ m = i
        BY <1>1
      <4> QED
        BY <3>1, <3>2, <4>1
    <3>3. CASE best[p] # None /\ Canonical(p, best[p], Read)
      <4>1. best[p] \in 1..Read
        BY <3>3 DEF Canonical
      <4>2. Canonical(p, best[p], Read + 1)
        BY <1>1, <3>1, <3>3, <4>1, StaysCanonical DEF IInv
      <4> QED
        BY <1>1, <3>1, <3>3, <4>2
    <3> QED
      BY <1>1, <3>2, <3>3 DEF IInv, KeptIsCanonical
  <2> QED
    BY <2>1, <2>2
<1>6. Read' = i
  BY <1>1 DEF Read
<1>8. \A p \in Periods : best'[p] # None /\ Canonical(p, best'[p], i) => Canonical(p, best[p], Read)'
  BY <1>6 DEF Canonical
<1>9. KeptIsCanonical'
  BY <1>5, <1>6, <1>8 DEF KeptIsCanonical
<1> QED
  BY <1>3, <1>9 DEF IInv

LEMMA NextIInv == IInv /\ [Next]_vars => IInv'
<1> SUFFICES ASSUME IInv, [Next]_vars PROVE IInv'
  OBVIOUS
<1> DEFINE q == facts[i].period
<1>1. ASSUME Reading
      PROVE  /\ i \in 1..Len(facts) /\ Read \in Nat /\ Read + 1 = i /\ q \in Periods
             /\ \/ best[q] = None /\ \A m \in 1..Read : facts[m].period # q
                \/ best[q] \in 1..Read /\ Canonical(q, best[q], Read)
  <2>1. i \in 1..Len(facts) /\ Len(facts) \in Nat
    BY <1>1, FactTyped DEF IInv, LoopTypeOK, Reading
  <2>2. q \in Periods
    BY <2>1, FactFields DEF IInv
  <2>3. Read \in Nat /\ Read + 1 = i /\ Read <= Len(facts)
    BY <2>1 DEF Read
  <2> QED
    BY <2>1, <2>2, <2>3 DEF IInv, KeptIsCanonical, Canonical
<1>2. CASE First
  <2>1. Reading /\ best[q] = None
    BY <1>2 DEF First, Kept
  <2>2. \A m \in 1..Read : facts[m].period # q
    BY <1>1, <2>1 DEF None
  <2>3. Canonical(q, i, i)
    BY <1>1, <2>1, <2>2, FirstIsCanonical DEF IInv
  <2>4. /\ Reading /\ i \in 1..i /\ facts' = facts /\ i' = i + 1
        /\ best' = [best EXCEPT ![q] = i]
    BY <1>1, <1>2 DEF First
  <2> QED
    BY <2>3, <2>4, TurnIInv
<1>3. CASE Replace
  <2>1. Reading /\ best[q] # None /\ Beats(facts[i], facts[best[q]])
    BY <1>3 DEF Replace, Kept
  <2>2. best[q] \in 1..Read /\ Canonical(q, best[q], Read)
    BY <1>1, <2>1
  <2>3. Canonical(q, i, i)
    BY <1>1, <2>1, <2>2, BecomesCanonical DEF IInv
  <2>4. /\ Reading /\ i \in 1..i /\ facts' = facts /\ i' = i + 1
        /\ best' = [best EXCEPT ![q] = i]
    BY <1>1, <1>3 DEF Replace
  <2> QED
    BY <2>3, <2>4, TurnIInv
<1>4. CASE Keep
  <2>1. Reading /\ best[q] # None /\ ~Beats(facts[i], facts[best[q]])
    BY <1>4 DEF Keep, Kept
  <2>2. best[q] \in 1..Read /\ Canonical(q, best[q], Read)
    BY <1>1, <2>1
  <2>3. Canonical(q, best[q], i)
    BY <1>1, <2>1, <2>2, StaysCanonical DEF IInv
  <2>4. best[q] \in 1..i
    BY <1>1, <2>1, <2>2
  <2>5. best' = [best EXCEPT ![q] = best[q]]
    BY <1>1, <1>4, <2>1 DEF Keep, IInv, LoopTypeOK
  <2> QED
    BY <1>1, <1>4, <2>1, <2>3, <2>4, <2>5, TurnIInv DEF Keep
<1>5. CASE Return
  <2>1. facts' = facts /\ best' = best /\ i' = Len(facts) + 2
    <3>1. facts' = facts /\ best' = best /\ i = Len(facts) + 1 /\ i' = i + 1
      BY <1>5 DEF Return
    <3>2. Len(facts) \in Nat
      BY FactTyped DEF IInv, LoopTypeOK
    <3> QED
      BY <3>1, <3>2
  <2>2. LoopTypeOK'
    BY <2>1, FactTyped DEF IInv, LoopTypeOK
  <2>3. KeptIsCanonical'
    BY <2>1, FactTyped DEF IInv, LoopTypeOK, KeptIsCanonical, Read
  <2> QED
    BY <2>2, <2>3 DEF IInv
<1>6. CASE Done \/ UNCHANGED vars
  BY <1>6 DEF Done, vars, IInv, LoopTypeOK, KeptIsCanonical, Read, Canonical
<1> QED
  BY <1>2, <1>3, <1>4, <1>5, <1>6 DEF Next

\* The loop's variables keep their shape.
THEOREM LoopTypeCorrect == Spec => []LoopTypeOK
<1>1. IInv => LoopTypeOK
  BY DEF IInv
<1> QED
  BY <1>1, InitIInv, NextIInv, PTL DEF Spec

\* Latest filing first, then a frame, then the order of the payload: the fact
\* kept is the canonical one at every turn, for every payload.
THEOREM KeptIsAlwaysCanonical == Spec => []KeptIsCanonical
<1>1. IInv => KeptIsCanonical
  BY DEF IInv
<1> QED
  BY <1>1, InitIInv, NextIInv, PTL DEF Spec

-----------------------------------------------------------------------------
(* the list returned *)

Values == {best[p] : p \in Periods} \ {None}
Order == {k \in Values \X Values : Earlier(facts[k[1]].period, facts[k[2]].period)}

\* what is kept when all facts have been read
AllRead ==
  \A p \in Periods :
    \/ best[p] = None /\ \A m \in 1..Len(facts) : facts[m].period # p
    \/ best[p] # None /\ Canonical(p, best[p], Len(facts))

Sorted(s) ==
  /\ s \in [1..Cardinality(Values) -> Values]
  /\ \A m, n \in DOMAIN s : m < n => Earlier(facts[s[m]].period, facts[s[n]].period)

ListExact == IF Returned THEN AllRead /\ Sorted(out) ELSE out = <<>>

FullInv == IInv /\ ListExact

\* each value is a position in the payload, and no two are of one period
LEMMA ValuesAre ==
  ASSUME LoopTypeOK, AllRead
  PROVE  /\ Values \subseteq 1..Len(facts) /\ IsFiniteSet(Values)
         /\ \A k \in Values : best[facts[k].period] = k /\ facts[k].period \in Periods
<1>1. Len(facts) \in Nat
  BY FactTyped DEF LoopTypeOK
<1>2. ASSUME NEW k \in Values
      PROVE  k \in 1..Len(facts) /\ best[facts[k].period] = k /\ facts[k].period \in Periods
  <2>1. PICK p \in Periods : k = best[p] /\ k # None
    BY DEF Values
  <2>2. Canonical(p, k, Len(facts))
    BY <2>1 DEF AllRead
  <2> QED BY <2>1, <2>2 DEF Canonical
<1>3. IsFiniteSet(1..Len(facts)) /\ Values \in SUBSET (1..Len(facts))
  BY <1>1, <1>2, FS_Interval
<1>4. IsFiniteSet(Values)
  BY <1>3, FS_Subset
<1> QED BY <1>2, <1>4

\* the periods' ends, then their starts, order the values strictly
LEMMA OrderIsStrict ==
  ASSUME LoopTypeOK, AllRead
  PROVE  Orders(Order, Values)
<1> DEFINE Period(k) == facts[k].period
<1>1. \A k \in Values : /\ Period(k).start \in Nat /\ Period(k).end \in Nat
                        /\ Period(k) \in [start : Nat, end : Nat] /\ best[Period(k)] = k
  BY ValuesAre, PeriodsAssumption
<1>2. \A k, l \in Values : <<k, l>> \in Order <=> Earlier(Period(k), Period(l))
  BY DEF Order
<1>3. ASSUME NEW k \in Values, NEW l \in Values, k # l
      PROVE  Period(k).start # Period(l).start \/ Period(k).end # Period(l).end
  <2>1. Period(k) # Period(l)
    BY <1>1, <1>3
  <2> HIDE DEF Period
  <2> QED BY <1>1, <2>1
<1> HIDE DEF Period
<1>4. \A k \in Values : ~Earlier(Period(k), Period(k))
  BY <1>1 DEF Earlier
<1>5. \A k, l, m \in Values :
        Earlier(Period(k), Period(l)) /\ Earlier(Period(l), Period(m))
          => Earlier(Period(k), Period(m))
  BY <1>1 DEF Earlier
<1>6. \A k, l \in Values :
        k # l => Earlier(Period(k), Period(l)) \/ Earlier(Period(l), Period(k))
  BY <1>1, <1>3 DEF Earlier
<1> QED BY <1>2, <1>4, <1>5, <1>6 DEF Orders

\* so there is a list of them, and it leaves none out
LEMMA SortedExists ==
  ASSUME LoopTypeOK, AllRead
  PROVE  \E s : Sorted(s)
<1>1. PICK s : Lists(s, Values, Order)
  BY ValuesAre, OrderIsStrict, Listing
<1>2. \A k, l : <<k, l>> \in Order => Earlier(facts[k].period, facts[l].period)
  BY DEF Order
<1>3. s \in [1..Cardinality(Values) -> Values]
  BY <1>1 DEF Lists
<1>4. \A m, n \in DOMAIN s : m < n => Earlier(facts[s[m]].period, facts[s[n]].period)
  BY <1>1, <1>2, <1>3 DEF Lists
<1> QED BY <1>3, <1>4 DEF Sorted

LEMMA SortedLists ==
  ASSUME LoopTypeOK, AllRead, NEW s, Sorted(s)
  PROVE  Lists(s, Values, Order)
<1>1. \A k, l \in Values : Earlier(facts[k].period, facts[l].period) => <<k, l>> \in Order
  BY DEF Order
<1>2. s \in [1..Cardinality(Values) -> Values]
  BY DEF Sorted
<1>3. \A m, n \in 1..Cardinality(Values) : m < n => <<s[m], s[n]>> \in Order
  BY <1>1, <1>2 DEF Sorted
<1> QED BY <1>2, <1>3, ValuesAre, OrderIsStrict, Increasing

LEMMA FullInitially == Init => FullInv
<1> SUFFICES ASSUME Init PROVE ListExact
  BY InitIInv DEF FullInv
<1>1. i = 1 /\ out = <<>> /\ Len(facts) \in Nat
  BY InitIInv, FactTyped DEF Init, IInv, LoopTypeOK
<1> QED BY <1>1 DEF ListExact, Returned

LEMMA FullKept == FullInv /\ [Next]_vars => FullInv'
<1> SUFFICES ASSUME FullInv, [Next]_vars PROVE ListExact'
  BY NextIInv DEF FullInv
<1>1. LoopTypeOK /\ KeptIsCanonical /\ Len(facts) \in Nat /\ i \in 1..(Len(facts) + 2)
  BY FactTyped DEF FullInv, IInv, LoopTypeOK
<1>2. CASE First \/ Replace \/ Keep
  <2>1. i <= Len(facts) /\ i' = i + 1 /\ facts' = facts /\ out' = out
    BY <1>2 DEF First, Replace, Keep, Reading
  <2>2. ~Returned /\ ~Returned'
    BY <1>1, <2>1 DEF Returned
  <2> QED BY <2>1, <2>2 DEF FullInv, ListExact
<1>3. CASE Return
  <2>1. i = Len(facts) + 1 /\ i' = i + 1 /\ facts' = facts /\ best' = best
    BY <1>3 DEF Return
  <2>2. AllRead
    BY <1>1, <2>1 DEF KeptIsCanonical, AllRead, Read
  <2>3. out' = CHOOSE s \in [1..Cardinality(Values) -> Values] :
                 \A m, n \in DOMAIN s : m < n => Earlier(facts[s[m]].period, facts[s[n]].period)
    BY <1>3 DEF Return, Values
  <2>4. \E s \in [1..Cardinality(Values) -> Values] :
          \A m, n \in DOMAIN s : m < n => Earlier(facts[s[m]].period, facts[s[n]].period)
    BY <1>1, <2>2, SortedExists DEF Sorted
  <2>5. Sorted(out')
    BY <2>3, <2>4 DEF Sorted
  <2>6. Values' = Values /\ AllRead'
    BY <2>1, <2>2 DEF Values, AllRead, Canonical
  <2>7. Sorted(out)'
    BY <2>1, <2>5, <2>6 DEF Sorted
  <2>8. Returned'
    BY <1>1, <2>1 DEF Returned
  <2> QED BY <2>6, <2>7, <2>8 DEF ListExact
<1>4. CASE Done \/ UNCHANGED vars
  <2>1. UNCHANGED vars
    BY <1>4 DEF Done
  <2>2. Values' = Values /\ AllRead' = AllRead /\ Returned' = Returned
    BY <2>1 DEF vars, Values, AllRead, Canonical, Returned
  <2>3. Sorted(out)' = Sorted(out)
    BY <2>1, <2>2 DEF vars, Sorted
  <2> QED BY <2>1, <2>2, <2>3 DEF vars, FullInv, ListExact
<1> QED BY <1>2, <1>3, <1>4 DEF Next

\* The list returned holds positions of the payload, whatever the payload.
THEOREM TypeCorrect == Spec => []TypeOK
<1>1. FullInv => TypeOK
  <2> SUFFICES ASSUME FullInv PROVE TypeOK
    OBVIOUS
  <2>1. LoopTypeOK
    BY DEF FullInv, IInv
  <2>2. out \in Seq(1..Len(facts))
    <3>1. CASE ~Returned
      BY <3>1 DEF FullInv, ListExact
    <3>2. CASE Returned
      <4>1. AllRead /\ Sorted(out)
        BY <3>2 DEF FullInv, ListExact
      <4>2. Values \subseteq 1..Len(facts) /\ Cardinality(Values) \in Nat
        BY <2>1, <4>1, ValuesAre, FS_CardinalityType
      <4> DEFINE N == Cardinality(Values)
      <4>3. out \in [1..N -> Values]
        BY <4>1 DEF Sorted
      <4> HIDE DEF N
      <4>4. out \in [1..N -> 1..Len(facts)] /\ N \in Nat
        BY <4>2, <4>3 DEF N
      <4> QED BY <4>4
    <3> QED BY <3>1, <3>2
  <2> QED BY <2>1, <2>2 DEF TypeOK
<1> QED
  BY <1>1, FullInitially, FullKept, PTL DEF Spec

\* The list returned has one fact for each reported period, no other, in the
\* order of the periods' ends and then of their starts.
THEOREM AlwaysReturnedInOrder == Spec => []ReturnedInOrder
<1>1. FullInv => ReturnedInOrder
  <2> SUFFICES ASSUME FullInv, Returned PROVE ReturnedInOrder
    BY DEF ReturnedInOrder
  <2> DEFINE N == Cardinality(Values)
  <2>1. LoopTypeOK /\ AllRead /\ Sorted(out) /\ Len(facts) \in Nat
    BY FactTyped DEF FullInv, IInv, ListExact, LoopTypeOK
  <2>2. /\ N \in Nat /\ out \in [1..N -> Values] /\ Len(out) = N
        /\ \A k \in Values : \E n \in 1..N : out[n] = k
    <3>1. N \in Nat
      BY <2>1, ValuesAre, FS_CardinalityType
    <3>2. out \in [1..N -> Values] /\ \A k \in Values : \E n \in 1..N : out[n] = k
      BY <2>1, SortedLists DEF Lists
    <3> QED BY <3>1, <3>2
  <2>3. \A n \in 1..N : out[n] \in 1..Len(facts)
    BY <2>1, <2>2, ValuesAre
  <2>4. ASSUME NEW m \in 1..Len(facts)
        PROVE  \E n \in 1..N : facts[out[n]].period = facts[m].period
    <3> DEFINE p == facts[m].period
    <3>1. p \in Periods
      BY <2>1, FactFields
    <3>2. best[p] \in Values /\ facts[best[p]].period = p
      BY <2>1, <3>1 DEF AllRead, Canonical, Values
    <3>3. PICK n \in 1..N : out[n] = best[p]
      BY <2>2, <3>2
    <3> QED BY <3>2, <3>3
  <2>5. {facts[out[n]].period : n \in 1..Len(out)} = {facts[m].period : m \in 1..Len(facts)}
    BY <2>2, <2>3, <2>4
  <2>6. ASSUME NEW n \in 1..(Len(out) - 1)
        PROVE  Earlier(facts[out[n]].period, facts[out[n + 1]].period)
    <3>1. n \in DOMAIN out /\ n + 1 \in DOMAIN out /\ n < n + 1
      BY <2>2
    <3> QED BY <2>1, <3>1 DEF Sorted
  <2> QED BY <2>5, <2>6 DEF ReturnedInOrder, Earlier
<1> QED
  BY <1>1, FullInitially, FullKept, PTL DEF Spec
=============================================================================
