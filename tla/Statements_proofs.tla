------------------------- MODULE Statements_proofs --------------------------
(***************************************************************************)
(* What build_financial_model promises, for every mapping, every company   *)
(* and every number of years asked for.                                    *)
(*                                                                         *)
(* The pipeline is a sequence of stages over one model, so the inductive   *)
(* invariant IInv says at each stage exactly what has been computed: the   *)
(* series is what the anchor's facts say (Control), the columns are the    *)
(* latest years and the LTM column (ColumnsExact), a row is filled for the *)
(* columns its stage has reached (RowsExact), every cell is what the facts *)
(* and the columns before it give (CellsExact, NwcExact), and the warnings *)
(* are the disagreements met so far (WarningsExact; AnchorExact, an        *)
(* invariant beside IInv, has those of the anchor).  None of the promises  *)
(* of module Statements is inductive, all of them speak of the finished    *)
(* model; each follows from IInv by what the operators pick.               *)
(***************************************************************************)
EXTENDS Statements, SetLemmas

-----------------------------------------------------------------------------
(* operators that keep their values while company does *)

LEMMA MatchesStay ==
  ASSUME company' = company
  PROVE  \A tags, start, end : Matches(tags, start, end)' = Matches(tags, start, end)
BY DEF Matches

\* a resolved span depends on the company alone
LEMMA SpanStays ==
  ASSUME company' = company, NEW key, NEW start, NEW end
  PROVE  /\ ResolveSpan(key, start, end)' = ResolveSpan(key, start, end)
         /\ SpanDisagrees(key, start, end)' = SpanDisagrees(key, start, end)
<1>1. /\ Matches(Compose[key], start, end)' = Matches(Compose[key], start, end)
      /\ Matches(TagSet(key), start, end)' = Matches(TagSet(key), start, end)
  BY MatchesStay
<1>2. Composed(key, start, end)' = Composed(key, start, end)
  BY <1>1 DEF Composed
<1>3. ResolveSpan(key, start, end)' = ResolveSpan(key, start, end)
  BY <1>1, <1>2 DEF ResolveSpan
<1>4. SpanDisagrees(key, start, end)' = SpanDisagrees(key, start, end)
  BY <1>1 DEF SpanDisagrees
<1> QED BY <1>3, <1>4

LEMMA CoverStays ==
  ASSUME company' = company, NEW key, NEW end
  PROVE  ResolveCover(key, end)' = ResolveCover(key, end)
<1> DEFINE Near(t) == {f \in company.facts[t] :
                        IsInstant(f) /\ f.end >= end /\ f.end - end <= CoverTolerance}
           ends == {f.end : f \in UNION {Near(t) : t \in TagSet(key)}}
<1>1. ends' = ends
  OBVIOUS
<1>2. Matches(TagSet(key), NoStart, Min(ends))' = Matches(TagSet(key), NoStart, Min(ends))
  BY <1>1, MatchesStay
<1> QED BY <1>1, <1>2 DEF ResolveCover

LEMMA AnnualStay ==
  ASSUME company' = company
  PROVE  /\ AnchorFacts' = AnchorFacts
         /\ AnchorYears' = AnchorYears
         /\ \A t, fy : AnnualFacts(t, fy)' = AnnualFacts(t, fy)
         /\ \A fy : AnnualTags(fy)' = AnnualTags(fy) /\ LastAnnual(fy)' = LastAnnual(fy)
<1>1. AnchorFacts' = AnchorFacts
  BY DEF AnchorFacts
<1>2. \A f : IsFiscalYear(f)' <=> IsFiscalYear(f)
  BY DEF IsFiscalYear
<1>3. \A t, fy : AnnualFacts(t, fy)' = AnnualFacts(t, fy)
  BY <1>2 DEF AnnualFacts
<1>4. AnchorYears' = AnchorYears
  BY <1>1, <1>2 DEF AnchorYears
<1>5. \A fy : AnnualTags(fy)' = AnnualTags(fy)
  BY <1>3 DEF AnnualTags
<1>6. \A fy : LastAnnual(fy)' = LastAnnual(fy)
  BY <1>3, <1>5 DEF LastAnnual
<1> QED BY <1>1, <1>3, <1>4, <1>5, <1>6

LEMMA AxisStays ==
  ASSUME company' = company, series' = series
  PROVE  /\ Window' = Window
         /\ \A fy : PeriodOf(fy)' = PeriodOf(fy)
<1>1. Window' = Window
  BY DEF Window
<1> QED BY <1>1, AnnualStay DEF PeriodOf, FY

LEMMA StubsStay ==
  ASSUME company' = company
  PROVE  /\ \A latest : Stubs(latest)' = Stubs(latest)
         /\ \A t, stub : PriorStubs(t, stub)' = PriorStubs(t, stub)
<1>1. \A latest : Stubs(latest)' = Stubs(latest)
  BY AnnualStay DEF Stubs
<1>2. \A t, stub : PriorStubs(t, stub)' = PriorStubs(t, stub)
  BY DEF PriorStubs
<1> QED BY <1>1, <1>2

-----------------------------------------------------------------------------
(* what the operators of the model pick *)

LEMMA MinIsLeast ==
  ASSUME NEW S, S \subseteq Nat, S # {}
  PROVE  Min(S) \in S /\ \A n \in S : Min(S) <= n
BY LeastNatural DEF Min

LEMMA MaxOfTwo ==
  ASSUME NEW a \in Int, NEW b \in Int
  PROVE  Max({a, b}) = IF a < b THEN b ELSE a
<1>1. \E x \in {a, b} : \A y \in {a, b} : x >= y
  <2>1. CASE a < b
    BY <2>1
  <2>2. CASE ~(a < b)
    BY <2>2
  <2> QED BY <2>1, <2>2
<1>2. Max({a, b}) \in {a, b} /\ \A y \in {a, b} : Max({a, b}) >= y
  BY <1>1 DEF Max
<1> QED BY <1>2

LEMMA TagsOfKeys ==
  ASSUME NEW key \in Keys
  PROVE  /\ IsFiniteSet(TagSet(key))
         /\ DOMAIN Tags[key] \subseteq Nat
<1>1. Tags[key] \in Seq(STRING)
  BY MappingAssumption
<1> DEFINE n == Len(Tags[key])
<1>2. n \in Nat /\ DOMAIN Tags[key] = 1..n
  BY <1>1
<1>3. Tags[key] \in Surjection(1..n, TagSet(key))
  BY <1>1, <1>2 DEF TagSet, Surjection
<1>4. IsFiniteSet(1..n)
  BY <1>2, FS_Interval
<1> QED BY <1>2, <1>3, <1>4, FS_Surjection

\* the tag of highest priority is one of those it is taken from
LEMMA FirstTagIsOne ==
  ASSUME NEW key \in Keys, NEW tags, tags \subseteq TagSet(key), tags # {}
  PROVE  FirstTag(key, tags) \in tags
<1> DEFINE P == {n \in DOMAIN Tags[key] : Tags[key][n] \in tags}
<1>1. P \subseteq Nat /\ P # {}
  BY TagsOfKeys DEF TagSet
<1>2. Min(P) \in P
  BY <1>1, MinIsLeast
<1> QED BY <1>2 DEF FirstTag

\* what an exact match has found
LEMMA MatchesAre ==
  ASSUME NEW tags, NEW start, NEW end
  PROVE  /\ \A t : t \in DOMAIN Matches(tags, start, end)
                 <=> /\ t \in tags
                     /\ \E f \in company.facts[t] : f.start = start /\ f.end = end
         /\ \A t \in DOMAIN Matches(tags, start, end) :
              /\ Matches(tags, start, end)[t] \in company.facts[t]
              /\ Matches(tags, start, end)[t].start = start
              /\ Matches(tags, start, end)[t].end = end
BY DEF Matches

\* what the facts of one tag are
FactSet(S) ==
  /\ IsFiniteSet(S)
  /\ S \subseteq [start : Nat, end : Nat, value : Int]
  /\ \A f, g \in S : f.start = g.start /\ f.end = g.end => f = g

LEMMA FactsOfTags ==
  ASSUME company \in Companies, NEW key \in Keys, NEW t \in TagSet(key)
  PROVE  FactSet(company.facts[t])
BY CompanyAssumption DEF FactSet

LEMMA SubsetsOfFacts ==
  ASSUME NEW S, FactSet(S), NEW T, T \in SUBSET S
  PROVE  FactSet(T)
BY FS_Subset DEF FactSet

\* the first and the last fact of a set are in it: Precedes is a strict
\* order of them
LEMMA FirstAndLast ==
  ASSUME NEW S, FactSet(S), S # {}
  PROVE  FirstOf(S) \in S /\ LastOf(S) \in S
<1> DEFINE R == {p \in S \X S : Precedes(p[1], p[2])}
           n == Cardinality(S)
<1>1. Orders(R, S)
  BY DEF FactSet, Orders, Precedes
<1>2. \A f, g \in S : <<f, g>> \in R <=> Precedes(f, g)
  OBVIOUS
<1> HIDE DEF R
<1>3. PICK s : Lists(s, S, R)
  BY <1>1, Listing DEF FactSet
<1>4. n \in Nat /\ n # 0
  BY FS_CardinalityType, FS_EmptySet DEF FactSet
<1>5. s[1] \in S /\ s[n] \in S
  BY <1>3, <1>4 DEF Lists
<1>6. ASSUME NEW g \in S \ {s[1]} PROVE Precedes(s[1], g)
  <2>1. PICK m \in 1..n : s[m] = g
    BY <1>3 DEF Lists
  <2>2. 1 < m
    BY <1>4, <1>6, <2>1
  <2>3. <<s[1], s[m]>> \in R
    BY <1>3, <1>4, <2>2 DEF Lists
  <2> QED BY <1>2, <1>5, <2>1, <2>3
<1>7. ASSUME NEW g \in S \ {s[n]} PROVE Precedes(g, s[n])
  <2>1. PICK m \in 1..n : s[m] = g
    BY <1>3 DEF Lists
  <2>2. m < n
    BY <1>4, <1>7, <2>1
  <2>3. <<s[m], s[n]>> \in R
    BY <1>3, <1>4, <2>2 DEF Lists
  <2> QED BY <1>2, <1>5, <2>1, <2>3
<1> QED BY <1>5, <1>6, <1>7 DEF FirstOf, LastOf

-----------------------------------------------------------------------------
(* cells *)

CellOK(cell) == ValidProvenance(cell) /\ (IsGap(cell) <=> cell.src = {})

\* every fact of a cell reports one span
From(cell, start, end) == \A f \in cell.src : f.start = start /\ f.end = end

\* the cell made of some alternatives has the winner's one fact
LEMMA FromTagsCell ==
  ASSUME NEW key \in Keys, NEW hits, hits \subseteq TagSet(key), hits # {}, NEW fact,
         NEW cell, cell = FromTags(key, hits, fact)
  PROVE  /\ CellOK(cell) /\ ~IsGap(cell)
         /\ cell.tag \in hits /\ \A f : f \in cell.src <=> f = fact[cell.tag]
         /\ cell.mechanism # "derived"
         /\ cell.mechanism = "stitched" <=> Cardinality(hits) > 1
<1>1. FirstTag(key, hits) \in hits
  BY FirstTagIsOne
<1>2. FirstTag(key, hits) # Blank
  BY <1>1, MappingAssumption
<1> DEFINE m == IF Cardinality(hits) > 1 THEN "stitched"
                ELSE IF FirstTag(key, hits) = Tags[key][1] THEN "direct" ELSE "alternative"
<1>3. /\ cell.mechanism = m /\ cell.tag = FirstTag(key, hits)
      /\ cell.src = {fact[FirstTag(key, hits)]}
  BY DEF FromTags, CellOf
<1>4. m \in {"stitched", "direct", "alternative"} /\ (m = "stitched" <=> Cardinality(hits) > 1)
  OBVIOUS
<1> HIDE DEF m
<1> QED BY <1>1, <1>2, <1>3, <1>4 DEF CellOK, ValidProvenance, IsGap

LEMMA MissingCell == CellOK(Missing) /\ IsGap(Missing) /\ Missing.src = {}
BY DEF Missing, CellOf, CellOK, ValidProvenance, IsGap

LEMMA DerivedCell ==
  ASSUME NEW value, NEW src, src # {}, NEW cell, cell = CellOf(value, "derived", Blank, src)
  PROVE  CellOK(cell) /\ ~IsGap(cell) /\ cell.src = src
BY DEF CellOf, CellOK, ValidProvenance, IsGap

\* a cell of one span is made of facts of that span only
LEMMA SpanCell ==
  ASSUME NEW key \in Keys, NEW start, NEW end,
         NEW cell, cell = ResolveSpan(key, start, end)
  PROVE  CellOK(cell) /\ From(cell, start, end)
<1> DEFINE found == Matches(TagSet(key), start, end)
           used == Matches(Compose[key], start, end)
<1>1. CASE DOMAIN found # {}
  <2>1. cell = FromTags(key, DOMAIN found, found)
    BY <1>1 DEF ResolveSpan
  <2>2. DOMAIN found \subseteq TagSet(key)
    BY MatchesAre
  <2> HIDE DEF found
  <2>3. CellOK(cell) /\ cell.tag \in DOMAIN found /\ cell.src = {found[cell.tag]}
    BY <1>1, <2>1, <2>2, FromTagsCell
  <2> QED BY <2>3, MatchesAre DEF From, found
<1>2. CASE DOMAIN found = {} /\ DOMAIN used = {}
  <2>1. cell = Missing
    BY <1>2 DEF ResolveSpan, Composed
  <2> QED BY <2>1, MissingCell DEF From
<1>3. CASE DOMAIN found = {} /\ DOMAIN used # {}
  <2>1. cell = CellOf(Signed(key, Total(used)), "composed", Blank, {used[t] : t \in DOMAIN used})
    BY <1>3 DEF ResolveSpan, Composed
  <2>2. \A t \in DOMAIN used : used[t].start = start /\ used[t].end = end
    BY MatchesAre
  <2> HIDE DEF used
  <2> QED BY <1>3, <2>1, <2>2 DEF From, CellOf, CellOK, ValidProvenance, IsGap
<1> QED BY <1>1, <1>2, <1>3

\* a cover page cell is made of instants within the tolerance
LEMMA CoverCell ==
  ASSUME company \in Companies, NEW key \in Keys, NEW end \in Int,
         NEW cell, cell = ResolveCover(key, end)
  PROVE  /\ CellOK(cell)
         /\ cell.mechanism # "stitched" /\ cell.mechanism # "derived"
         /\ \A f \in cell.src : IsInstant(f) /\ f.end - end \in 0..CoverTolerance
<1> DEFINE Near(t) == {f \in company.facts[t] :
                        IsInstant(f) /\ f.end >= end /\ f.end - end <= CoverTolerance}
           ends == {f.end : f \in UNION {Near(t) : t \in TagSet(key)}}
           found == Matches(TagSet(key), NoStart, Min(ends))
           winner == FirstTag(key, DOMAIN found)
<1>1. CASE ends = {}
  <2>1. cell = Missing
    BY <1>1 DEF ResolveCover
  <2> QED BY <2>1, MissingCell DEF Missing, CellOf
<1>2. CASE ends # {}
  <2>1. cell = FromTags(key, {winner}, found)
    BY <1>2 DEF ResolveCover
  <2>2. ends \subseteq Nat
    <3>1. ASSUME NEW t \in TagSet(key), NEW f \in Near(t) PROVE f.end \in Nat
      <4>1. FactSet(company.facts[t]) /\ f \in company.facts[t]
        BY FactsOfTags
      <4> QED BY <4>1 DEF FactSet
    <3> QED BY <3>1
  <2>3. Min(ends) \in ends
    BY <1>2, <2>2, MinIsLeast
  <2>4. PICK t \in TagSet(key) : \E f \in Near(t) : f.end = Min(ends)
    BY <2>3
  <2>5. PICK f \in Near(t) : f.end = Min(ends)
    BY <2>4
  <2>6. /\ f \in company.facts[t] /\ f.start = NoStart
        /\ Min(ends) >= end /\ Min(ends) - end <= CoverTolerance
    BY <2>5 DEF IsInstant
  <2>7. Min(ends) \in Int
    BY <2>2, <2>3
  <2> HIDE DEF ends
  <2>8. t \in DOMAIN found /\ DOMAIN found \subseteq TagSet(key)
    BY <2>5, <2>6, MatchesAre
  <2>9. winner \in DOMAIN found
    BY <2>8, FirstTagIsOne
  <2>10. found[winner].start = NoStart /\ found[winner].end = Min(ends)
    BY <2>9, MatchesAre
  <2> DEFINE one == {winner}
  <2>11. one \subseteq TagSet(key) /\ one # {}
    BY <2>8, <2>9
  <2>12. Cardinality(one) = 1 /\ \A t2 \in one : t2 = winner
    BY FS_Singleton
  <2> HIDE DEF found, winner, one
  <2>13. cell = FromTags(key, one, found)
    BY <2>1 DEF one
  <2>14. /\ CellOK(cell) /\ cell.tag \in one
         /\ \A g : g \in cell.src <=> g = found[cell.tag]
         /\ cell.mechanism # "derived"
         /\ cell.mechanism = "stitched" <=> Cardinality(one) > 1
    BY <2>11, <2>13, FromTagsCell
  <2> QED BY <2>6, <2>7, <2>10, <2>12, <2>14, CalendarAssumption DEF IsInstant
<1> QED BY <1>1, <1>2

-----------------------------------------------------------------------------
(* the annual series and the axis *)

\* what ResolveAnchor makes of the anchor's facts
SeriesExact ==
  series = [fy \in AnchorYears |-> FromTags(Anchor, AnnualTags(fy), LastAnnual(fy))]

LEMMA AnchorIsKey == Anchor \in Keys
BY DEF Keys

\* an annual fact is no instant and ends in its fiscal year
LEMMA YearFacts ==
  ASSUME company \in Companies, NEW t \in TagSet(Anchor), NEW fy, NEW f \in AnnualFacts(t, fy)
  PROVE  /\ f \in company.facts[t]
         /\ f.start \in Nat /\ f.end \in Nat /\ f.start < f.end /\ f.start # NoStart
         /\ FiscalYear(f.end) = fy
<1>1. f \in company.facts[t] /\ IsAnnual(f) /\ FiscalYear(f.end) = fy
  BY DEF AnnualFacts, IsFiscalYear
<1>2. f \in [start : Nat, end : Nat, value : Int]
  BY <1>1, FactsOfTags, AnchorIsKey DEF FactSet
<1>3. AnnualMin \in Nat /\ AnnualMin > 0
  BY CalendarAssumption
<1> QED BY <1>1, <1>2, <1>3 DEF IsAnnual, IsInstant, Days

LEMMA AnnualFactSet ==
  ASSUME company \in Companies, NEW t \in TagSet(Anchor), NEW fy
  PROVE  FactSet(AnnualFacts(t, fy))
<1>1. AnnualFacts(t, fy) \in SUBSET company.facts[t]
  BY DEF AnnualFacts
<1> QED BY <1>1, FactsOfTags, AnchorIsKey, SubsetsOfFacts

\* a year is in the series exactly when some tag reports it
LEMMA YearsReported ==
  ASSUME NEW fy
  PROVE  /\ fy \in AnchorYears <=> AnnualTags(fy) # {}
         /\ \A t : t \in AnnualTags(fy) <=> t \in TagSet(Anchor) /\ AnnualFacts(t, fy) # {}
<1>1. fy \in AnchorYears <=> \E t \in TagSet(Anchor) : \E f \in company.facts[t] :
                               IsFiscalYear(f) /\ FiscalYear(f.end) = fy
  BY DEF AnchorYears, AnchorFacts
<1>2. \A t : t \in AnnualTags(fy) <=> t \in TagSet(Anchor) /\ AnnualFacts(t, fy) # {}
  BY DEF AnnualTags
<1>3. \A t : AnnualFacts(t, fy) # {} <=> \E f \in company.facts[t] :
                               IsFiscalYear(f) /\ FiscalYear(f.end) = fy
  BY DEF AnnualFacts
<1> QED BY <1>1, <1>2, <1>3

\* the anchor's cell of a year holds the last fact of the winning tag
LEMMA SeriesCell ==
  ASSUME company \in Companies, SeriesExact, NEW fy \in AnchorYears,
         NEW cell, cell = series[fy]
  PROVE  /\ CellOK(cell) /\ ~IsGap(cell) /\ cell.mechanism # "derived"
         /\ cell.tag \in TagSet(Anchor)
         /\ AnnualFacts(cell.tag, fy) # {}
         /\ cell.src = {LastOf(AnnualFacts(cell.tag, fy))}
<1>1. cell = FromTags(Anchor, AnnualTags(fy), LastAnnual(fy))
  BY DEF SeriesExact
<1>2. AnnualTags(fy) # {} /\ AnnualTags(fy) \subseteq TagSet(Anchor)
  BY YearsReported
<1>3. /\ CellOK(cell) /\ ~IsGap(cell) /\ cell.tag \in AnnualTags(fy)
      /\ cell.src = {LastAnnual(fy)[cell.tag]}
      /\ cell.mechanism # "derived"
  BY <1>1, <1>2, AnchorIsKey, FromTagsCell
<1>4. LastAnnual(fy)[cell.tag] = LastOf(AnnualFacts(cell.tag, fy))
  BY <1>3 DEF LastAnnual
<1> QED BY <1>2, <1>3, <1>4, YearsReported

\* the dates of a column are those of the first fact of the winning tag
LEMMA PeriodOfYear ==
  ASSUME company \in Companies, SeriesExact, NEW fy \in AnchorYears
  PROVE  /\ FirstOf(AnnualFacts(series[fy].tag, fy)) \in AnnualFacts(series[fy].tag, fy)
         /\ PeriodOf(fy).label = FY(fy) /\ ~PeriodOf(fy).ltm
         /\ PeriodOf(fy).start = FirstOf(AnnualFacts(series[fy].tag, fy)).start
         /\ PeriodOf(fy).end = FirstOf(AnnualFacts(series[fy].tag, fy)).end
         /\ PeriodOf(fy).start \in Nat /\ PeriodOf(fy).end \in Nat
         /\ PeriodOf(fy).start < PeriodOf(fy).end /\ PeriodOf(fy).start # NoStart
         /\ FiscalYear(PeriodOf(fy).end) = fy
<1> DEFINE tag == series[fy].tag
           f == FirstOf(AnnualFacts(tag, fy))
<1>1. tag \in TagSet(Anchor) /\ AnnualFacts(tag, fy) # {}
  BY SeriesCell
<1>2. f \in AnnualFacts(tag, fy)
  BY <1>1, AnnualFactSet, FirstAndLast
<1>3. /\ PeriodOf(fy).label = FY(fy) /\ ~PeriodOf(fy).ltm
      /\ PeriodOf(fy).start = f.start /\ PeriodOf(fy).end = f.end
  BY DEF PeriodOf
<1> HIDE DEF tag, f
<1>4. /\ f.start \in Nat /\ f.end \in Nat /\ f.start < f.end /\ f.start # NoStart
      /\ FiscalYear(f.end) = fy
  BY <1>1, <1>2, YearFacts
<1> QED BY <1>2, <1>3, <1>4 DEF f, tag

\* a filer reports finitely many years
LEMMA AnchorYearsFinite ==
  ASSUME company \in Companies
  PROVE  IsFiniteSet(AnchorYears) /\ AnchorYears \subseteq Nat
<1> DEFINE facts == [t \in TagSet(Anchor) |-> company.facts[t]]
           sets == {company.facts[t] : t \in TagSet(Anchor)}
           years == {g \in AnchorFacts : IsFiscalYear(g)}
           year == [f \in years |-> FiscalYear(f.end)]
<1>1. IsFiniteSet(sets)
  <2>1. facts \in Surjection(TagSet(Anchor), sets)
    BY DEF Surjection
  <2> HIDE DEF facts, sets
  <2> QED BY <2>1, TagsOfKeys, AnchorIsKey, FS_Surjection
<1>2. \A S \in sets : FactSet(S)
  BY FactsOfTags, AnchorIsKey
<1>3. AnchorFacts = UNION sets
  BY DEF AnchorFacts
<1> HIDE DEF sets
<1>4. IsFiniteSet(AnchorFacts)
  BY <1>1, <1>2, <1>3, FS_UNION DEF FactSet
<1>5. years \in SUBSET AnchorFacts
  OBVIOUS
<1>6. year \in Surjection(years, AnchorYears)
  BY DEF Surjection, AnchorYears
<1>7. \A f \in AnchorFacts : f.end \in Nat
  BY <1>2, <1>3 DEF FactSet
<1>8. \A fy \in AnchorYears : \E f \in AnchorFacts : fy = FiscalYear(f.end)
  BY DEF AnchorYears
<1> HIDE DEF years, year
<1>9. IsFiniteSet(years)
  BY <1>4, <1>5, FS_Subset
<1>10. \A n \in Nat : FiscalYear(n) \in Nat
  BY CalendarAssumption DEF FiscalYear
<1> QED BY <1>6, <1>7, <1>8, <1>9, <1>10, FS_Surjection

\* the years of the axis, first to last
AxisYears ==
  CHOOSE s \in [1..Cardinality(Window) -> Window] : \A m, n \in DOMAIN s : m < n => s[m] < s[n]
Columns == Cardinality(Window)
Axis == [n \in 1..Columns |-> PeriodOf(AxisYears[n])]
YearLabels == {FY(fy) : fy \in Window}

\* the window is the latest years, all of them or as many as asked for
LEMMA WindowIsLatest ==
  ASSUME company \in Companies, SeriesExact
  PROVE  /\ DOMAIN series = AnchorYears
         /\ Window \subseteq AnchorYears /\ IsFiniteSet(Window)
         /\ Columns \in Nat /\ Columns <= HistoricalYears
         /\ Window = AnchorYears \/ Columns = HistoricalYears
         /\ \A y \in Window : \A z \in AnchorYears \ Window : z < y
<1> DEFINE S == AnchorYears
<1>1. DOMAIN series = S
  BY DEF SeriesExact
<1>2. S \subseteq Nat /\ IsFiniteSet(S)
  BY AnchorYearsFinite
<1>3. HistoricalYears \in Nat /\ HistoricalYears > 0
  BY MappingAssumption
<1>4. Window = LatestOf(S, HistoricalYears) /\ Window \subseteq S
  BY <1>1 DEF Window, LatestOf
<1> HIDE DEF S
<1>5. /\ IsFiniteSet(Window) /\ Cardinality(Window) <= HistoricalYears
      /\ Window = S \/ Cardinality(Window) = HistoricalYears
      /\ \A y \in Window, z \in S \ Window : z < y
  BY <1>2, <1>3, <1>4, Latest
<1> QED BY <1>1, <1>4, <1>5, FS_CardinalityType DEF Columns, S

\* the years of the axis are those of the window, in order
LEMMA AxisInOrder ==
  ASSUME company \in Companies, SeriesExact
  PROVE  /\ AxisYears \in [1..Columns -> Window]
         /\ \A m, n \in 1..Columns : m < n => AxisYears[m] < AxisYears[n]
         /\ \A fy \in Window : \E n \in 1..Columns : AxisYears[n] = fy
<1> DEFINE S == Window
           R == {p \in S \X S : p[1] < p[2]}
           P(s) == s \in [1..Cardinality(S) -> S]
                   /\ \A m, n \in DOMAIN s : m < n => s[m] < s[n]
<1>1. S \subseteq Nat /\ IsFiniteSet(S) /\ Cardinality(S) \in Nat
  BY WindowIsLatest, AnchorYearsFinite DEF Columns
<1>2. Orders(R, S)
  <2>1. \A x, y \in S : <<x, y>> \in R <=> x < y
    OBVIOUS
  <2> HIDE DEF R
  <2> QED BY <1>1, <2>1 DEF Orders
<1>3. \A x, y \in S : <<x, y>> \in R => x < y
  OBVIOUS
<1>4. AxisYears = CHOOSE s \in [1..Cardinality(S) -> S] :
                    \A m, n \in DOMAIN s : m < n => s[m] < s[n]
  BY DEF AxisYears
<1> HIDE DEF R, S
<1>5. PICK s : Lists(s, S, R)
  BY <1>1, <1>2, Listing
<1>6. P(s)
  BY <1>3, <1>5 DEF Lists
<1>7. P(AxisYears)
  <2>1. \E x \in [1..Cardinality(S) -> S] : \A m, n \in DOMAIN x : m < n => x[m] < x[n]
    BY <1>6
  <2> QED BY <1>4, <2>1
<1> HIDE DEF P
<1>8. /\ AxisYears \in [1..Cardinality(S) -> S]
      /\ \A m, n \in 1..Cardinality(S) : m < n => AxisYears[m] < AxisYears[n]
  BY <1>7 DEF P
<1>9. \A m, n \in 1..Cardinality(S) : m < n => <<AxisYears[m], AxisYears[n]>> \in R
  BY <1>8 DEF R
<1>10. Lists(AxisYears, S, R)
  BY <1>1, <1>2, <1>8, <1>9, Increasing
<1> QED BY <1>8, <1>10 DEF Lists, Columns, S

\* a column for every year of the window and no two with one label
LEMMA AxisColumns ==
  ASSUME company \in Companies, SeriesExact
  PROVE  /\ Axis \in Seq({PeriodOf(fy) : fy \in Window}) /\ Len(Axis) = Columns
         /\ \A n \in 1..Columns : /\ AxisYears[n] \in Window /\ Axis[n] = PeriodOf(AxisYears[n])
                                  /\ Axis[n].label = FY(AxisYears[n])
         /\ \A m, n \in 1..Columns : Axis[m].label = Axis[n].label => m = n
         /\ \A l : l \in Labels(Axis) <=> l \in YearLabels
<1>1. Columns \in Nat /\ Window \subseteq AnchorYears
  BY WindowIsLatest
<1>2. AxisYears \in [1..Columns -> Window]
  BY AxisInOrder
<1>3. Axis \in [1..Columns -> {PeriodOf(fy) : fy \in Window}]
  BY <1>2 DEF Axis
<1>4. Axis \in Seq({PeriodOf(fy) : fy \in Window}) /\ Len(Axis) = Columns
  BY <1>1, <1>3
<1>5. \A n \in 1..Columns : AxisYears[n] \in Window /\ Axis[n] = PeriodOf(AxisYears[n])
  BY <1>2 DEF Axis
<1>6. \A n \in 1..Columns : Axis[n].label = FY(AxisYears[n])
  BY <1>1, <1>5, PeriodOfYear
<1>7. ASSUME NEW m \in 1..Columns, NEW n \in 1..Columns, Axis[m].label = Axis[n].label
      PROVE  m = n
  <2>1. AxisYears[m] = AxisYears[n]
    BY <1>6, <1>7 DEF FY
  <2>2. AxisYears[m] \in Nat
    BY <1>1, <1>2, AnchorYearsFinite
  <2> QED BY <1>1, <2>1, <2>2, AxisInOrder
<1>8. ASSUME NEW l PROVE l \in Labels(Axis) <=> l \in YearLabels
  <2>1. l \in Labels(Axis) <=> \E n \in 1..Columns : l = Axis[n].label
    BY <1>1, <1>4 DEF Labels, Axis
  <2>2. l \in YearLabels <=> \E fy \in Window : l = FY(fy)
    BY DEF YearLabels
  <2>3. \A fy \in Window : \E n \in 1..Columns : AxisYears[n] = fy
    BY AxisInOrder
  <2> QED BY <1>5, <1>6, <2>1, <2>2, <2>3
<1> QED BY <1>4, <1>5, <1>6, <1>7, <1>8

LEMMA AxisUnchanged ==
  ASSUME company' = company, series' = series
  PROVE  /\ Axis' = Axis /\ AxisYears' = AxisYears /\ Columns' = Columns
         /\ YearLabels' = YearLabels
<1>1. Window' = Window /\ \A fy : PeriodOf(fy)' = PeriodOf(fy)
  BY AxisStays
<1>2. AxisYears' = AxisYears /\ Columns' = Columns /\ YearLabels' = YearLabels
  BY <1>1 DEF AxisYears, Columns, YearLabels, FY
<1>3. \A n : PeriodOf(AxisYears[n])' = PeriodOf(AxisYears[n])
  BY <1>2, AxisStays DEF PeriodOf
<1> QED BY <1>1, <1>2, <1>3 DEF Axis

-----------------------------------------------------------------------------
(* the inductive invariant *)

Nwc == "change_in_nwc"
Sheet == {"total_liabilities", "total_assets", "total_equity"}

BeforeAxis == {"anchor", "classify", "axis"}
BeforeLtm == BeforeAxis \cup {"fill", "derive", "ltm"}
Final == {"debt", "assemble", "done"}

\* The control: the series is what the anchor's facts say, and a finished
\* model is never rejected.
Control ==
  /\ company \in Companies
  /\ item \in 1..Len(Items) /\ (stage \notin {"fill", "fill_ltm"} => item = 1)
  /\ stage \in BeforeLtm \cup {"fill_ltm", "finish_ltm"} \cup Final
  /\ stage # "anchor" => SeriesExact

\* spans and last column are those of a stub of the running year and of the
\* one before, for both of which the anchor has a value
Genuine ==
  \E this \in Stubs(LatestFy), tag \in TagSet(Anchor) : \E prior \in PriorStubs(tag, this) :
    /\ spans = <<Span(this), Span(prior)>>
    /\ Ltm = LtmPeriod(this)
    /\ ~IsGap(ResolveSpan(Anchor, this.start, this.end))
    /\ ~IsGap(ResolveSpan(Anchor, prior.start, prior.end))

LtmAppended ==
  /\ Columns > 0
  /\ periods = Append(Axis, Ltm)
  /\ Genuine \/ (spans = <<>> /\ Ltm = Fallback(LatestFy))

\* The columns: the axis, and one more once the LTM column is there.
ColumnsExact ==
  /\ stage \in BeforeAxis => periods = <<>>
  /\ stage \in {"fill", "derive", "ltm"} => periods = Axis
  /\ stage \in BeforeLtm => spans = <<>>
  /\ stage = "ltm" => Columns > 0
  /\ stage \in {"fill_ltm", "finish_ltm"} => LtmAppended
  /\ stage \in Final => LtmAppended \/ (Columns = 0 /\ periods = <<>> /\ spans = <<>>)

ItemsBefore(n) == {Items[m] : m \in 1..(n - 1)}
AllItems == {Items[n] : n \in DOMAIN Items}

\* the items with cells for the years, and those with one for the LTM column
FilledKeys ==
  CASE stage \in BeforeAxis -> {}
    [] stage = "fill" -> {Anchor} \cup ItemsBefore(item)
    [] stage = "derive" -> Keys
    [] OTHER -> Keys \cup {Nwc}
LtmKeys ==
  CASE stage = "fill_ltm" -> ItemsBefore(item)
    [] stage = "finish_ltm" -> AllItems
    [] stage \in Final /\ periods # <<>> -> Keys \cup {Nwc}
    [] OTHER -> {}

\* Every row has the cells of the columns it was filled for.
RowsExact ==
  /\ DOMAIN cells = Keys \cup {Nwc}
  /\ \A key \in DOMAIN cells :
       DOMAIN cells[key] = (IF key \in FilledKeys THEN YearLabels ELSE {})
                             \cup (IF key \in LtmKeys THEN {Ltm.label} ELSE {})

\* what a column of the axis and the LTM column hold before and after the
\* balance sheet is closed
Balance(cell, assets, equity) ==
  IF IsGap(cell) /\ ~IsGap(assets) /\ ~IsGap(equity)
  THEN CellOf(assets.value - equity.value, "derived", Blank, assets.src \cup equity.src)
  ELSE cell
IsBackfilled(key) == key = "total_liabilities" /\ Sheet \subseteq Keys
YearCell(key, fy) == IF key = Anchor THEN series[fy] ELSE Fill(key, PeriodOf(fy))
ClosedYearCell(key, fy) ==
  IF IsBackfilled(key)
  THEN Balance(YearCell(key, fy), YearCell("total_assets", fy), YearCell("total_equity", fy))
  ELSE YearCell(key, fy)
ClosedLtmCell(key) ==
  IF IsBackfilled(key)
  THEN Balance(LtmCell(key), LtmCell("total_assets"), LtmCell("total_equity"))
  ELSE LtmCell(key)

\* Every cell is what the company's facts, and the columns before it, say.
CellsExact ==
  /\ \A key \in FilledKeys \cap Keys : \A fy \in Window :
       cells[key][FY(fy)] = IF stage \in {"fill", "derive"} THEN YearCell(key, fy)
                            ELSE ClosedYearCell(key, fy)
  /\ \A key \in LtmKeys \cap Keys :
       cells[key][Ltm.label] = IF stage \in Final THEN ClosedLtmCell(key) ELSE LtmCell(key)
NwcExact ==
  /\ stage \notin BeforeAxis \cup {"fill", "derive"} =>
       \A n \in 1..Columns :
         cells[Nwc][Axis[n].label] =
           IF n = 1 THEN Missing ELSE ChangeInNwc(cells, Axis[n].label, Axis[n - 1].label)
  /\ stage \in Final /\ periods # <<>> => cells[Nwc][Ltm.label] = LtmNwc(cells)

\* an item's tags disagree about a column it has been filled for
Raised(key, label) ==
  \/ key \in FilledKeys /\ \E fy \in Window : label = FY(fy) /\ FillDisagrees(key, PeriodOf(fy))
  \/ /\ key \in LtmKeys /\ label = Ltm.label
     /\ IsCaseA /\ Kind[key] = "instant" /\ SpanDisagrees(key, NoStart, Ltm.end)
HistoryCodes == {"NON_USD", "REGISTRANT_CHANGE_SUSPECTED", "THIN_HISTORY"}

\* The warnings are exactly the disagreements met so far and what the length
\* of the history calls for.
WarningsExact ==
  /\ \A w \in warnings : w.code \in Codes
  /\ \A w \in warnings :
       w.code = "STITCH_DISAGREEMENT" /\ w.key \in Keys \ {Anchor} =>
         w = Disagreement(w.key, w.label) /\ Raised(w.key, w.label)
  /\ \A key \in Keys \ {Anchor} : \A label \in YearLabels \cup Labels(periods) :
       Raised(key, label) => Disagreement(key, label) \in warnings
  /\ \A code \in HistoryCodes : (\E w \in warnings : w.code = code) <=>
       stage \notin {"anchor", "classify"} /\ code \in HistoryWarnings(Cardinality(DOMAIN series))

IInv == Control /\ ColumnsExact /\ RowsExact /\ CellsExact /\ NwcExact /\ WarningsExact

-----------------------------------------------------------------------------
(* operators that keep their values while company and series do *)

LEMMA FillStays ==
  ASSUME company' = company, series' = series, NEW key, NEW fy
  PROVE  /\ YearCell(key, fy)' = YearCell(key, fy)
         /\ FillDisagrees(key, PeriodOf(fy))' = FillDisagrees(key, PeriodOf(fy))
<1> DEFINE p == PeriodOf(fy)
<1>1. p' = p
  BY AxisStays
<1>2. /\ ResolveCover(key, p.end)' = ResolveCover(key, p.end)
      /\ ResolveSpan(key, NoStart, p.end)' = ResolveSpan(key, NoStart, p.end)
      /\ ResolveSpan(key, p.start, p.end)' = ResolveSpan(key, p.start, p.end)
      /\ SpanDisagrees(key, NoStart, p.end)' = SpanDisagrees(key, NoStart, p.end)
      /\ SpanDisagrees(key, p.start, p.end)' = SpanDisagrees(key, p.start, p.end)
  BY <1>1, SpanStays, CoverStays
<1>3. Fill(key, p)' = Fill(key, p)
  BY <1>1, <1>2 DEF Fill
<1>4. FillDisagrees(key, p)' = FillDisagrees(key, p)
  BY <1>1, <1>2 DEF FillDisagrees
<1> QED BY <1>3, <1>4 DEF YearCell

LEMMA ClosedStays ==
  ASSUME company' = company, series' = series, NEW key, NEW fy
  PROVE  ClosedYearCell(key, fy)' = ClosedYearCell(key, fy)
BY FillStays DEF ClosedYearCell, Balance

LEMMA LtmCellStays ==
  ASSUME company' = company, periods' = periods, spans' = spans, NEW key,
         cells'[key][LatestFy.label] = cells[key][LatestFy.label]
  PROVE  LtmCell(key)' = LtmCell(key)
<1>1. Ltm' = Ltm /\ LatestFy' = LatestFy
  BY DEF Ltm, LatestFy
<1>2. /\ ResolveCover(key, Ltm.end)' = ResolveCover(key, Ltm.end)
      /\ ResolveSpan(key, NoStart, Ltm.end)' = ResolveSpan(key, NoStart, Ltm.end)
      /\ ResolveSpan(key, spans[1].start, spans[1].end)' = ResolveSpan(key, spans[1].start, spans[1].end)
      /\ ResolveSpan(key, spans[2].start, spans[2].end)' = ResolveSpan(key, spans[2].start, spans[2].end)
  BY <1>1, SpanStays, CoverStays
<1> QED BY <1>1, <1>2 DEF LtmCell, IsCaseA

LEMMA ControlStays ==
  ASSUME IInv, company' = company, series' = series, stage # "anchor",
         item' \in 1..Len(Items), stage' \notin {"fill", "fill_ltm"} => item' = 1,
         stage' \in BeforeLtm \cup {"fill_ltm", "finish_ltm"} \cup Final
  PROVE  Control'
<1>1. AnchorYears' = AnchorYears
      /\ \A fy : AnnualTags(fy)' = AnnualTags(fy) /\ LastAnnual(fy)' = LastAnnual(fy)
  BY AnnualStay
<1>2. \A fy : FromTags(Anchor, AnnualTags(fy), LastAnnual(fy))'
               = FromTags(Anchor, AnnualTags(fy), LastAnnual(fy))
  BY <1>1 DEF FromTags
<1>3. SeriesExact'
  BY <1>1, <1>2 DEF IInv, Control, SeriesExact
<1> QED BY <1>3 DEF IInv, Control

\* a step that leaves the columns alone and the model on the same side of
\* the stages that make them
LEMMA LtmStays ==
  ASSUME LtmAppended, company' = company, series' = series, UNCHANGED <<periods, spans>>
  PROVE  LtmAppended'
<1>1. /\ Axis' = Axis /\ Columns' = Columns /\ Ltm' = Ltm /\ LatestFy' = LatestFy
      /\ Stubs(LatestFy)' = Stubs(LatestFy)
  BY AxisUnchanged, StubsStay DEF Ltm, LatestFy
<1>2. Genuine' = Genuine
  BY <1>1, StubsStay, SpanStays DEF Genuine
<1> QED BY <1>1, <1>2 DEF LtmAppended

-----------------------------------------------------------------------------
(* the first stages *)

LEMMA ItemsAre == Len(Items) \in Nat /\ Len(Items) > 0 /\ DOMAIN Items = 1..Len(Items)
BY MappingAssumption

\* one turn of a loop over the items
LEMMA NextItemStep ==
  ASSUME item \in 1..Len(Items), NEW from, NEW to, NextItem(from, to)
  PROVE  /\ stage = from /\ Items[item] \in Keys /\ Items[item] # Anchor
         /\ Items[item] \notin {Nwc}
         /\ item' \in 1..Len(Items)
         /\ item = Len(Items) => /\ stage' = to /\ item' = 1
                                /\ AllItems = ItemsBefore(item) \cup {Items[item]}
         /\ item # Len(Items) => /\ stage' = from
                                /\ ItemsBefore(item') = ItemsBefore(item) \cup {Items[item]}
         /\ ItemsBefore(item) \subseteq AllItems
<1>1. Items[item] \in Keys /\ Items[item] # Anchor /\ Items[item] # Nwc
  BY ItemsAre, MappingAssumption DEF Keys, Nwc
<1>2. item \in Nat /\ item >= 1 /\ item <= Len(Items) /\ Len(Items) \in Nat
  BY ItemsAre
<1>3. \A m : m \in 1..item <=> m \in 1..(item - 1) \/ m = item
  BY <1>2
<1>4. {Items[m] : m \in 1..item} = ItemsBefore(item) \cup {Items[item]}
  BY <1>3 DEF ItemsBefore
<1>5. ItemsBefore(item) \subseteq AllItems
  BY <1>2, ItemsAre DEF ItemsBefore, AllItems
<1>6. CASE item = Len(Items)
  <2>1. item' = 1 /\ stage' = to /\ 1 \in 1..Len(Items)
    BY <1>2, <1>6 DEF NextItem
  <2>2. AllItems = {Items[m] : m \in 1..item}
    BY <1>6, ItemsAre DEF AllItems
  <2> QED BY <1>1, <1>4, <1>5, <1>6, <2>1, <2>2 DEF NextItem
<1>7. CASE item # Len(Items)
  <2>1. item' = item + 1 /\ stage' = from
    BY <1>7 DEF NextItem
  <2>2. item + 1 <= Len(Items)
    BY <1>2, <1>7
  <2>3. item + 1 \in 1..Len(Items) /\ (item + 1) - 1 = item
    BY <1>2, <2>2
  <2>4. ItemsBefore(item') = {Items[m] : m \in 1..item}
    BY <2>1, <2>3 DEF ItemsBefore
  <2> QED BY <1>1, <1>4, <1>5, <1>7, <2>1, <2>3, <2>4 DEF NextItem
<1> QED BY <1>6, <1>7

\* until the axis is built nothing is filled
LEMMA NothingFilled ==
  ASSUME stage \in BeforeAxis
  PROVE  FilledKeys = {} /\ LtmKeys = {}
BY DEF BeforeAxis, FilledKeys, LtmKeys, Final

\* the invariant holds at first
LEMMA InitHolds == Init => IInv
<1> SUFFICES ASSUME Init PROVE IInv
  OBVIOUS
<1> USE DEF Init, BeforeAxis
<1>1. FilledKeys = {} /\ LtmKeys = {}
  BY NothingFilled
<1>2. Control
  BY ItemsAre DEF Control, BeforeLtm
<1>3. ColumnsExact
  BY DEF ColumnsExact, BeforeLtm, Final
<1>4. RowsExact
  BY <1>1 DEF RowsExact, Nwc
<1>5. CellsExact /\ NwcExact
  BY <1>1 DEF CellsExact, NwcExact, Final
<1>6. WarningsExact
  BY <1>1 DEF WarningsExact, Raised
<1> QED BY <1>2, <1>3, <1>4, <1>5, <1>6 DEF IInv

\* _resolve_annual_series keeps the invariant
LEMMA ResolveAnchorKeeps == IInv /\ ResolveAnchor => IInv'
<1> SUFFICES ASSUME IInv, ResolveAnchor PROVE IInv'
  OBVIOUS
<1>1. /\ stage = "anchor" /\ stage' = "classify"
      /\ UNCHANGED <<company, item, periods, cells, spans>>
  BY DEF ResolveAnchor
<1>2. FilledKeys = {} /\ LtmKeys = {} /\ FilledKeys' = {} /\ LtmKeys' = {}
  BY <1>1, NothingFilled DEF BeforeAxis, FilledKeys, LtmKeys, Final
<1>3. Control'
  <2>1. AnchorYears' = AnchorYears
        /\ \A fy : AnnualTags(fy)' = AnnualTags(fy) /\ LastAnnual(fy)' = LastAnnual(fy)
    BY <1>1, AnnualStay
  <2>2. \A fy : FromTags(Anchor, AnnualTags(fy), LastAnnual(fy))'
                 = FromTags(Anchor, AnnualTags(fy), LastAnnual(fy))
    BY <2>1 DEF FromTags
  <2>3. SeriesExact'
    BY <2>1, <2>2 DEF ResolveAnchor, SeriesExact
  <2> QED BY <1>1, <2>3 DEF IInv, Control, BeforeLtm, BeforeAxis
<1>4. ColumnsExact'
  BY <1>1 DEF IInv, ColumnsExact, BeforeLtm, BeforeAxis, Final
<1>5. RowsExact'
  BY <1>1, <1>2 DEF IInv, RowsExact
<1>6. CellsExact' /\ NwcExact'
  BY <1>1, <1>2 DEF CellsExact, NwcExact, BeforeAxis, Final
<1>7. WarningsExact'
  <2>1. \A w \in warnings' : w.code = "STITCH_DISAGREEMENT" /\ w.key = Anchor
    BY DEF ResolveAnchor, Disagreement
  <2>2. \A code \in HistoryCodes : code # "STITCH_DISAGREEMENT"
    BY DEF HistoryCodes
  <2> QED BY <1>1, <1>2, <2>1, <2>2 DEF WarningsExact, Raised, Codes
<1> QED BY <1>3, <1>4, <1>5, <1>6, <1>7 DEF IInv

\* so do the warnings about the registrant
LEMMA ClassifyKeeps == IInv /\ Classify => IInv'
<1> SUFFICES ASSUME IInv, Classify PROVE IInv'
  OBVIOUS
<1>1. /\ stage = "classify" /\ stage' = "axis"
      /\ UNCHANGED <<company, item, series, periods, cells, spans>>
  BY DEF Classify
<1>2. FilledKeys = {} /\ LtmKeys = {} /\ FilledKeys' = {} /\ LtmKeys' = {}
  BY <1>1, NothingFilled DEF BeforeAxis, FilledKeys, LtmKeys, Final
<1>3. Control'
  BY <1>1, ControlStays DEF IInv, Control, BeforeLtm, BeforeAxis
<1>4. ColumnsExact'
  BY <1>1 DEF IInv, ColumnsExact, BeforeLtm, BeforeAxis, Final
<1>5. RowsExact'
  BY <1>1, <1>2 DEF IInv, RowsExact
<1>6. CellsExact' /\ NwcExact'
  BY <1>1, <1>2 DEF CellsExact, NwcExact, BeforeAxis, Final
<1>7. WarningsExact'
  <2> DEFINE years == Cardinality(DOMAIN series)
             codes == HistoryWarnings(years)
                        \cup (IF company.financial THEN {"FINANCIAL_SECTOR"} ELSE {})
  <2>1. warnings' = warnings \cup {Warning(code) : code \in codes}
    BY DEF Classify
  <2>2. HistoryWarnings(years)' = HistoryWarnings(years)
    BY <1>1 DEF HistoryWarnings
  <2>3. \A code \in HistoryWarnings(years) : code \in HistoryCodes
    BY DEF HistoryWarnings, HistoryCodes
  <2>4. \A code \in HistoryCodes \cup {"FINANCIAL_SECTOR"} :
          code \in Codes /\ code # "STITCH_DISAGREEMENT"
    BY DEF HistoryCodes, Codes
  <2>5. "FINANCIAL_SECTOR" \notin HistoryCodes
    BY DEF HistoryCodes
  <2>6. \A code \in codes : code \in Codes /\ code # "STITCH_DISAGREEMENT"
    BY <2>3, <2>4
  <2>7. \A code \in HistoryCodes : code \in codes <=> code \in HistoryWarnings(years)
    BY <2>5
  <2> HIDE DEF codes, years
  <2>8. \A w \in warnings' : w \in warnings \/ \E code \in codes : w = Warning(code)
    BY <2>1
  <2>9. \A code : Warning(code).code = code
    BY DEF Warning
  <2>10. \A code \in HistoryCodes : (\E w \in warnings' : w.code = code) <=> code \in codes
    <3>1. \A w \in warnings : w.code \notin HistoryCodes
      BY <1>1 DEF IInv, WarningsExact
    <3> QED BY <2>1, <2>8, <2>9, <3>1
  <2>11. \A w \in warnings' : w.code \in Codes
    BY <2>6, <2>8, <2>9 DEF IInv, WarningsExact
  <2>12. \A w \in warnings' : w.code = "STITCH_DISAGREEMENT" => w.key \notin Keys \ {Anchor}
    <3>1. \A w \in warnings : w.code = "STITCH_DISAGREEMENT" => w.key \notin Keys \ {Anchor}
      BY <1>2 DEF IInv, WarningsExact, Raised
    <3> QED BY <2>6, <2>8, <2>9, <3>1
  <2> QED BY <1>1, <1>2, <2>2, <2>7, <2>10, <2>11, <2>12 DEF WarningsExact, Raised, years
<1> QED BY <1>3, <1>4, <1>5, <1>6, <1>7 DEF IInv

-----------------------------------------------------------------------------
(* the axis and the items of the first loop *)

\* building the period axis keeps it
LEMMA BuildAxisKeeps == IInv /\ BuildAxis => IInv'
<1> SUFFICES ASSUME IInv, BuildAxis PROVE IInv'
  OBVIOUS
<1>1. /\ stage = "axis" /\ stage' = "fill"
      /\ UNCHANGED <<company, item, series, spans, warnings>>
  BY DEF BuildAxis
<1>2. company \in Companies /\ SeriesExact /\ item = 1 /\ item \in 1..Len(Items)
  BY <1>1 DEF IInv, Control
<1>3. FilledKeys = {} /\ LtmKeys = {} /\ LtmKeys' = {}
  BY <1>1, NothingFilled DEF BeforeAxis, LtmKeys, Final
<1>4. FilledKeys' = {Anchor}
  <2>1. ItemsBefore(1) = {}
    BY DEF ItemsBefore
  <2> QED BY <1>1, <1>2, <2>1 DEF BeforeAxis, FilledKeys
<1>5. /\ Axis' = Axis /\ Columns' = Columns /\ YearLabels' = YearLabels /\ Window' = Window
  BY <1>1, AxisUnchanged, AxisStays
<1>6. periods' = Axis
  <2>1. DOMAIN AxisYears = 1..Columns
    BY <1>2, AxisInOrder
  <2> QED BY <2>1 DEF BuildAxis, Axis, AxisYears
<1>7. Control'
  BY <1>1, <1>2, ControlStays DEF IInv, BeforeLtm
<1>8. ColumnsExact'
  BY <1>1, <1>5, <1>6 DEF IInv, ColumnsExact, BeforeLtm, BeforeAxis, Final
<1>9. /\ DOMAIN cells = Keys \cup {Nwc} /\ Anchor \in DOMAIN cells
      /\ \A key \in DOMAIN cells : DOMAIN cells[key] = {}
  BY <1>3 DEF IInv, RowsExact, Keys
<1>10. cells' = [cells EXCEPT ![Anchor] = [label \in YearLabels |-> series[label[2]]]]
  BY DEF BuildAxis, YearLabels
<1>11. RowsExact'
  BY <1>3, <1>4, <1>5, <1>9, <1>10 DEF RowsExact
<1>12. CellsExact'
  <2>1. ASSUME NEW fy \in Window PROVE cells'[Anchor][FY(fy)] = YearCell(Anchor, fy)'
    <3>1. FY(fy) \in YearLabels
      BY DEF YearLabels
    <3>2. cells'[Anchor][FY(fy)] = series[FY(fy)[2]]
      BY <1>9, <1>10, <3>1
    <3>3. FY(fy)[2] = fy
      BY DEF FY
    <3> QED BY <1>1, <3>2, <3>3 DEF YearCell
  <2> QED BY <1>1, <1>3, <1>4, <1>5, <2>1 DEF CellsExact
<1>13. NwcExact'
  BY <1>1 DEF NwcExact, Final
<1>14. WarningsExact'
  BY <1>1, <1>3, <1>4, AnnualStay DEF IInv, WarningsExact, Raised, HistoryWarnings
<1> QED BY <1>7, <1>8, <1>11, <1>12, <1>13, <1>14 DEF IInv

\* a label of the axis finds its own column
LEMMA ColumnsOfAxis ==
  ASSUME company \in Companies, SeriesExact, periods = Axis
  PROVE  /\ \A l : l \in Labels(periods) <=> l \in YearLabels
         /\ \A fy \in Window : Column(FY(fy)) = PeriodOf(fy)
<1>1. \A l : l \in Labels(periods) <=> l \in YearLabels
  BY AxisColumns
<1>2. ASSUME NEW fy \in Window PROVE Column(FY(fy)) = PeriodOf(fy)
  <2> DEFINE P == {periods[n] : n \in DOMAIN periods}
  <2>1. DOMAIN periods = 1..Columns
    BY DEF Axis
  <2>2. PICK n \in 1..Columns : AxisYears[n] = fy
    BY AxisInOrder
  <2>3. PeriodOf(fy) \in P /\ PeriodOf(fy).label = FY(fy)
    BY <2>1, <2>2, AxisColumns
  <2>4. ASSUME NEW p \in P, p.label = FY(fy) PROVE p = PeriodOf(fy)
    <3>1. PICK m \in 1..Columns : p = Axis[m]
      BY <2>1
    <3>2. m = n
      BY <2>2, <2>4, <3>1, AxisColumns
    <3> QED BY <2>2, <3>1, <3>2, AxisColumns
  <2>5. Column(FY(fy)) = CHOOSE p \in P : p.label = FY(fy)
    BY DEF Column
  <2> HIDE DEF P
  <2>6. Column(FY(fy)) \in P /\ Column(FY(fy)).label = FY(fy)
    BY <2>3, <2>5
  <2> QED BY <2>4, <2>6
<1> QED BY <1>1, <1>2

\* filling an item of the first loop keeps it
LEMMA FillItemKeeps == IInv /\ FillItem => IInv'
<1> SUFFICES ASSUME IInv, FillItem PROVE IInv'
  OBVIOUS
<1> DEFINE key == Items[item]
<1>1. /\ stage = "fill" /\ stage' = IF item = Len(Items) THEN "derive" ELSE "fill"
      /\ item' = IF item = Len(Items) THEN 1 ELSE item + 1
      /\ UNCHANGED <<company, series, periods, spans>>
  BY DEF FillItem, NextItem
<1>2. company \in Companies /\ SeriesExact /\ item \in 1..Len(Items)
  BY <1>1 DEF IInv, Control
<1>3. periods = Axis /\ spans = <<>>
  BY <1>1 DEF IInv, ColumnsExact, BeforeLtm
<1>4. LtmKeys = {} /\ LtmKeys' = {}
  BY <1>1 DEF LtmKeys, Final
<1>5. NextItem("fill", "derive") /\ key \in Keys /\ key # Anchor
  BY <1>2, NextItemStep DEF FillItem
<1>6. FilledKeys = {Anchor} \cup ItemsBefore(item) /\ Keys = {Anchor} \cup AllItems
  BY <1>1 DEF FilledKeys, BeforeAxis, Keys, AllItems
<1>7. FilledKeys' = FilledKeys \cup {key} /\ FilledKeys \subseteq Keys
  <2>1. FilledKeys \subseteq Keys
    BY <1>2, <1>5, <1>6, NextItemStep
  <2>2. CASE item = Len(Items)
    <3>1. FilledKeys' = Keys
      BY <1>1, <2>2 DEF FilledKeys, BeforeAxis
    <3> QED BY <1>2, <1>5, <1>6, <2>1, <2>2, <3>1, NextItemStep
  <2>3. CASE item # Len(Items)
    <3>1. FilledKeys' = {Anchor} \cup ItemsBefore(item)'
      BY <1>1, <2>3 DEF FilledKeys, BeforeAxis
    <3> QED BY <1>2, <1>5, <1>6, <2>1, <2>3, <3>1, NextItemStep DEF ItemsBefore
  <2> QED BY <2>2, <2>3
<1>8. /\ Axis' = Axis /\ Columns' = Columns /\ YearLabels' = YearLabels /\ Window' = Window
  BY <1>1, AxisUnchanged, AxisStays
<1>9. /\ \A l : l \in Labels(periods) <=> l \in YearLabels
      /\ \A fy \in Window : Column(FY(fy)) = PeriodOf(fy)
  BY <1>2, <1>3, ColumnsOfAxis
<1>10. Labels(periods) = YearLabels
  BY <1>9
<1>11. Control'
  <2>1. item' \in 1..Len(Items) /\ (stage' # "fill" => item' = 1)
    BY <1>1, <1>2, <1>5, NextItemStep
  <2>2. stage' \in BeforeLtm
    BY <1>1 DEF BeforeLtm
  <2> QED BY <1>1, <2>1, <2>2, ControlStays
<1>12. ColumnsExact'
  BY <1>1, <1>3, <1>8 DEF ColumnsExact, BeforeLtm, BeforeAxis, Final
<1>13. cells' = [cells EXCEPT ![key] = [label \in YearLabels |-> Fill(key, Column(label))]]
  BY <1>10 DEF FillItem
<1>14. DOMAIN cells = Keys \cup {Nwc} /\ key \in DOMAIN cells
  BY <1>5 DEF IInv, RowsExact
<1> HIDE DEF key
<1>15. RowsExact'
  BY <1>4, <1>5, <1>7, <1>8, <1>13, <1>14 DEF IInv, RowsExact
<1>16. CellsExact'
  <2>1. ASSUME NEW fy \in Window PROVE cells'[key][FY(fy)] = YearCell(key, fy)
    <3>1. FY(fy) \in YearLabels
      BY DEF YearLabels
    <3>2. cells'[key][FY(fy)] = Fill(key, Column(FY(fy)))
      BY <1>13, <1>14, <3>1
    <3> QED BY <1>5, <1>9, <3>2 DEF YearCell
  <2>2. ASSUME NEW k \in FilledKeys, k # key, NEW fy \in Window
        PROVE  cells'[k][FY(fy)] = YearCell(k, fy)
    <3>1. cells[k][FY(fy)] = YearCell(k, fy)
      BY <1>1, <1>7, <2>2 DEF IInv, CellsExact
    <3> QED BY <1>13, <1>14, <1>7, <2>2, <3>1
  <2>3. \A k \in FilledKeys' : \A fy \in Window : cells'[k][FY(fy)] = YearCell(k, fy)'
    BY <1>1, <1>7, <2>1, <2>2, FillStays
  <2> QED BY <1>1, <1>4, <1>8, <2>3 DEF CellsExact
<1>17. NwcExact'
  BY <1>1 DEF NwcExact, Final
<1>18. WarningsExact'
  <2>1. warnings' = warnings \cup {Disagreement(key, label) :
                       label \in {l \in YearLabels : FillDisagrees(key, Column(l))}}
    BY <1>10 DEF FillItem, key
  <2>2. \A fy \in Window : FillDisagrees(key, Column(FY(fy))) <=> FillDisagrees(key, PeriodOf(fy))
    BY <1>9
  <2>3. \A k, l : Raised(k, l) <=> /\ k \in FilledKeys
                                   /\ \E fy \in Window : l = FY(fy) /\ FillDisagrees(k, PeriodOf(fy))
    BY <1>4 DEF Raised
  <2>4. \A k, l : Raised(k, l)' <=> /\ k \in FilledKeys \cup {key}
                                    /\ \E fy \in Window : l = FY(fy) /\ FillDisagrees(k, PeriodOf(fy))
    BY <1>1, <1>4, <1>7, <1>8, FillStays DEF Raised
  <2>5. \A w \in warnings' : \/ w \in warnings
                             \/ \E fy \in Window : /\ FillDisagrees(key, PeriodOf(fy))
                                                   /\ w = Disagreement(key, FY(fy))
    BY <2>1, <2>2 DEF YearLabels
  <2>6. \A fy \in Window : FillDisagrees(key, PeriodOf(fy)) => Disagreement(key, FY(fy)) \in warnings'
    BY <2>1, <2>2 DEF YearLabels
  <2>7. \A k, l : /\ Disagreement(k, l).code = "STITCH_DISAGREEMENT"
                  /\ Disagreement(k, l).key = k /\ Disagreement(k, l).label = l
    BY DEF Disagreement
  <2>8. "STITCH_DISAGREEMENT" \in Codes /\ "STITCH_DISAGREEMENT" \notin HistoryCodes
    BY DEF Codes, HistoryCodes
  <2>9. \A w \in warnings' : w.code \in Codes
    BY <2>5, <2>7, <2>8 DEF IInv, WarningsExact
  <2>10. ASSUME NEW w \in warnings', w.code = "STITCH_DISAGREEMENT", w.key \in Keys \ {Anchor}
         PROVE  w = Disagreement(w.key, w.label) /\ Raised(w.key, w.label)'
    <3>1. CASE w \in warnings
      BY <2>3, <2>4, <2>10, <3>1 DEF IInv, WarningsExact
    <3>2. CASE w \notin warnings
      <4>1. PICK fy \in Window : FillDisagrees(key, PeriodOf(fy)) /\ w = Disagreement(key, FY(fy))
        BY <2>5, <3>2
      <4> QED BY <2>4, <2>7, <4>1
    <3> QED BY <3>1, <3>2
  <2>11. ASSUME NEW k \in Keys \ {Anchor}, NEW l \in YearLabels \cup Labels(periods), Raised(k, l)'
         PROVE  Disagreement(k, l) \in warnings'
    <3>1. PICK fy \in Window : l = FY(fy) /\ FillDisagrees(k, PeriodOf(fy))
      BY <2>4, <2>11
    <3>2. CASE k = key
      BY <2>6, <3>1, <3>2
    <3>3. CASE k # key
      <4>1. Raised(k, l)
        BY <2>3, <2>4, <2>11, <3>3
      <4> QED BY <2>1, <4>1 DEF IInv, WarningsExact
    <3> QED BY <3>2, <3>3
  <2>12. \A code \in HistoryCodes :
           (\E w \in warnings' : w.code = code) <=> (\E w \in warnings : w.code = code)
    BY <2>1, <2>5, <2>7, <2>8
  <2>13. HistoryWarnings(Cardinality(DOMAIN series))' = HistoryWarnings(Cardinality(DOMAIN series))
    BY <1>1 DEF HistoryWarnings
  <2>14. Labels(periods)' = Labels(periods)
    BY <1>1
  <2>15. \A code \in HistoryCodes : (\E w \in warnings : w.code = code)
                              <=> code \in HistoryWarnings(Cardinality(DOMAIN series))
    BY <1>1 DEF IInv, WarningsExact
  <2> QED BY <1>1, <1>8, <2>9, <2>10, <2>11, <2>12, <2>13, <2>14, <2>15 DEF WarningsExact
<1> QED BY <1>11, <1>12, <1>15, <1>16, <1>17, <1>18 DEF IInv

-----------------------------------------------------------------------------
(* backfill and derived items *)

\* the backfill changes the liabilities of some columns and nothing else
LEMMA BackfilledCells ==
  ASSUME NEW c, DOMAIN c = Keys \cup {Nwc}, NEW labels, NEW d, d = Backfilled(c, labels)
  PROVE  /\ DOMAIN d = Keys \cup {Nwc}
         /\ \A key \in Keys \cup {Nwc} : DOMAIN d[key] = DOMAIN c[key]
         /\ \A key \in Keys \cup {Nwc} : \A l \in DOMAIN c[key] :
              d[key][l] = IF IsBackfilled(key) /\ l \in labels
                          THEN Balance(c[key][l], c["total_assets"][l], c["total_equity"][l])
                          ELSE c[key][l]
<1>1. CASE ~(Sheet \subseteq Keys)
  <2>1. d = c
    BY <1>1 DEF Backfilled, Sheet
  <2> QED BY <1>1, <2>1 DEF IsBackfilled
<1>2. CASE Sheet \subseteq Keys
  <2> DEFINE TL == "total_liabilities"
             row == [l \in DOMAIN c[TL] |->
                       LET assets == c["total_assets"][l]
                           equity == c["total_equity"][l]
                       IN  IF l \in labels /\ IsGap(c[TL][l]) /\ ~IsGap(assets) /\ ~IsGap(equity)
                           THEN CellOf(assets.value - equity.value, "derived", Blank,
                                       assets.src \cup equity.src)
                           ELSE c[TL][l]]
  <2>1. d = [c EXCEPT ![TL] = row]
    BY <1>2 DEF Backfilled, Sheet
  <2>2. TL \in DOMAIN c
    BY <1>2 DEF Sheet
  <2>3. \A l \in DOMAIN c[TL] :
          row[l] = IF l \in labels THEN Balance(c[TL][l], c["total_assets"][l], c["total_equity"][l])
                   ELSE c[TL][l]
    BY DEF Balance
  <2>4. DOMAIN row = DOMAIN c[TL]
    OBVIOUS
  <2> HIDE DEF row
  <2>5. /\ DOMAIN d = DOMAIN c /\ d[TL] = row
        /\ \A key \in DOMAIN c : key # TL => d[key] = c[key]
    BY <2>1, <2>2
  <2> QED BY <1>2, <2>2, <2>3, <2>4, <2>5 DEF IsBackfilled
<1> QED BY <1>1, <1>2

\* the change between two columns depends on the balance sheet lines there
LEMMA ChangeOfSame ==
  ASSUME NEW c, NEW d, NEW label, NEW prior,
         NwcInputs \subseteq Keys =>
           \A key \in NwcInputs : c[key][label] = d[key][label] /\ c[key][prior] = d[key][prior]
  PROVE  ChangeInNwc(c, label, prior) = ChangeInNwc(d, label, prior)
<1>1. CASE ~(NwcInputs \subseteq Keys)
  BY <1>1 DEF ChangeInNwc
<1>2. CASE NwcInputs \subseteq Keys
  <2> DEFINE Gap(x) == \E key \in NwcInputs : IsGap(x[key][label]) \/ IsGap(x[key][prior])
             At(x, l) == x["accounts_receivable"][l].value + x["inventory"][l].value
                           - x["accounts_payable"][l].value
             Src(x) == UNION {x[key][l].src : key \in NwcInputs, l \in {label, prior}}
  <2>1. ChangeInNwc(c, label, prior)
          = IF Gap(c) THEN Missing
            ELSE CellOf(At(c, label) - At(c, prior), "derived", Blank, Src(c))
    BY <1>2 DEF ChangeInNwc
  <2>2. ChangeInNwc(d, label, prior)
          = IF Gap(d) THEN Missing
            ELSE CellOf(At(d, label) - At(d, prior), "derived", Blank, Src(d))
    BY <1>2 DEF ChangeInNwc
  <2>3. Gap(c) <=> Gap(d)
    BY <1>2
  <2>4. At(c, label) = At(d, label) /\ At(c, prior) = At(d, prior)
    BY <1>2 DEF NwcInputs
  <2>5. Src(c) = Src(d)
    BY <1>2
  <2> HIDE DEF Gap, At, Src
  <2> QED BY <2>1, <2>2, <2>3, <2>4, <2>5
<1> QED BY <1>1, <1>2

\* a step that raises no warning and fills no item
LEMMA WarningsStay ==
  ASSUME WarningsExact, UNCHANGED <<company, series, warnings>>,
         stage \notin {"anchor", "classify"}, stage' \notin {"anchor", "classify"},
         \A k \in Keys \ {Anchor} : k \in FilledKeys' <=> k \in FilledKeys,
         \/ /\ UNCHANGED <<periods, spans>>
            /\ \A k \in Keys \ {Anchor} : k \in LtmKeys' <=> k \in LtmKeys
         \/ LtmKeys = {} /\ LtmKeys' = {}
  PROVE  WarningsExact'
<1>1. Window' = Window /\ YearLabels' = YearLabels
  BY AxisStays, AxisUnchanged
<1>2. \A k, fy : FillDisagrees(k, PeriodOf(fy))' <=> FillDisagrees(k, PeriodOf(fy))
  BY FillStays
<1> DEFINE Early(k, l) == k \in FilledKeys
                            /\ \E fy \in Window : l = FY(fy) /\ FillDisagrees(k, PeriodOf(fy))
           Late(k, l) == /\ k \in LtmKeys /\ l = Ltm.label
                         /\ IsCaseA /\ Kind[k] = "instant" /\ SpanDisagrees(k, NoStart, Ltm.end)
<1>3. \A k, l : (Raised(k, l) <=> Early(k, l) \/ Late(k, l))
                /\ (Raised(k, l)' <=> Early(k, l)' \/ Late(k, l)')
  BY DEF Raised
<1>4. \A k \in Keys \ {Anchor} : \A l : Early(k, l)' <=> Early(k, l)
  BY <1>1, <1>2
<1>5. \A k, l : Early(k, l) => l \in YearLabels
  BY DEF YearLabels
<1>6. \A k \in Keys \ {Anchor} : \A l : Late(k, l)' <=> Late(k, l)
  <2>1. CASE LtmKeys = {} /\ LtmKeys' = {}
    BY <2>1
  <2>2. CASE /\ UNCHANGED <<periods, spans>>
             /\ \A k \in Keys \ {Anchor} : k \in LtmKeys' <=> k \in LtmKeys
    <3>1. Ltm' = Ltm /\ IsCaseA' = IsCaseA
      BY <2>2 DEF Ltm, IsCaseA
    <3>2. \A k : SpanDisagrees(k, NoStart, Ltm.end)' = SpanDisagrees(k, NoStart, Ltm.end)
      BY <3>1, SpanStays
    <3> QED BY <2>2, <3>1, <3>2
  <2> QED BY <2>1, <2>2
<1>7. \A k, l : Late(k, l) => l = Ltm.label
  OBVIOUS
<1> HIDE DEF Early, Late
<1>8. HistoryWarnings(Cardinality(DOMAIN series))' = HistoryWarnings(Cardinality(DOMAIN series))
  BY DEF HistoryWarnings
<1>9. \A k \in Keys \ {Anchor} : \A l : Raised(k, l)' <=> Raised(k, l)
  BY <1>3, <1>4, <1>6
<1>10. ASSUME NEW k \in Keys \ {Anchor}, NEW l \in YearLabels \cup Labels(periods)', Raised(k, l)'
       PROVE  Disagreement(k, l) \in warnings
  <2>1. l \in YearLabels \cup Labels(periods)
    <3>1. CASE UNCHANGED <<periods, spans>>
      BY <1>10, <3>1
    <3>2. CASE LtmKeys = {}
      <4>1. ~Late(k, l)
        BY <3>2 DEF Late
      <4> QED BY <1>3, <1>5, <1>9, <1>10, <4>1
    <3> QED BY <3>1, <3>2
  <2> QED BY <1>9, <1>10, <2>1 DEF WarningsExact
<1>11. \A w \in warnings : w.code = "STITCH_DISAGREEMENT" /\ w.key \in Keys \ {Anchor} =>
         w = Disagreement(w.key, w.label) /\ Raised(w.key, w.label)'
  BY <1>9 DEF WarningsExact
<1> QED BY <1>1, <1>8, <1>10, <1>11 DEF WarningsExact

\* the items the derivations read are neither derived nor the anchor
LEMMA KeysApart ==
  /\ Nwc \notin Keys /\ Anchor \in Keys /\ Kind[Anchor] = "duration"
  /\ \A key \in Keys \cap (Sheet \cup NwcInputs) : Kind[key] = "instant" /\ key # Anchor
  /\ \A key \in NwcInputs : ~IsBackfilled(key) /\ key # Nwc
  /\ ~IsBackfilled("total_assets") /\ ~IsBackfilled("total_equity") /\ ~IsBackfilled(Nwc)
  /\ ~IsBackfilled(Anchor)
<1>1. Nwc \notin Keys /\ Anchor \in Keys /\ Kind[Anchor] = "duration"
  BY MappingAssumption, AnchorIsKey DEF Nwc
<1>2. \A key \in Keys \cap (Sheet \cup NwcInputs) : Kind[key] = "instant" /\ key # Anchor
  BY <1>1, BalanceSheetAssumption DEF Sheet, NwcInputs
<1>3. \A key \in NwcInputs : ~IsBackfilled(key) /\ key # Nwc
  BY DEF NwcInputs, IsBackfilled, Nwc
<1>4. ~IsBackfilled("total_assets") /\ ~IsBackfilled("total_equity") /\ ~IsBackfilled(Nwc)
  BY DEF IsBackfilled, Nwc
<1>5. ~IsBackfilled(Anchor)
  BY <1>1, <1>2 DEF IsBackfilled, Sheet
<1> QED BY <1>1, <1>2, <1>3, <1>4, <1>5

\* backfill and derived items of the years keep it
LEMMA DeriveKeeps == IInv /\ Derive => IInv'
<1> SUFFICES ASSUME IInv, Derive PROVE IInv'
  OBVIOUS
<1> DEFINE filled == Backfilled(cells, YearLabels)
           row == [label \in YearLabels |->
                    LET n == CHOOSE m \in DOMAIN periods : periods[m].label = label
                    IN  IF n = 1 THEN Missing ELSE ChangeInNwc(filled, label, PriorLabel(n))]
<1>1. /\ stage = "derive" /\ stage' = IF periods = <<>> THEN "debt" ELSE "ltm"
      /\ UNCHANGED <<company, item, series, periods, spans, warnings>>
  BY DEF Derive
<1>2. company \in Companies /\ SeriesExact /\ item = 1 /\ item \in 1..Len(Items)
  BY <1>1 DEF IInv, Control
<1>3. periods = Axis /\ spans = <<>>
  BY <1>1 DEF IInv, ColumnsExact, BeforeLtm
<1>4. stage' = "debt" => periods = <<>>
  BY <1>1
<1>5. LtmKeys = {} /\ LtmKeys' = {} /\ FilledKeys = Keys /\ FilledKeys' = Keys \cup {Nwc}
  BY <1>1, <1>4 DEF LtmKeys, FilledKeys, BeforeAxis, Final
<1>6. /\ Axis' = Axis /\ Columns' = Columns /\ YearLabels' = YearLabels /\ Window' = Window
  BY <1>1, AxisUnchanged, AxisStays
<1>7. /\ Columns \in Nat /\ Len(Axis) = Columns /\ DOMAIN periods = 1..Columns
      /\ Columns = 0 <=> periods = <<>>
  BY <1>2, <1>3, WindowIsLatest, AxisColumns DEF Axis
<1>8. Labels(periods) = YearLabels
  BY <1>2, <1>3, ColumnsOfAxis
<1>9. cells' = [filled EXCEPT ![Nwc] = row]
  BY <1>8 DEF Derive, Nwc
<1>10. /\ DOMAIN cells = Keys \cup {Nwc}
       /\ \A key \in Keys : DOMAIN cells[key] = YearLabels
  BY <1>5, KeysApart DEF IInv, RowsExact
<1>11. /\ DOMAIN filled = Keys \cup {Nwc}
       /\ \A key \in Keys : DOMAIN filled[key] = YearLabels
       /\ \A key \in Keys : \A l \in YearLabels :
            filled[key][l] = IF IsBackfilled(key)
                             THEN Balance(cells[key][l], cells["total_assets"][l],
                                          cells["total_equity"][l])
                             ELSE cells[key][l]
  BY <1>10, BackfilledCells
<1>12. DOMAIN row = YearLabels
  OBVIOUS
<1>13. ASSUME NEW n \in 1..Columns
       PROVE  row[Axis[n].label] =
                IF n = 1 THEN Missing ELSE ChangeInNwc(filled, Axis[n].label, Axis[n - 1].label)
  <2> DEFINE label == Axis[n].label
             m == CHOOSE k \in DOMAIN periods : periods[k].label = label
  <2>1. label \in YearLabels
    BY <1>2, <1>7, AxisColumns DEF YearLabels
  <2>2. m \in 1..Columns /\ Axis[m].label = label
    BY <1>3, <1>7
  <2>3. m = n
    BY <1>2, <2>2, AxisColumns
  <2>4. row[label] = IF m = 1 THEN Missing ELSE ChangeInNwc(filled, label, PriorLabel(m))
    BY <2>1
  <2> HIDE DEF m, row
  <2>5. PriorLabel(m) = Axis[n - 1].label
    BY <1>3, <2>3 DEF PriorLabel
  <2> QED BY <2>3, <2>4, <2>5
<1> HIDE DEF filled, row
<1>14. /\ DOMAIN cells' = Keys \cup {Nwc} /\ cells'[Nwc] = row
       /\ \A key \in Keys : cells'[key] = filled[key]
  BY <1>9, <1>11, KeysApart
<1>15. Control'
  <2>1. item' \in 1..Len(Items) /\ item' = 1
    BY <1>1, <1>2
  <2>2. stage' \in BeforeLtm \cup Final
    BY <1>1 DEF BeforeLtm, Final
  <2> QED BY <1>1, <2>1, <2>2, ControlStays
<1>16. ColumnsExact'
  BY <1>1, <1>3, <1>6, <1>7 DEF ColumnsExact, BeforeLtm, BeforeAxis, Final
<1>17. RowsExact'
  BY <1>5, <1>6, <1>11, <1>12, <1>14 DEF RowsExact
<1>18. CellsExact'
  <2>1. ASSUME NEW key \in Keys, NEW fy \in Window
        PROVE  cells'[key][FY(fy)] = ClosedYearCell(key, fy)
    <3>1. FY(fy) \in YearLabels
      BY DEF YearLabels
    <3>2. \A k \in Keys : cells[k][FY(fy)] = YearCell(k, fy)
      BY <1>1, <1>5 DEF IInv, CellsExact
    <3>3. cells'[key][FY(fy)] = filled[key][FY(fy)]
      BY <1>14
    <3>4. CASE IsBackfilled(key)
      <4>1. "total_assets" \in Keys /\ "total_equity" \in Keys
        BY <3>4 DEF IsBackfilled, Sheet
      <4> QED BY <1>11, <3>1, <3>2, <3>3, <3>4, <4>1 DEF ClosedYearCell
    <3>5. CASE ~IsBackfilled(key)
      BY <1>11, <3>1, <3>2, <3>3, <3>5 DEF ClosedYearCell
    <3> QED BY <3>4, <3>5
  <2>2. \A key \in Keys : \A fy \in Window : cells'[key][FY(fy)] = ClosedYearCell(key, fy)'
    BY <1>1, <2>1, ClosedStays
  <2>3. stage' \notin {"fill", "derive"}
    BY <1>1
  <2> QED BY <1>5, <1>6, <2>2, <2>3, KeysApart DEF CellsExact
<1>19. NwcExact'
  <2>1. ASSUME NEW n \in 1..Columns
        PROVE  cells'[Nwc][Axis[n].label] =
                 IF n = 1 THEN Missing ELSE ChangeInNwc(cells', Axis[n].label, Axis[n - 1].label)
    <3>1. \A l, p : ChangeInNwc(filled, l, p) = ChangeInNwc(cells', l, p)
      BY <1>14, ChangeOfSame
    <3> QED BY <1>13, <1>14, <3>1
  <2>2. stage' \in Final => periods' = <<>>
    BY <1>1 DEF Final
  <2>3. \A n : ChangeInNwc(cells, Axis[n].label, Axis[n - 1].label)'
                = ChangeInNwc(cells', Axis[n].label, Axis[n - 1].label)
    BY <1>6
  <2> QED BY <1>6, <2>1, <2>2, <2>3 DEF NwcExact
<1>20. WarningsExact'
  BY <1>1, <1>5, KeysApart, WarningsStay DEF IInv
<1> QED BY <1>15, <1>16, <1>17, <1>18, <1>19, <1>20 DEF IInv

-----------------------------------------------------------------------------
(* the LTM column is proposed *)

LEMMA AnchorFactsAre ==
  ASSUME company \in Companies, NEW f \in AnchorFacts
  PROVE  f.start \in Nat /\ f.end \in Nat /\ f.value \in Int
<1>1. PICK t \in TagSet(Anchor) : f \in company.facts[t]
  BY DEF AnchorFacts
<1> QED BY <1>1, FactsOfTags, AnchorIsKey DEF FactSet

\* the running year's stub is one that ends last
LEMMA StubChosen ==
  ASSUME company \in Companies, NEW latest, latest.end \in Nat, Stubs(latest) # {}
  PROVE  \E f \in Stubs(latest) : \A g \in Stubs(latest) : g.end <= f.end
<1> DEFINE ends == {f.end : f \in Stubs(latest)}
           bound == latest.end + 1 + StubMax
<1>1. bound \in Nat
  BY CalendarAssumption
<1>2. ASSUME NEW f \in Stubs(latest) PROVE f.end \in Nat /\ f.end <= bound
  <2>1. f \in AnchorFacts /\ f.start = latest.end + 1 /\ Days(f) <= StubMax
    BY DEF Stubs
  <2> QED BY <2>1, AnchorFactsAre, CalendarAssumption DEF Days
<1>3. ends \subseteq Nat /\ ends # {} /\ \A x \in ends : x <= bound
  BY <1>2
<1> HIDE DEF ends, bound
<1>4. PICK x \in ends : \A y \in ends : y <= x
  BY <1>1, <1>3, GreatestNatural
<1> QED BY <1>4 DEF ends

\* where a tag has a prior stub, the one taken is a prior stub of some tag
LEMMA PriorChosen ==
  ASSUME company \in Companies, NEW stub, stub.end \in Int,
         \E t \in TagSet(Anchor) : PriorStubs(t, stub) # {}
  PROVE  \E tag \in TagSet(Anchor) : PriorStub(stub) \in PriorStubs(tag, stub)
<1> DEFINE all == UNION {PriorStubs(t, stub) : t \in TagSet(Anchor)}
           deltas == {EndDelta(f, stub) : f \in all}
           Best(t) == {f \in PriorStubs(t, stub) : EndDelta(f, stub) = Min(deltas)}
           tags == {t \in TagSet(Anchor) : Best(t) # {}}
           tag == FirstTag(Anchor, tags)
<1>1. \A f \in all : \E t \in TagSet(Anchor) : f \in PriorStubs(t, stub)
  OBVIOUS
<1>2. \A t \in TagSet(Anchor) : \A f \in PriorStubs(t, stub) : f \in all /\ f \in company.facts[t]
  BY DEF PriorStubs
<1>3. deltas # {}
  OBVIOUS
<1>4. deltas \subseteq Nat
  <2>1. ASSUME NEW f \in all PROVE EndDelta(f, stub) \in Nat
    <3>1. f.end \in Nat
      BY <1>1, <1>2, FactsOfTags, AnchorIsKey DEF FactSet
    <3>2. YearBefore(stub.end) \in Int
      BY CalendarAssumption DEF YearBefore
    <3> QED BY <3>1, <3>2 DEF EndDelta, Distance
  <2> QED BY <2>1
<1>5. Min(deltas) \in deltas
  <2> HIDE DEF deltas
  <2> QED BY <1>3, <1>4, MinIsLeast
<1>6. PICK f \in all : EndDelta(f, stub) = Min(deltas)
  BY <1>5
<1>7. PICK t \in TagSet(Anchor) : f \in PriorStubs(t, stub)
  BY <1>1
<1>8. t \in tags /\ tags \subseteq TagSet(Anchor)
  BY <1>6, <1>7
<1>9. tag \in tags
  <2> HIDE DEF tags
  <2> QED BY <1>8, AnchorIsKey, FirstTagIsOne
<1>10. FactSet(Best(tag)) /\ Best(tag) # {}
  <2>1. Best(tag) \in SUBSET company.facts[tag]
    BY <1>2, <1>9
  <2>2. FactSet(company.facts[tag])
    BY <1>9, FactsOfTags, AnchorIsKey
  <2>3. Best(tag) # {}
    BY <1>9
  <2> HIDE DEF Best
  <2> QED BY <2>1, <2>2, <2>3, SubsetsOfFacts
<1>11. FirstOf(Best(tag)) \in Best(tag)
  <2> HIDE DEF Best
  <2> QED BY <1>10, FirstAndLast
<1>12. PriorStub(stub) = FirstOf(Best(tag))
  BY DEF PriorStub
<1> QED BY <1>9, <1>11, <1>12

\* the last two columns once the LTM column is there
LEMMA LastColumns ==
  ASSUME company \in Companies, SeriesExact, LtmAppended
  PROVE  /\ Columns \in Nat /\ Len(periods) = Columns + 1 /\ DOMAIN periods = 1..(Columns + 1)
         /\ LatestFy = Axis[Columns] /\ LatestFy = PeriodOf(AxisYears[Columns])
         /\ AxisYears[Columns] \in Window
         /\ Ltm = periods[Columns + 1]
         /\ \A n \in 1..Columns : periods[n] = Axis[n]
         /\ periods # <<>>
<1>1. /\ Columns \in Nat /\ Columns > 0 /\ Len(Axis) = Columns
      /\ Axis \in Seq({PeriodOf(fy) : fy \in Window}) /\ DOMAIN Axis = 1..Columns
  BY WindowIsLatest, AxisColumns DEF LtmAppended, Axis
<1>2. periods = Append(Axis, Ltm)
  BY DEF LtmAppended
<1>3. /\ Len(periods) = Columns + 1 /\ DOMAIN periods = 1..(Columns + 1)
      /\ \A n \in 1..Columns : periods[n] = Axis[n]
      /\ periods # <<>>
  BY <1>1, <1>2
<1>4. LatestFy = Axis[Columns] /\ Ltm = periods[Columns + 1]
  BY <1>1, <1>3 DEF LatestFy, Ltm, Last
<1>5. Columns \in 1..Columns
  BY <1>1
<1> QED BY <1>1, <1>3, <1>4, <1>5, AxisColumns

\* the LTM column, or its fallback, keeps it
LEMMA ProposeLtmKeeps == IInv /\ ProposeLtm => IInv'
<1> SUFFICES ASSUME IInv, ProposeLtm PROVE IInv'
  OBVIOUS
<1> DEFINE latest == Last(periods)
           stubs == Stubs(latest)
           stub == CHOOSE f \in stubs : \A g \in stubs : g.end <= f.end
           prior == PriorStub(stub)
           resolves == /\ stubs # {}
                       /\ \E t \in TagSet(Anchor) : PriorStubs(t, stub) # {}
                       /\ ~IsGap(ResolveSpan(Anchor, stub.start, stub.end))
                       /\ ~IsGap(ResolveSpan(Anchor, prior.start, prior.end))
           column == IF resolves THEN LtmPeriod(stub) ELSE Fallback(latest)
<1>1. /\ stage = "ltm" /\ stage' = "fill_ltm"
      /\ UNCHANGED <<company, item, series, cells, warnings>>
  BY DEF ProposeLtm
<1>2. company \in Companies /\ SeriesExact /\ item = 1 /\ item \in 1..Len(Items)
  BY <1>1 DEF IInv, Control
<1>3. periods = Axis /\ Columns > 0
  BY <1>1 DEF IInv, ColumnsExact
<1>4. /\ Axis' = Axis /\ Columns' = Columns /\ YearLabels' = YearLabels /\ Window' = Window
  BY <1>1, AxisUnchanged, AxisStays
<1>5. /\ Columns \in Nat /\ Len(Axis) = Columns /\ DOMAIN Axis = 1..Columns
      /\ Axis \in Seq({PeriodOf(fy) : fy \in Window})
  BY <1>2, WindowIsLatest, AxisColumns DEF Axis
<1>6. latest = Axis[Columns] /\ latest.end \in Nat
  <2>1. latest = Axis[Columns]
    BY <1>3, <1>5 DEF Last
  <2>2. AxisYears[Columns] \in AnchorYears /\ Axis[Columns] = PeriodOf(AxisYears[Columns])
    BY <1>2, <1>3, <1>5, AxisColumns, WindowIsLatest
  <2> QED BY <1>2, <2>1, <2>2, PeriodOfYear
<1>7. /\ spans' = IF resolves THEN <<Span(stub), Span(prior)>> ELSE <<>>
      /\ periods' = Append(Axis, column)
  BY <1>3 DEF ProposeLtm
<1>8. ASSUME resolves
      PROVE  stub \in stubs /\ \E tag \in TagSet(Anchor) : prior \in PriorStubs(tag, stub)
  <2>1. stub \in stubs
    <3>1. \E f \in stubs : \A g \in stubs : g.end <= f.end
      BY <1>2, <1>6, <1>8, StubChosen
    <3> QED BY <3>1
  <2>2. stub.end \in Int
    BY <1>2, <2>1, AnchorFactsAre DEF Stubs
  <2> HIDE DEF stub
  <2> QED BY <1>2, <1>8, <2>1, <2>2, PriorChosen
<1> HIDE DEF stub, prior, column, latest
<1>9. LtmAppended'
  <2>1. Len(periods') = Columns + 1 /\ periods'[Columns] = latest /\ periods'[Columns + 1] = column
    BY <1>3, <1>5, <1>6, <1>7
  <2>2. LatestFy' = latest /\ Ltm' = column
    BY <1>5, <2>1 DEF LatestFy, Ltm, Last
  <2>3. CASE ~resolves
    BY <1>3, <1>4, <1>7, <2>2, <2>3 DEF LtmAppended, column
  <2>4. CASE resolves
    <3>1. PICK fy : fy = latest
      OBVIOUS
    <3>2. PICK this : this = stub
      OBVIOUS
    <3>3. PICK before : before = prior
      OBVIOUS
    <3>4. PICK tag \in TagSet(Anchor) : before \in PriorStubs(tag, this)
      BY <1>8, <2>4, <3>2, <3>3
    <3>5. this \in Stubs(fy)' /\ before \in PriorStubs(tag, this)'
      BY <1>1, <1>8, <2>4, <3>1, <3>2, <3>4, StubsStay
    <3>6. this \in Stubs(LatestFy)'
      BY <2>2, <3>1, <3>5 DEF Stubs
    <3>7. /\ ~IsGap(ResolveSpan(Anchor, this.start, this.end))'
          /\ ~IsGap(ResolveSpan(Anchor, before.start, before.end))'
      BY <1>1, <2>4, <3>2, <3>3, SpanStays DEF IsGap
    <3>8. spans' = <<Span(this), Span(before)>> /\ Ltm' = LtmPeriod(this)
      BY <1>7, <2>2, <2>4, <3>2, <3>3 DEF column
    <3>9. Genuine'
      BY <3>4, <3>5, <3>6, <3>7, <3>8 DEF Genuine
    <3> QED BY <1>3, <1>4, <1>7, <2>2, <3>9 DEF LtmAppended
  <2> QED BY <2>3, <2>4
<1>10. LtmKeys = {} /\ LtmKeys' = {} /\ FilledKeys = Keys \cup {Nwc} /\ FilledKeys' = Keys \cup {Nwc}
  <2>1. ItemsBefore(1) = {}
    BY DEF ItemsBefore
  <2> QED BY <1>1, <1>2, <2>1 DEF LtmKeys, FilledKeys, BeforeAxis, Final
<1>11. Control'
  BY <1>1, <1>2, ControlStays
<1>12. ColumnsExact'
  BY <1>1, <1>9 DEF ColumnsExact, BeforeLtm, BeforeAxis, Final
<1>13. RowsExact'
  BY <1>1, <1>4, <1>10 DEF IInv, RowsExact
<1>14. CellsExact'
  <2>1. \A key \in Keys : \A fy \in Window : cells[key][FY(fy)] = ClosedYearCell(key, fy)'
    BY <1>1, <1>10, ClosedStays DEF IInv, CellsExact
  <2> QED BY <1>1, <1>4, <1>10, <2>1, KeysApart DEF CellsExact
<1>15. NwcExact'
  <2>1. \A n : ChangeInNwc(cells, Axis[n].label, Axis[n - 1].label)'
                = ChangeInNwc(cells, Axis[n].label, Axis[n - 1].label)
    BY <1>1, <1>4
  <2> QED BY <1>1, <1>4, <2>1 DEF IInv, NwcExact, BeforeAxis, Final
<1>16. WarningsExact'
  BY <1>1, <1>10, WarningsStay DEF IInv
<1> QED BY <1>11, <1>12, <1>13, <1>14, <1>15, <1>16 DEF IInv

-----------------------------------------------------------------------------
(* the LTM column is filled *)

\* the LTM column has a label no year has
LEMMA LabelsApart ==
  ASSUME company \in Companies, SeriesExact, LtmAppended
  PROVE  /\ Ltm.label \notin YearLabels /\ Ltm.label[1] # "FY"
         /\ LatestFy.label \in YearLabels /\ LatestFy.label = FY(AxisYears[Columns])
         /\ LatestFy.label # Ltm.label
<1>1. LatestFy = PeriodOf(AxisYears[Columns]) /\ AxisYears[Columns] \in Window
  BY LastColumns
<1>2. LatestFy.label = FY(AxisYears[Columns]) /\ LatestFy.label \in YearLabels
  BY <1>1 DEF PeriodOf, YearLabels
<1>3. \A l \in YearLabels : l[1] = "FY"
  BY DEF YearLabels, FY
<1>4. Ltm.label[1] # "FY"
  <2>1. CASE Genuine
    BY <2>1 DEF Genuine, LtmPeriod
  <2>2. CASE Ltm = Fallback(LatestFy)
    BY <1>1, <2>2 DEF Fallback, PeriodOf
  <2> QED BY <2>1, <2>2 DEF LtmAppended
<1> QED BY <1>2, <1>3, <1>4

\* filling an item of the LTM loop keeps it
LEMMA FillLtmKeeps == IInv /\ FillLtm => IInv'
<1> SUFFICES ASSUME IInv, FillLtm PROVE IInv'
  OBVIOUS
<1> DEFINE key == Items[item]
<1>1. /\ stage = "fill_ltm" /\ NextItem("fill_ltm", "finish_ltm")
      /\ UNCHANGED <<company, series, periods, spans>>
      /\ cells' = [cells EXCEPT ![key] = WithLtm(@, LtmCell(key))]
  BY DEF FillLtm, NextItem
<1>2. company \in Companies /\ SeriesExact /\ item \in 1..Len(Items)
  BY <1>1 DEF IInv, Control
<1>3. LtmAppended /\ LtmAppended'
  BY <1>1, LtmStays DEF IInv, ColumnsExact
<1>4. /\ Axis' = Axis /\ Columns' = Columns /\ YearLabels' = YearLabels /\ Window' = Window
      /\ Ltm' = Ltm /\ LatestFy' = LatestFy
  BY <1>1, AxisUnchanged, AxisStays DEF Ltm, LatestFy
<1>5. /\ key \in Keys /\ key # Anchor /\ key # Nwc
      /\ item' \in 1..Len(Items) /\ stage' \in {"fill_ltm", "finish_ltm"}
      /\ stage' # "fill_ltm" => item' = 1
  BY <1>1, <1>2, NextItemStep
<1>6. /\ FilledKeys = Keys \cup {Nwc} /\ FilledKeys' = Keys \cup {Nwc}
      /\ LtmKeys = ItemsBefore(item) /\ LtmKeys' = LtmKeys \cup {key}
      /\ LtmKeys \subseteq Keys \ {Anchor}
  <2>1. FilledKeys = Keys \cup {Nwc} /\ LtmKeys = ItemsBefore(item)
    BY <1>1 DEF FilledKeys, LtmKeys, BeforeAxis, Final
  <2>2. FilledKeys' = Keys \cup {Nwc}
    BY <1>5 DEF FilledKeys, BeforeAxis
  <2>3. AllItems \subseteq Keys \ {Anchor}
    BY MappingAssumption DEF AllItems, Keys
  <2>4. CASE item = Len(Items)
    <3>1. LtmKeys' = AllItems
      BY <1>1, <1>2, <2>4, NextItemStep DEF LtmKeys, Final
    <3> QED BY <1>1, <1>2, <2>1, <2>2, <2>3, <2>4, <3>1, NextItemStep
  <2>5. CASE item # Len(Items)
    <3>1. LtmKeys' = ItemsBefore(item)'
      BY <1>1, <1>2, <2>5, NextItemStep DEF LtmKeys, Final
    <3> QED BY <1>1, <1>2, <2>1, <2>2, <2>3, <2>5, <3>1, NextItemStep DEF ItemsBefore
  <2> QED BY <2>4, <2>5
<1>7. /\ Ltm.label \notin YearLabels
      /\ LatestFy.label \in YearLabels /\ LatestFy.label # Ltm.label
  BY <1>2, <1>3, LabelsApart
<1>8. /\ DOMAIN cells = Keys \cup {Nwc}
      /\ \A k \in Keys \cup {Nwc} :
           DOMAIN cells[k] = YearLabels \cup (IF k \in LtmKeys THEN {Ltm.label} ELSE {})
  BY <1>6 DEF IInv, RowsExact
<1> HIDE DEF key
<1>9. /\ DOMAIN cells' = Keys \cup {Nwc}
      /\ DOMAIN cells'[key] = YearLabels \cup {Ltm.label}
      /\ \A l \in YearLabels : cells'[key][l] = cells[key][l]
      /\ cells'[key][Ltm.label] = LtmCell(key)
      /\ \A k \in Keys \cup {Nwc} : k # key => cells'[k] = cells[k]
  <2>1. /\ DOMAIN cells' = DOMAIN cells
        /\ cells'[key] = WithLtm(cells[key], LtmCell(key))
        /\ \A k \in DOMAIN cells : k # key => cells'[k] = cells[k]
    BY <1>1, <1>5, <1>8
  <2>2. DOMAIN cells[key] \cup {Ltm.label} = YearLabels \cup {Ltm.label}
    BY <1>5, <1>8
  <2>3. cells'[key] = [l \in YearLabels \cup {Ltm.label} |->
                         IF l = Ltm.label THEN LtmCell(key) ELSE cells[key][l]]
    BY <2>1, <2>2 DEF WithLtm
  <2> QED BY <1>7, <1>8, <2>1, <2>3
<1>10. \A k \in Keys \cup {Nwc} : \A l \in YearLabels : cells'[k][l] = cells[k][l]
  BY <1>9
<1>11. Control'
  <2>1. stage # "anchor" /\ stage' # "fill"
    BY <1>1, <1>5
  <2> QED BY <1>1, <1>5, <2>1, ControlStays
<1>12. ColumnsExact'
  BY <1>3, <1>5 DEF ColumnsExact, BeforeLtm, BeforeAxis, Final
<1>13. RowsExact'
  BY <1>4, <1>5, <1>6, <1>8, <1>9 DEF RowsExact
<1>14. CellsExact'
  <2>1. ASSUME NEW k \in Keys, NEW fy \in Window PROVE cells'[k][FY(fy)] = ClosedYearCell(k, fy)'
    <3>1. FY(fy) \in YearLabels
      BY DEF YearLabels
    <3>2. cells[k][FY(fy)] = ClosedYearCell(k, fy)
      BY <1>1, <1>6 DEF IInv, CellsExact
    <3> QED BY <1>1, <1>10, <3>1, <3>2, ClosedStays
  <2>2. ASSUME NEW k \in LtmKeys \cup {key} PROVE cells'[k][Ltm.label] = LtmCell(k)'
    <3>1. LtmCell(k)' = LtmCell(k)
      BY <1>1, <1>5, <1>6, <1>7, <1>10, LtmCellStays
    <3>2. CASE k = key
      BY <1>9, <3>1, <3>2
    <3>3. CASE k # key
      <4>1. cells[k][Ltm.label] = LtmCell(k)
        BY <1>1, <1>6, <3>3 DEF IInv, CellsExact, Final
      <4> QED BY <1>6, <1>9, <3>1, <3>3, <4>1
    <3> QED BY <3>2, <3>3
  <2>3. stage' \notin Final /\ stage' \notin {"fill", "derive"}
    BY <1>5 DEF Final
  <2> QED BY <1>4, <1>6, <2>1, <2>2, <2>3, KeysApart DEF CellsExact
<1>15. NwcExact'
  <2>1. ASSUME NEW n \in 1..Columns
        PROVE  cells'[Nwc][Axis[n].label] =
                 IF n = 1 THEN Missing ELSE ChangeInNwc(cells', Axis[n].label, Axis[n - 1].label)
    <3>1. Axis[n].label \in YearLabels /\ (n # 1 => Axis[n - 1].label \in YearLabels)
      <4>1. \A m \in 1..Columns : Axis[m].label \in YearLabels
        BY <1>2, AxisColumns DEF YearLabels
      <4>2. Columns \in Nat
        BY <1>2, WindowIsLatest
      <4> QED BY <4>1, <4>2
    <3>2. cells[Nwc][Axis[n].label] =
            IF n = 1 THEN Missing ELSE ChangeInNwc(cells, Axis[n].label, Axis[n - 1].label)
      BY <1>1 DEF IInv, NwcExact, BeforeAxis
    <3>3. n # 1 => ChangeInNwc(cells, Axis[n].label, Axis[n - 1].label)
                     = ChangeInNwc(cells', Axis[n].label, Axis[n - 1].label)
      BY <1>10, <3>1, ChangeOfSame
    <3> QED BY <1>5, <1>9, <3>2, <3>3
  <2>2. stage' \notin Final
    BY <1>5 DEF Final
  <2> QED BY <1>4, <2>1, <2>2 DEF NwcExact
<1>16. WarningsExact'
  <2> DEFINE cond == IsCaseA /\ Kind[key] = "instant" /\ SpanDisagrees(key, NoStart, Ltm.end)
             w0 == Disagreement(key, Ltm.label)
  <2>1. warnings' = warnings \cup (IF cond THEN {w0} ELSE {})
    BY DEF FillLtm, key
  <2>2. \A k, l : Raised(k, l)' <=> Raised(k, l) \/ (cond /\ k = key /\ l = Ltm.label)
    <3>1. /\ \A k, fy : FillDisagrees(k, PeriodOf(fy))' <=> FillDisagrees(k, PeriodOf(fy))
          /\ \A k : SpanDisagrees(k, NoStart, Ltm.end)' <=> SpanDisagrees(k, NoStart, Ltm.end)
          /\ IsCaseA' <=> IsCaseA
      BY <1>1, <1>4, FillStays, SpanStays DEF IsCaseA
    <3> QED BY <1>4, <1>6, <3>1 DEF Raised
  <2>3. /\ w0.code = "STITCH_DISAGREEMENT" /\ w0.key = key /\ w0.label = Ltm.label
        /\ w0 = Disagreement(key, Ltm.label)
    BY DEF Disagreement
  <2> HIDE DEF cond, w0
  <2>4. \A w \in warnings' : w \in warnings \/ (cond /\ w = w0)
    BY <2>1
  <2>5. "STITCH_DISAGREEMENT" \in Codes /\ "STITCH_DISAGREEMENT" \notin HistoryCodes
    BY DEF Codes, HistoryCodes
  <2>6. \A w \in warnings' : w.code \in Codes
    BY <2>3, <2>4, <2>5 DEF IInv, WarningsExact
  <2>7. ASSUME NEW w \in warnings', w.code = "STITCH_DISAGREEMENT", w.key \in Keys \ {Anchor}
        PROVE  w = Disagreement(w.key, w.label) /\ Raised(w.key, w.label)'
    <3>1. CASE w \in warnings
      BY <2>2, <2>7, <3>1 DEF IInv, WarningsExact
    <3>2. CASE w \notin warnings
      BY <2>2, <2>3, <2>4, <3>2
    <3> QED BY <3>1, <3>2
  <2>8. ASSUME NEW k \in Keys \ {Anchor}, NEW l \in YearLabels \cup Labels(periods), Raised(k, l)'
        PROVE  Disagreement(k, l) \in warnings'
    <3>1. CASE Raised(k, l)
      BY <2>1, <3>1 DEF IInv, WarningsExact
    <3>2. CASE ~Raised(k, l)
      BY <2>1, <2>2, <2>3, <2>8, <3>2
    <3> QED BY <3>1, <3>2
  <2>9. \A code \in HistoryCodes :
          (\E w \in warnings' : w.code = code) <=> (\E w \in warnings : w.code = code)
    BY <2>1, <2>3, <2>4, <2>5
  <2>10. HistoryWarnings(Cardinality(DOMAIN series))' = HistoryWarnings(Cardinality(DOMAIN series))
    BY <1>1 DEF HistoryWarnings
  <2>11. \A code \in HistoryCodes : (\E w \in warnings : w.code = code)
                              <=> code \in HistoryWarnings(Cardinality(DOMAIN series))
    BY <1>1 DEF IInv, WarningsExact
  <2>12. Labels(periods)' = Labels(periods) /\ stage' \notin {"anchor", "classify"}
    BY <1>1, <1>5
  <2> QED BY <1>4, <2>6, <2>7, <2>8, <2>9, <2>10, <2>11, <2>12 DEF WarningsExact
<1> QED BY <1>11, <1>12, <1>13, <1>14, <1>15, <1>16 DEF IInv

-----------------------------------------------------------------------------
(* the last stages *)

\* backfill, derived item and anchor of the LTM column keep it
LEMMA FinishLtmKeeps == IInv /\ FinishLtm => IInv'
<1> SUFFICES ASSUME IInv, FinishLtm PROVE IInv'
  OBVIOUS
<1> DEFINE only == {Ltm.label}
           filled == Backfilled(cells, only)
           fy == cells[Anchor][LatestFy.label]
           At(span) == ResolveSpan(Anchor, span.start, span.end)
           flow == IF IsCaseA THEN FlowLtm(fy, At(spans[1]), At(spans[2])) ELSE fy
           nwcRow == WithLtm(filled[Nwc], LtmNwc(filled))
           anchorRow == WithLtm(filled[Anchor], flow)
<1>1. /\ stage = "finish_ltm" /\ stage' = "debt"
      /\ UNCHANGED <<company, item, series, periods, spans, warnings>>
  BY DEF FinishLtm
<1>2. /\ company \in Companies /\ SeriesExact /\ item = 1 /\ item \in 1..Len(Items)
  BY <1>1 DEF IInv, Control
<1>3. LtmAppended /\ LtmAppended'
  BY <1>1, LtmStays DEF IInv, ColumnsExact
<1>4. /\ Axis' = Axis /\ Columns' = Columns /\ YearLabels' = YearLabels /\ Window' = Window
      /\ Ltm' = Ltm /\ LatestFy' = LatestFy
  BY <1>1, AxisUnchanged, AxisStays DEF Ltm, LatestFy
<1>5. /\ Ltm.label \notin YearLabels
      /\ LatestFy.label \in YearLabels /\ LatestFy.label # Ltm.label
      /\ periods # <<>> /\ Columns \in Nat
  BY <1>2, <1>3, LabelsApart, LastColumns
<1>6. /\ FilledKeys = Keys \cup {Nwc} /\ FilledKeys' = Keys \cup {Nwc}
      /\ LtmKeys = AllItems /\ LtmKeys' = Keys \cup {Nwc}
  BY <1>1, <1>5 DEF FilledKeys, LtmKeys, BeforeAxis, Final
<1>7. /\ Nwc \notin Keys /\ Anchor \in Keys /\ Anchor # Nwc
      /\ \A k : k \in AllItems <=> k \in Keys /\ k # Anchor
  BY KeysApart, MappingAssumption DEF AllItems, Keys
<1>8. /\ DOMAIN cells = Keys \cup {Nwc}
      /\ \A k \in Keys \cup {Nwc} :
           DOMAIN cells[k] = YearLabels \cup (IF k \in AllItems THEN {Ltm.label} ELSE {})
  BY <1>6 DEF IInv, RowsExact
<1>9. \A l : l \in only <=> l = Ltm.label
  OBVIOUS
<1> HIDE DEF only
<1>10. /\ DOMAIN filled = Keys \cup {Nwc}
       /\ \A k \in Keys \cup {Nwc} : DOMAIN filled[k] = DOMAIN cells[k]
       /\ \A k \in Keys \cup {Nwc} : \A l \in DOMAIN cells[k] :
            filled[k][l] = IF IsBackfilled(k) /\ l = Ltm.label
                           THEN Balance(cells[k][l], cells["total_assets"][l], cells["total_equity"][l])
                           ELSE cells[k][l]
  BY <1>8, <1>9, BackfilledCells
<1>11. flow = LtmCell(Anchor)
  BY KeysApart DEF LtmCell
<1>12. cells' = [filled EXCEPT ![Nwc] = nwcRow, ![Anchor] = anchorRow]
  BY <1>7, <1>10 DEF FinishLtm, Nwc, only
<1> HIDE DEF filled, flow
<1>13. /\ DOMAIN cells' = Keys \cup {Nwc} /\ cells'[Nwc] = nwcRow /\ cells'[Anchor] = anchorRow
       /\ \A k \in AllItems : cells'[k] = filled[k]
  BY <1>7, <1>10, <1>12
<1>14. \A k \in Keys \cup {Nwc} : \A l \in YearLabels : filled[k][l] = cells[k][l]
  BY <1>5, <1>8, <1>10
<1>15. DOMAIN filled[Nwc] = YearLabels /\ DOMAIN filled[Anchor] = YearLabels
  BY <1>7, <1>8, <1>10
<1>16. /\ nwcRow = [l \in YearLabels \cup {Ltm.label} |->
                      IF l = Ltm.label THEN LtmNwc(filled) ELSE filled[Nwc][l]]
       /\ anchorRow = [l \in YearLabels \cup {Ltm.label} |->
                      IF l = Ltm.label THEN flow ELSE filled[Anchor][l]]
  BY <1>15 DEF WithLtm
<1> HIDE DEF nwcRow, anchorRow
<1>17. /\ \A k \in Keys \cup {Nwc} : DOMAIN cells'[k] = YearLabels \cup {Ltm.label}
       /\ \A k \in Keys \cup {Nwc} : \A l \in YearLabels : cells'[k][l] = cells[k][l]
  <2>1. ASSUME NEW k \in AllItems
        PROVE  /\ DOMAIN cells'[k] = YearLabels \cup {Ltm.label}
               /\ \A l \in YearLabels : cells'[k][l] = cells[k][l]
    BY <1>7, <1>8, <1>10, <1>13, <1>14
  <2>2. ASSUME NEW k \in {Nwc, Anchor}
        PROVE  /\ DOMAIN cells'[k] = YearLabels \cup {Ltm.label}
               /\ \A l \in YearLabels : cells'[k][l] = cells[k][l]
    BY <1>5, <1>7, <1>13, <1>14, <1>16
  <2> QED BY <1>7, <2>1, <2>2
<1>18. cells'[Nwc][Ltm.label] = LtmNwc(filled) /\ cells'[Anchor][Ltm.label] = LtmCell(Anchor)
  BY <1>11, <1>13, <1>16
<1>19. \A k \in AllItems : cells'[k][Ltm.label] = ClosedLtmCell(k)
  <2>1. \A k \in AllItems : cells[k][Ltm.label] = LtmCell(k)
    BY <1>1, <1>6, <1>7 DEF IInv, CellsExact, Final
  <2>2. ASSUME NEW k \in AllItems PROVE cells'[k][Ltm.label] = ClosedLtmCell(k)
    <3>1. /\ cells'[k][Ltm.label] = filled[k][Ltm.label] /\ Ltm.label \in DOMAIN cells[k]
          /\ k \in Keys
      BY <1>7, <1>8, <1>13
    <3>2. CASE IsBackfilled(k)
      <4>1. "total_assets" \in AllItems /\ "total_equity" \in AllItems
        BY <1>7, <3>2, KeysApart DEF IsBackfilled, Sheet
      <4> QED BY <1>10, <2>1, <3>1, <3>2, <4>1 DEF ClosedLtmCell
    <3>3. CASE ~IsBackfilled(k)
      BY <1>10, <2>1, <3>1, <3>3 DEF ClosedLtmCell
    <3> QED BY <3>2, <3>3
  <2> QED BY <2>2
<1>20. \A k \in Keys : LtmCell(k)' = LtmCell(k)
  BY <1>1, <1>5, <1>17, LtmCellStays
<1>21. Control'
  BY <1>1, <1>2, ControlStays DEF Final
<1>22. ColumnsExact'
  BY <1>1, <1>3 DEF ColumnsExact, BeforeLtm, BeforeAxis
<1>23. RowsExact'
  BY <1>4, <1>6, <1>13, <1>17 DEF RowsExact
<1>24. CellsExact'
  <2>1. ASSUME NEW k \in Keys, NEW y \in Window PROVE cells'[k][FY(y)] = ClosedYearCell(k, y)'
    <3>1. FY(y) \in YearLabels
      BY DEF YearLabels
    <3>2. cells[k][FY(y)] = ClosedYearCell(k, y)
      BY <1>1, <1>6 DEF IInv, CellsExact
    <3> QED BY <1>1, <1>17, <3>1, <3>2, ClosedStays
  <2>2. ASSUME NEW k \in Keys PROVE cells'[k][Ltm.label] = ClosedLtmCell(k)'
    <3>1. cells'[k][Ltm.label] = ClosedLtmCell(k)
      <4>1. CASE k = Anchor
        BY <1>18, <4>1, KeysApart DEF ClosedLtmCell
      <4>2. CASE k # Anchor
        BY <1>7, <1>19, <4>2
      <4> QED BY <4>1, <4>2
    <3>2. ClosedLtmCell(k)' = ClosedLtmCell(k)
      BY <1>20 DEF ClosedLtmCell, Balance, IsBackfilled, Sheet
    <3> QED BY <3>1, <3>2
  <2>3. stage' \in Final /\ stage' \notin {"fill", "derive"}
    BY <1>1 DEF Final
  <2> QED BY <1>4, <1>6, <2>1, <2>2, <2>3, <1>7 DEF CellsExact
<1>25. NwcExact'
  <2>1. ASSUME NEW n \in 1..Columns
        PROVE  cells'[Nwc][Axis[n].label] =
                 IF n = 1 THEN Missing ELSE ChangeInNwc(cells', Axis[n].label, Axis[n - 1].label)
    <3>1. Axis[n].label \in YearLabels /\ (n # 1 => Axis[n - 1].label \in YearLabels)
      <4>1. \A m \in 1..Columns : Axis[m].label \in YearLabels
        BY <1>2, AxisColumns DEF YearLabels
      <4> QED BY <1>5, <4>1
    <3>2. cells[Nwc][Axis[n].label] =
            IF n = 1 THEN Missing ELSE ChangeInNwc(cells, Axis[n].label, Axis[n - 1].label)
      BY <1>1 DEF IInv, NwcExact, BeforeAxis
    <3>3. n # 1 => ChangeInNwc(cells, Axis[n].label, Axis[n - 1].label)
                     = ChangeInNwc(cells', Axis[n].label, Axis[n - 1].label)
      BY <1>17, <3>1, ChangeOfSame
    <3> QED BY <1>17, <3>1, <3>2, <3>3
  <2>2. LtmNwc(filled) = LtmNwc(cells)'
    <3>1. IsCaseA' = IsCaseA
      BY <1>1 DEF IsCaseA
    <3>2. CASE IsCaseA
      <4>1. NwcInputs \subseteq Keys => \A k \in NwcInputs : filled[k] = cells'[k]
        <5>1. ASSUME NEW k \in NwcInputs, NwcInputs \subseteq Keys PROVE k \in AllItems
          BY <1>7, <5>1, KeysApart
        <5> QED BY <1>13, <5>1
      <4>2. ChangeInNwc(filled, Ltm.label, LatestFy.label) = ChangeInNwc(cells', Ltm.label, LatestFy.label)
        BY <4>1, ChangeOfSame
      <4>3. ChangeInNwc(cells, Ltm.label, LatestFy.label)'
              = ChangeInNwc(cells', Ltm.label, LatestFy.label)
        BY <1>4
      <4> QED BY <3>1, <3>2, <4>2, <4>3 DEF LtmNwc
    <3>3. CASE ~IsCaseA
      <4>1. LtmNwc(cells)' = cells'[Nwc][LatestFy.label]
        BY <1>4, <3>1, <3>3 DEF LtmNwc, Nwc
      <4>2. LtmNwc(filled) = filled[Nwc][LatestFy.label]
        BY <3>3 DEF LtmNwc, Nwc
      <4> QED BY <1>5, <1>14, <1>17, <4>1, <4>2
    <3> QED BY <3>2, <3>3
  <2>3. \A n : ChangeInNwc(cells, Axis[n].label, Axis[n - 1].label)'
                = ChangeInNwc(cells', Axis[n].label, Axis[n - 1].label)
    BY <1>4
  <2> QED BY <1>4, <1>18, <2>1, <2>2, <2>3 DEF NwcExact
<1>26. WarningsExact'
  BY <1>1, <1>6, <1>7, WarningsStay DEF IInv
<1> QED BY <1>21, <1>22, <1>23, <1>24, <1>25, <1>26 DEF IInv

\* a step between the last stages that leaves the columns and cells alone
LEMMA FinalKeeps ==
  ASSUME IInv, stage \in Final, stage' \in Final,
         UNCHANGED <<company, item, series, periods, cells, spans>>
  PROVE  Control' /\ ColumnsExact' /\ RowsExact' /\ CellsExact' /\ NwcExact'
         /\ FilledKeys' = FilledKeys /\ LtmKeys' = LtmKeys
<1> DEFINE early == BeforeLtm \cup {"fill_ltm", "finish_ltm", "anchor", "classify"}
<1>1. \A s \in Final : s \notin early /\ s \notin BeforeAxis
  BY DEF Final, BeforeLtm, BeforeAxis
<1>2. stage \notin early /\ stage' \notin early /\ stage \notin BeforeAxis /\ stage' \notin BeforeAxis
  BY <1>1
<1>3. FilledKeys' = FilledKeys /\ LtmKeys' = LtmKeys
  BY <1>2 DEF FilledKeys, LtmKeys, BeforeLtm
<1>4. company \in Companies /\ SeriesExact /\ item = 1 /\ item \in 1..Len(Items)
  BY <1>2 DEF IInv, Control, BeforeLtm
<1>5. /\ Axis' = Axis /\ Columns' = Columns /\ YearLabels' = YearLabels /\ Window' = Window
      /\ Ltm' = Ltm /\ LatestFy' = LatestFy /\ IsCaseA' = IsCaseA
  BY AxisUnchanged, AxisStays DEF Ltm, LatestFy, IsCaseA
<1>6. Control'
  BY <1>2, <1>4, ControlStays
<1>7. ColumnsExact'
  <2>1. LtmAppended => LtmAppended'
    BY LtmStays
  <2> QED BY <1>2, <1>5, <2>1 DEF IInv, ColumnsExact, BeforeLtm
<1>8. RowsExact'
  BY <1>3, <1>5 DEF IInv, RowsExact
<1>9. CellsExact'
  <2>1. \A k \in FilledKeys \cap Keys : \A y \in Window : cells[k][FY(y)] = ClosedYearCell(k, y)'
    BY <1>2, ClosedStays DEF IInv, CellsExact, BeforeLtm
  <2>2. \A k : LtmCell(k)' = LtmCell(k)
    BY <1>5, LtmCellStays
  <2>3. \A k : ClosedLtmCell(k)' = ClosedLtmCell(k)
    BY <2>2 DEF ClosedLtmCell, Balance, IsBackfilled, Sheet
  <2>4. \A k \in LtmKeys \cap Keys : cells[k][Ltm.label] = ClosedLtmCell(k)'
    BY <2>3 DEF IInv, CellsExact
  <2> QED BY <1>2, <1>3, <1>5, <2>1, <2>4 DEF CellsExact, BeforeLtm
<1>10. NwcExact'
  <2>1. \A n : ChangeInNwc(cells, Axis[n].label, Axis[n - 1].label)'
                = ChangeInNwc(cells, Axis[n].label, Axis[n - 1].label)
    BY <1>5
  <2>2. LtmNwc(cells)' = LtmNwc(cells)
    BY <1>5 DEF LtmNwc
  <2> QED BY <1>2, <1>5, <2>1, <2>2 DEF IInv, NwcExact, BeforeLtm
<1> QED BY <1>3, <1>6, <1>7, <1>8, <1>9, <1>10

\* the warning about debt keeps it
LEMMA CheckDebtKeeps == IInv /\ CheckDebt => IInv'
<1> SUFFICES ASSUME IInv, CheckDebt PROVE IInv'
  OBVIOUS
<1>1. /\ stage = "debt" /\ stage' = "assemble"
      /\ UNCHANGED <<company, item, series, periods, cells, spans>>
      /\ warnings' = warnings \/ warnings' = warnings \cup {Warning("DEBT_CONVENTION_UNKNOWN")}
  BY DEF CheckDebt
<1>2. WarningsExact'
  <2> DEFINE w0 == Warning("DEBT_CONVENTION_UNKNOWN")
  <2>1. /\ w0.code = "DEBT_CONVENTION_UNKNOWN"
        /\ w0.code \in Codes /\ w0.code # "STITCH_DISAGREEMENT" /\ w0.code \notin HistoryCodes
    BY DEF Warning, Codes, HistoryCodes
  <2> HIDE DEF w0
  <2>2. (\A w \in warnings' : w \in warnings \/ w = w0) /\ warnings \subseteq warnings'
    BY <1>1 DEF w0
  <2>3. FilledKeys' = FilledKeys /\ LtmKeys' = LtmKeys
    BY <1>1 DEF FilledKeys, LtmKeys, BeforeAxis, Final
  <2>4. Window' = Window /\ YearLabels' = YearLabels /\ Ltm' = Ltm /\ IsCaseA' = IsCaseA
    BY <1>1, AxisStays, AxisUnchanged DEF Ltm, IsCaseA
  <2>5. \A k, l : Raised(k, l)' <=> Raised(k, l)
    <3>1. /\ \A k, fy : FillDisagrees(k, PeriodOf(fy))' <=> FillDisagrees(k, PeriodOf(fy))
          /\ \A k : SpanDisagrees(k, NoStart, Ltm.end)' <=> SpanDisagrees(k, NoStart, Ltm.end)
      BY <1>1, <2>4, FillStays, SpanStays
    <3> QED BY <2>3, <2>4, <3>1 DEF Raised
  <2>6. \A w \in warnings' : w.code \in Codes
    BY <2>1, <2>2 DEF IInv, WarningsExact
  <2>7. \A w \in warnings' : w.code = "STITCH_DISAGREEMENT" /\ w.key \in Keys \ {Anchor} =>
          w = Disagreement(w.key, w.label) /\ Raised(w.key, w.label)'
    BY <2>1, <2>2, <2>5 DEF IInv, WarningsExact
  <2>8. \A key \in Keys \ {Anchor} : \A label \in YearLabels \cup Labels(periods) :
          Raised(key, label)' => Disagreement(key, label) \in warnings'
    BY <2>2, <2>5 DEF IInv, WarningsExact
  <2>9. \A code \in HistoryCodes :
          (\E w \in warnings' : w.code = code) <=> (\E w \in warnings : w.code = code)
    BY <2>1, <2>2
  <2>10. HistoryWarnings(Cardinality(DOMAIN series))' = HistoryWarnings(Cardinality(DOMAIN series))
    BY <1>1 DEF HistoryWarnings
  <2>11. \A code \in HistoryCodes : (\E w \in warnings : w.code = code)
                              <=> code \in HistoryWarnings(Cardinality(DOMAIN series))
    BY <1>1 DEF IInv, WarningsExact
  <2>12. Labels(periods)' = Labels(periods) /\ stage' \notin {"anchor", "classify"}
    BY <1>1
  <2> QED BY <2>4, <2>6, <2>7, <2>8, <2>9, <2>10, <2>11, <2>12 DEF WarningsExact
<1>3. stage \in Final /\ stage' \in Final
  BY <1>1 DEF Final
<1> QED BY <1>1, <1>2, <1>3, FinalKeeps DEF IInv

-----------------------------------------------------------------------------
(* what the schema asks of every cell *)

\* a backfilled cell is good if the cells it is made of are
LEMMA BalanceGood ==
  ASSUME NEW c, NEW assets, NEW equity, CellOK(c), CellOK(assets), CellOK(equity)
  PROVE  CellOK(Balance(c, assets, equity))
<1>1. CASE IsGap(c) /\ ~IsGap(assets) /\ ~IsGap(equity)
  <2>1. assets.src \cup equity.src # {}
    BY <1>1 DEF CellOK
  <2> QED BY <1>1, <2>1, DerivedCell DEF Balance
<1>2. CASE ~(IsGap(c) /\ ~IsGap(assets) /\ ~IsGap(equity))
  BY <1>2 DEF Balance
<1> QED BY <1>1, <1>2

\* ... and so is an LTM flow,
LEMMA FlowGood ==
  ASSUME NEW c, NEW this, NEW prior, CellOK(c), CellOK(this), CellOK(prior)
  PROVE  CellOK(FlowLtm(c, this, prior))
<1>1. CASE IsGap(c) \/ IsGap(this) \/ IsGap(prior)
  BY <1>1, MissingCell DEF FlowLtm
<1>2. CASE ~(IsGap(c) \/ IsGap(this) \/ IsGap(prior))
  <2>1. c.src \cup this.src \cup prior.src # {}
    BY <1>2 DEF CellOK
  <2> QED BY <1>2, <2>1, DerivedCell DEF FlowLtm
<1> QED BY <1>1, <1>2

\* ... and a derived change, always
LEMMA ChangeGood ==
  ASSUME NEW c, NEW label, NEW prior, \A key \in Keys : CellOK(c[key][label])
  PROVE  CellOK(ChangeInNwc(c, label, prior))
<1> DEFINE cell == ChangeInNwc(c, label, prior)
           src == UNION {c[key][l].src : key \in NwcInputs, l \in {label, prior}}
           At(l) == c["accounts_receivable"][l].value + c["inventory"][l].value
                      - c["accounts_payable"][l].value
<1>1. CASE cell = Missing
  BY <1>1, MissingCell
<1>2. CASE cell # Missing
  <2>1. /\ NwcInputs \subseteq Keys
        /\ \A key \in NwcInputs : ~IsGap(c[key][label])
    BY <1>2 DEF ChangeInNwc
  <2>2. cell = CellOf(At(label) - At(prior), "derived", Blank, src)
    BY <1>2 DEF ChangeInNwc
  <2>3. "inventory" \in NwcInputs
    BY DEF NwcInputs
  <2>4. c["inventory"][label].src # {}
    BY <2>1, <2>3 DEF CellOK
  <2>5. src # {}
    BY <2>3, <2>4
  <2> HIDE DEF src, At
  <2> QED BY <2>2, <2>5, DerivedCell
<1> QED BY <1>1, <1>2

\* a period begins before it ends, whichever last column is taken
LEMMA LtmDates ==
  ASSUME company \in Companies, SeriesExact, LtmAppended
  PROVE  /\ Ltm.start \in Int /\ Ltm.end \in Int /\ Ltm.start < Ltm.end
         /\ LatestFy.start \in Nat /\ LatestFy.end \in Nat /\ LatestFy.start < LatestFy.end
         /\ LatestFy.start # NoStart
         /\ ~LatestFy.ltm
<1>1. LatestFy = PeriodOf(AxisYears[Columns]) /\ AxisYears[Columns] \in AnchorYears
  BY LastColumns, WindowIsLatest
<1>2. /\ LatestFy.start \in Nat /\ LatestFy.end \in Nat /\ LatestFy.start < LatestFy.end
      /\ LatestFy.start # NoStart /\ ~LatestFy.ltm
  BY <1>1, PeriodOfYear
<1>3. CASE Genuine
  <2>1. PICK this \in Stubs(LatestFy) : Ltm = LtmPeriod(this)
    BY <1>3 DEF Genuine
  <2>2. this.end \in Nat
    BY <2>1, AnchorFactsAre DEF Stubs
  <2> QED BY <1>2, <2>1, <2>2, CalendarAssumption DEF LtmPeriod, YearBefore
<1>4. CASE Ltm = Fallback(LatestFy)
  <2>1. Ltm.start = LatestFy.start /\ Ltm.end = LatestFy.end
    BY <1>1, <1>4 DEF Fallback, PeriodOf
  <2> QED BY <1>2, <2>1
<1> QED BY <1>3, <1>4 DEF LtmAppended

\* the cells of the years are good, closed or not
LEMMA YearCellGood ==
  ASSUME company \in Companies, SeriesExact, NEW key \in Keys, NEW fy \in Window
  PROVE  CellOK(YearCell(key, fy)) /\ CellOK(ClosedYearCell(key, fy))
<1>1. fy \in AnchorYears
  BY WindowIsLatest
<1>2. PeriodOf(fy).end \in Int
  BY <1>1, PeriodOfYear
<1>3. ASSUME NEW k \in Keys PROVE CellOK(YearCell(k, fy))
  <2>1. CASE k = Anchor
    BY <1>1, <2>1, SeriesCell DEF YearCell
  <2>2. CASE k # Anchor
    <3>1. YearCell(k, fy) = Fill(k, PeriodOf(fy))
      BY <2>2 DEF YearCell
    <3>2. CellOK(ResolveCover(k, PeriodOf(fy).end))
      BY <1>2, CoverCell
    <3>3. /\ CellOK(ResolveSpan(k, NoStart, PeriodOf(fy).end))
          /\ CellOK(ResolveSpan(k, PeriodOf(fy).start, PeriodOf(fy).end))
      BY SpanCell
    <3> QED BY <3>1, <3>2, <3>3 DEF Fill
  <2> QED BY <2>1, <2>2
<1>4. CellOK(ClosedYearCell(key, fy))
  <2>1. CASE IsBackfilled(key)
    <3>1. "total_assets" \in Keys /\ "total_equity" \in Keys
      BY <2>1 DEF IsBackfilled, Sheet
    <3> QED BY <1>3, <2>1, <3>1, BalanceGood DEF ClosedYearCell
  <2>2. CASE ~IsBackfilled(key)
    BY <1>3, <2>2 DEF ClosedYearCell
  <2> QED BY <2>1, <2>2
<1> QED BY <1>3, <1>4

\* the LTM column is there
HasLtm == stage \in {"fill_ltm", "finish_ltm"} \/ (stage \in Final /\ periods # <<>>)

\* what is in the years' columns by then
LEMMA YearsBeforeLtm ==
  ASSUME IInv, HasLtm
  PROVE  /\ company \in Companies /\ SeriesExact /\ LtmAppended
         /\ FilledKeys = Keys \cup {Nwc}
         /\ \A key \in Keys : \A fy \in Window :
              cells[key][FY(fy)] = ClosedYearCell(key, fy) /\ CellOK(cells[key][FY(fy)])
         /\ \A key \in Keys \cup {Nwc} : \A l \in YearLabels : l \in DOMAIN cells[key]
<1> DEFINE early == BeforeAxis \cup {"fill", "derive", "anchor"}
<1>1. stage \notin early
  BY DEF HasLtm, BeforeAxis, Final
<1>2. company \in Companies /\ SeriesExact
  BY <1>1 DEF IInv, Control
<1>3. LtmAppended
  BY DEF IInv, ColumnsExact, HasLtm
<1>4. FilledKeys = Keys \cup {Nwc}
  BY <1>1 DEF FilledKeys
<1>5. \A key \in Keys : \A fy \in Window :
        cells[key][FY(fy)] = ClosedYearCell(key, fy) /\ CellOK(cells[key][FY(fy)])
  BY <1>1, <1>2, <1>4, YearCellGood DEF IInv, CellsExact
<1>6. \A key \in Keys \cup {Nwc} : \A l \in YearLabels : l \in DOMAIN cells[key]
  BY <1>4 DEF IInv, RowsExact
<1> QED BY <1>2, <1>3, <1>4, <1>5, <1>6

\* ... and so are those of the LTM column
LEMMA LtmCellGood ==
  ASSUME IInv, HasLtm, NEW key \in Keys
  PROVE  CellOK(LtmCell(key)) /\ CellOK(ClosedLtmCell(key))
<1>1. company \in Companies /\ SeriesExact /\ LtmAppended
  BY YearsBeforeLtm
<1>2. /\ LatestFy.label = FY(AxisYears[Columns]) /\ AxisYears[Columns] \in Window
      /\ LatestFy = PeriodOf(AxisYears[Columns])
  BY <1>1, LabelsApart, LastColumns
<1>3. Ltm.end \in Int
  BY <1>1, LtmDates
<1>4. ASSUME NEW k \in Keys PROVE CellOK(LtmCell(k))
  <2>1. CellOK(cells[k][LatestFy.label])
    BY <1>2, YearsBeforeLtm
  <2>2. CellOK(ResolveCover(k, Ltm.end))
    BY <1>1, <1>3, CoverCell
  <2>3. /\ CellOK(ResolveSpan(k, NoStart, Ltm.end))
        /\ CellOK(ResolveSpan(k, spans[1].start, spans[1].end))
        /\ CellOK(ResolveSpan(k, spans[2].start, spans[2].end))
    BY SpanCell
  <2>4. CellOK(FlowLtm(cells[k][LatestFy.label], ResolveSpan(k, spans[1].start, spans[1].end),
                       ResolveSpan(k, spans[2].start, spans[2].end)))
    BY <2>1, <2>3, FlowGood
  <2> QED BY <2>1, <2>2, <2>3, <2>4 DEF LtmCell
<1>5. CellOK(ClosedLtmCell(key))
  <2>1. CASE IsBackfilled(key)
    <3>1. "total_assets" \in Keys /\ "total_equity" \in Keys
      BY <2>1 DEF IsBackfilled, Sheet
    <3> QED BY <1>4, <2>1, <3>1, BalanceGood DEF ClosedLtmCell
  <2>2. CASE ~IsBackfilled(key)
    BY <1>4, <2>2 DEF ClosedLtmCell
  <2> QED BY <2>1, <2>2
<1> QED BY <1>4, <1>5

\* in every state every cell is one the schema takes
LEMMA CellsGood ==
  ASSUME IInv, NEW key \in DOMAIN cells, NEW l \in DOMAIN cells[key]
  PROVE  CellOK(cells[key][l])
<1>1. /\ key \in Keys \cup {Nwc}
      /\ \/ key \in FilledKeys /\ l \in YearLabels
         \/ key \in LtmKeys /\ l = Ltm.label
  BY DEF IInv, RowsExact
<1>2. company \in Companies /\ (stage # "anchor" => SeriesExact)
  BY DEF IInv, Control
<1>3. ASSUME key \in LtmKeys PROVE HasLtm
  BY <1>3 DEF LtmKeys, HasLtm
<1>4. CASE key \in Keys /\ key \in FilledKeys /\ l \in YearLabels
  <2>1. stage \notin BeforeAxis
    BY <1>4, NothingFilled
  <2>2. SeriesExact
    BY <1>2, <2>1 DEF BeforeAxis
  <2>3. PICK fy \in Window : l = FY(fy)
    BY <1>4 DEF YearLabels
  <2>4. cells[key][l] = YearCell(key, fy) \/ cells[key][l] = ClosedYearCell(key, fy)
    BY <1>4, <2>3 DEF IInv, CellsExact
  <2> QED BY <1>2, <1>4, <2>2, <2>4, YearCellGood
<1>5. CASE key \in Keys /\ key \in LtmKeys /\ l = Ltm.label
  <2>1. cells[key][l] = LtmCell(key) \/ cells[key][l] = ClosedLtmCell(key)
    BY <1>5 DEF IInv, CellsExact
  <2> QED BY <1>3, <1>5, <2>1, LtmCellGood
<1>6. CASE key = Nwc
  <2>1. stage \notin BeforeAxis \cup {"fill", "derive"}
    <3>1. Nwc \notin Keys /\ ItemsBefore(item) \subseteq Keys /\ Nwc # Anchor
      <4>1. \A n \in 1..(item - 1) : n \in DOMAIN Items
        BY ItemsAre DEF IInv, Control
      <4> QED BY <4>1, KeysApart DEF ItemsBefore, Keys
    <3>2. stage \notin BeforeAxis
      BY <1>1, <1>6, NothingFilled
    <3>3. stage \notin {"fill", "derive"}
      BY <1>1, <1>6, <3>1, <3>2 DEF FilledKeys, LtmKeys, Final
    <3> QED BY <3>2, <3>3
  <2>2. SeriesExact /\ company \in Companies
    BY <1>2, <2>1 DEF BeforeAxis
  <2>3. FilledKeys = Keys \cup {Nwc}
    BY <2>1 DEF FilledKeys
  <2>4. \A k \in Keys : \A fy \in Window : CellOK(cells[k][FY(fy)])
    BY <2>1, <2>2, <2>3, YearCellGood DEF IInv, CellsExact
  <2>5. /\ Columns \in Nat
        /\ \A n \in 1..Columns : AxisYears[n] \in Window /\ Axis[n].label = FY(AxisYears[n])
    BY <2>2, AxisColumns, WindowIsLatest
  <2>6. CASE l \in YearLabels
    <3>1. PICK n \in 1..Columns : l = Axis[n].label
      <4>1. PICK fy \in Window : l = FY(fy)
        BY <2>6 DEF YearLabels
      <4>2. PICK n \in 1..Columns : AxisYears[n] = fy
        BY <2>2, AxisInOrder
      <4> QED BY <2>5, <4>1, <4>2
    <3>2. cells[Nwc][l] = IF n = 1 THEN Missing
                          ELSE ChangeInNwc(cells, Axis[n].label, Axis[n - 1].label)
      BY <2>1, <3>1 DEF IInv, NwcExact
    <3>3. n # 1 => CellOK(ChangeInNwc(cells, Axis[n].label, Axis[n - 1].label))
      <4>1. n # 1 => n - 1 \in 1..Columns
        BY <2>5
      <4> QED BY <2>4, <2>5, <4>1, ChangeGood
    <3> QED BY <1>6, <3>2, <3>3, MissingCell
  <2>7. CASE l = Ltm.label /\ Nwc \in LtmKeys
    <3>1. HasLtm
      BY <1>3, <1>6, <2>7
    <3>2. LtmAppended
      BY <3>1, YearsBeforeLtm
    <3>3. stage \in Final /\ periods # <<>>
      <4>1. Nwc \notin AllItems /\ ItemsBefore(item) \subseteq AllItems
        <5>1. \A n \in 1..(item - 1) : n \in DOMAIN Items
          BY ItemsAre DEF IInv, Control
        <5> QED BY <5>1, KeysApart DEF ItemsBefore, AllItems, Keys
      <4> QED BY <2>7, <4>1 DEF LtmKeys
    <3>4. cells[Nwc][l] = LtmNwc(cells)
      BY <2>7, <3>3 DEF IInv, NwcExact
    <3>5. LatestFy.label = FY(AxisYears[Columns]) /\ AxisYears[Columns] \in Window
      BY <2>2, <3>2, LabelsApart, LastColumns
    <3>6. CASE IsCaseA
      <4>1. \A k \in Keys : CellOK(cells[k][Ltm.label])
        <5>1. ASSUME NEW k \in Keys PROVE cells[k][Ltm.label] = ClosedLtmCell(k)
          BY <3>3 DEF LtmKeys, IInv, CellsExact, Final
        <5> QED BY <3>1, <5>1, LtmCellGood
      <4>2. CellOK(ChangeInNwc(cells, Ltm.label, LatestFy.label))
        BY <2>4, <3>5, <4>1, ChangeGood
      <4> QED BY <1>6, <3>4, <3>6, <4>2 DEF LtmNwc
    <3>7. CASE ~IsCaseA
      <4>1. cells[Nwc][l] = cells[Nwc][LatestFy.label]
        BY <3>4, <3>7 DEF LtmNwc, Nwc
      <4>2. Columns \in 1..Columns /\ LatestFy.label = Axis[Columns].label
        BY <2>2, <2>5, <3>2, LastColumns DEF LtmAppended
      <4>3. cells[Nwc][l] = IF Columns = 1 THEN Missing
                            ELSE ChangeInNwc(cells, Axis[Columns].label, Axis[Columns - 1].label)
        BY <2>1, <4>1, <4>2 DEF IInv, NwcExact
      <4>4. Columns # 1 => CellOK(ChangeInNwc(cells, Axis[Columns].label, Axis[Columns - 1].label))
        <5>1. Columns # 1 => Columns - 1 \in 1..Columns
          BY <2>5, <4>2
        <5> QED BY <2>4, <2>5, <4>2, <5>1, ChangeGood
      <4> QED BY <1>6, <4>3, <4>4, MissingCell
    <3> QED BY <3>6, <3>7
  <2> QED BY <1>1, <1>6, <2>6, <2>7
<1> QED BY <1>1, <1>4, <1>5, <1>6

-----------------------------------------------------------------------------
(* the model is assembled: the invariant is inductive *)

\* the axis may be empty: then there is no column at all
LEMMA NoColumns ==
  ASSUME company \in Companies, SeriesExact, Columns = 0, periods = <<>>
  PROVE  Window = {} /\ YearLabels = {} /\ DOMAIN periods = {} /\ AnchorYears = {}
<1>1. Window = {}
  BY WindowIsLatest, FS_EmptySet DEF Columns
<1>2. AnchorYears = {}
  BY <1>1, WindowIsLatest, MappingAssumption
<1> QED BY <1>1, <1>2 DEF YearLabels

\* at the end there is a last column, or no column at all
LEMMA FinalColumns ==
  ASSUME IInv, stage \in Final
  PROVE  /\ company \in Companies /\ SeriesExact
         /\ FilledKeys = Keys \cup {Nwc}
         /\ \/ LtmAppended /\ HasLtm /\ periods # <<>> /\ LtmKeys = Keys \cup {Nwc}
            \/ Columns = 0 /\ periods = <<>> /\ spans = <<>> /\ LtmKeys = {}
<1> DEFINE early == BeforeAxis \cup {"fill", "derive", "anchor", "fill_ltm", "finish_ltm"}
<1>1. stage \notin early
  BY DEF BeforeAxis, Final
<1>2. company \in Companies /\ SeriesExact
  BY <1>1 DEF IInv, Control
<1>3. FilledKeys = Keys \cup {Nwc}
  BY <1>1 DEF FilledKeys
<1>4. \/ LtmAppended /\ periods # <<>>
      \/ Columns = 0 /\ periods = <<>> /\ spans = <<>>
  BY <1>2, LastColumns DEF IInv, ColumnsExact
<1>5. LtmKeys = IF periods # <<>> THEN Keys \cup {Nwc} ELSE {}
  BY <1>1 DEF LtmKeys
<1> QED BY <1>2, <1>3, <1>4, <1>5 DEF HasLtm

\* what FinancialModel asks of the columns and rows
LEMMA WellFormedColumns ==
  ASSUME IInv, stage \in Final
  PROVE  /\ \A n \in DOMAIN periods : ValidPeriod(periods[n])
         /\ \A n, m \in DOMAIN periods : periods[n].label = periods[m].label => n = m
         /\ \A n \in DOMAIN periods : periods[n].ltm => n = Len(periods)
         /\ \A key \in DOMAIN cells : DOMAIN cells[key] \subseteq Labels(periods)
<1>1. company \in Companies /\ SeriesExact
  BY FinalColumns
<1>2. CASE LtmAppended
  <2>1. /\ Columns \in Nat /\ Len(periods) = Columns + 1 /\ DOMAIN periods = 1..(Columns + 1)
        /\ Ltm = periods[Columns + 1]
        /\ \A n \in 1..Columns : periods[n] = Axis[n]
    BY <1>1, <1>2, LastColumns
  <2>2. ASSUME NEW n \in 1..Columns
        PROVE  /\ ValidPeriod(periods[n]) /\ ~periods[n].ltm /\ periods[n].label \in YearLabels
    <3>1. periods[n] = PeriodOf(AxisYears[n]) /\ AxisYears[n] \in Window
      BY <1>1, <2>1, AxisColumns
    <3>2. AxisYears[n] \in AnchorYears
      BY <1>1, <3>1, WindowIsLatest
    <3> QED BY <1>1, <3>1, <3>2, PeriodOfYear DEF ValidPeriod, YearLabels
  <2>3. ValidPeriod(Ltm) /\ Ltm.label \notin YearLabels
    BY <1>1, <1>2, LtmDates, LabelsApart DEF ValidPeriod
  <2>4. \A n \in DOMAIN periods : n \in 1..Columns \/ n = Columns + 1
    BY <2>1
  <2>5. \A n, m \in 1..Columns : periods[n].label = periods[m].label => n = m
    BY <1>1, <2>1, AxisColumns
  <2>6. \A l \in YearLabels \cup {Ltm.label} : l \in Labels(periods)
    <3>1. \A l \in YearLabels : \E n \in 1..Columns : l = periods[n].label
      <4>1. ASSUME NEW l \in YearLabels PROVE \E n \in 1..Columns : l = periods[n].label
        <5>1. PICK fy \in Window : l = FY(fy)
          BY DEF YearLabels
        <5>2. PICK n \in 1..Columns : AxisYears[n] = fy
          BY <1>1, AxisInOrder
        <5>3. periods[n].label = FY(AxisYears[n])
          BY <1>1, <2>1, AxisColumns
        <5> QED BY <5>1, <5>2, <5>3
      <4> QED BY <4>1
    <3>2. \A n \in 1..(Columns + 1) : periods[n].label \in Labels(periods)
      BY <2>1 DEF Labels
    <3>3. Columns + 1 \in 1..(Columns + 1) /\ \A n \in 1..Columns : n \in 1..(Columns + 1)
      BY <2>1
    <3> QED BY <2>1, <3>1, <3>2, <3>3
  <2>7. \A key \in DOMAIN cells : \A l \in DOMAIN cells[key] : l \in YearLabels \cup {Ltm.label}
    BY DEF IInv, RowsExact
  <2> QED BY <2>1, <2>2, <2>3, <2>4, <2>5, <2>6, <2>7
<1>3. CASE Columns = 0 /\ periods = <<>> /\ LtmKeys = {}
  <2>1. DOMAIN periods = {} /\ YearLabels = {}
    BY <1>1, <1>3, NoColumns
  <2> QED BY <1>3, <2>1 DEF IInv, RowsExact
<1> QED BY <1>2, <1>3, FinalColumns

\* FinancialModel takes what the pipeline built
LEMMA AlwaysWellFormed ==
  ASSUME IInv, stage \in Final
  PROVE  WellFormed
<1>1. \A key \in DOMAIN cells : \A l \in DOMAIN cells[key] : ValidProvenance(cells[key][l])
  BY CellsGood DEF CellOK
<1>2. \A w \in warnings : w.code \in Codes
  BY DEF IInv, WarningsExact
<1>3. IsInjective([n \in DOMAIN periods |-> periods[n].label])
  BY WellFormedColumns DEF IsInjective
<1> QED BY <1>1, <1>2, <1>3, WellFormedColumns DEF WellFormed

\* the constructor of FinancialModel, which refuses nothing, keeps it
LEMMA AssembleKeeps == IInv /\ Assemble => IInv'
<1> SUFFICES ASSUME IInv, Assemble PROVE IInv'
  OBVIOUS
<1>1. /\ stage = "assemble" /\ stage' = IF WellFormed THEN "done" ELSE "rejected"
      /\ UNCHANGED <<company, item, series, periods, cells, spans, warnings>>
  BY DEF Assemble
<1>2. stage \in Final
  BY <1>1 DEF Final
<1>3. stage' = "done" /\ stage' \in Final
  BY <1>1, <1>2, AlwaysWellFormed DEF Final
<1>4. /\ Control' /\ ColumnsExact' /\ RowsExact' /\ CellsExact' /\ NwcExact'
      /\ FilledKeys' = FilledKeys /\ LtmKeys' = LtmKeys
  BY <1>1, <1>2, <1>3, FinalKeeps
<1>5. WarningsExact'
  BY <1>1, <1>3, <1>4, WarningsStay DEF IInv
<1> QED BY <1>4, <1>5 DEF IInv

LEMMA StutterKeeps == IInv /\ UNCHANGED vars => IInv'
<1> SUFFICES ASSUME IInv, UNCHANGED vars PROVE IInv'
  OBVIOUS
<1> USE DEF vars
<1>1. /\ Axis' = Axis /\ Columns' = Columns /\ YearLabels' = YearLabels /\ Window' = Window
      /\ Ltm' = Ltm /\ LatestFy' = LatestFy /\ IsCaseA' = IsCaseA
      /\ FilledKeys' = FilledKeys /\ LtmKeys' = LtmKeys
  BY AxisUnchanged, AxisStays DEF Ltm, LatestFy, IsCaseA, FilledKeys, LtmKeys, ItemsBefore
<1>2. SeriesExact => SeriesExact'
  <2>1. AnchorYears' = AnchorYears
        /\ \A fy : AnnualTags(fy)' = AnnualTags(fy) /\ LastAnnual(fy)' = LastAnnual(fy)
    BY AnnualStay
  <2>2. \A fy : FromTags(Anchor, AnnualTags(fy), LastAnnual(fy))'
                 = FromTags(Anchor, AnnualTags(fy), LastAnnual(fy))
    BY <2>1 DEF FromTags
  <2> QED BY <2>1, <2>2 DEF SeriesExact
<1>3. Control'
  BY <1>2 DEF IInv, Control
<1>4. ColumnsExact'
  BY <1>1, LtmStays DEF IInv, ColumnsExact
<1>5. RowsExact'
  BY <1>1 DEF IInv, RowsExact
<1>6. CellsExact'
  <2>1. /\ \A k, y : YearCell(k, y)' = YearCell(k, y)
        /\ \A k, y : ClosedYearCell(k, y)' = ClosedYearCell(k, y)
    BY FillStays, ClosedStays
  <2>2. \A k : LtmCell(k)' = LtmCell(k)
    BY <1>1, LtmCellStays
  <2>3. \A k : ClosedLtmCell(k)' = ClosedLtmCell(k)
    BY <2>2 DEF ClosedLtmCell, Balance, IsBackfilled, Sheet
  <2> QED BY <1>1, <2>1, <2>2, <2>3 DEF IInv, CellsExact
<1>7. NwcExact'
  <2>1. \A n : ChangeInNwc(cells, Axis[n].label, Axis[n - 1].label)'
                = ChangeInNwc(cells, Axis[n].label, Axis[n - 1].label)
    BY <1>1
  <2>2. LtmNwc(cells)' = LtmNwc(cells)
    BY <1>1 DEF LtmNwc
  <2> QED BY <1>1, <2>1, <2>2 DEF IInv, NwcExact
<1>8. WarningsExact'
  <2>1. \A k, l : Raised(k, l)' <=> Raised(k, l)
    <3>1. /\ \A k, fy : FillDisagrees(k, PeriodOf(fy))' <=> FillDisagrees(k, PeriodOf(fy))
          /\ \A k : SpanDisagrees(k, NoStart, Ltm.end)' <=> SpanDisagrees(k, NoStart, Ltm.end)
      BY <1>1, FillStays, SpanStays
    <3> QED BY <1>1, <3>1 DEF Raised
  <2>2. HistoryWarnings(Cardinality(DOMAIN series))' = HistoryWarnings(Cardinality(DOMAIN series))
    BY DEF HistoryWarnings
  <2>3. Labels(periods)' = Labels(periods)
    OBVIOUS
  <2> QED BY <1>1, <2>1, <2>2, <2>3 DEF IInv, WarningsExact
<1> QED BY <1>3, <1>4, <1>5, <1>6, <1>7, <1>8 DEF IInv

\* the invariant is inductive
LEMMA Inductive == IInv /\ [Next]_vars => IInv'
BY ResolveAnchorKeeps, ClassifyKeeps, BuildAxisKeeps, FillItemKeeps, DeriveKeeps,
   ProposeLtmKeeps, FillLtmKeeps, FinishLtmKeeps, CheckDebtKeeps, AssembleKeeps,
   StutterKeeps DEF Next, Finished

\* IInv holds throughout build_financial_model: at each stage series,
\* columns, rows, cells and warnings are exactly what the facts reported so
\* far determine.
THEOREM Invariant == Spec => []IInv
BY InitHolds, Inductive, PTL DEF Spec

-----------------------------------------------------------------------------
(* types, and the axis *)

LEMMA TypeHolds == IInv => TypeOK
<1> SUFFICES ASSUME IInv PROVE TypeOK
  OBVIOUS
<1>1. item \in DOMAIN Items
  BY ItemsAre DEF IInv, Control
<1>2. stage \in {"anchor", "classify", "axis", "fill", "derive", "ltm", "fill_ltm",
                 "finish_ltm", "debt", "assemble", "done", "rejected"}
  BY DEF IInv, Control, BeforeLtm, BeforeAxis, Final
<1>3. \/ periods = <<>> /\ spans = <<>>
      \/ periods = Axis /\ spans = <<>> /\ SeriesExact
      \/ LtmAppended /\ SeriesExact
  BY <1>2 DEF IInv, Control, ColumnsExact, BeforeLtm, BeforeAxis, Final
<1>4. company \in Companies
  BY DEF IInv, Control
<1>5. Len(periods) <= HistoricalYears + 1 /\ Len(spans) \in {0, 2}
  <2>1. HistoricalYears \in Nat
    BY MappingAssumption
  <2>2. Len(<<>>) = 0
    OBVIOUS
  <2>3. CASE periods = <<>> /\ spans = <<>>
    BY <2>1, <2>2, <2>3
  <2>4. CASE periods = Axis /\ spans = <<>> /\ SeriesExact
    BY <1>4, <2>1, <2>2, <2>4, AxisColumns, WindowIsLatest
  <2>5. CASE LtmAppended /\ SeriesExact
    <3>1. Len(periods) <= HistoricalYears + 1
      BY <1>4, <2>1, <2>5, LastColumns, WindowIsLatest
    <3>2. CASE Genuine
      <4>1. PICK a, b : spans = <<a, b>>
        BY <3>2 DEF Genuine
      <4> QED BY <3>1, <4>1
    <3>3. CASE spans = <<>>
      BY <2>2, <3>1, <3>3
    <3> QED BY <2>5, <3>2, <3>3 DEF LtmAppended
  <2> QED BY <1>3, <2>3, <2>4, <2>5
<1>6. \A key \in DOMAIN cells : \A label \in DOMAIN cells[key] :
        IsGap(cells[key][label]) <=> cells[key][label].src = {}
  BY CellsGood DEF CellOK
<1> QED BY <1>1, <1>2, <1>5, <1>6 DEF TypeOK

\* The state is well typed: the item counter stays inside the mapping, the
\* axis has at most HistoricalYears + 1 columns, a cell is a gap exactly
\* when it has no source fact.
THEOREM TypeCorrect == Spec => []TypeOK
BY Invariant, TypeHolds, PTL

\* build_financial_model always returns: the schema's validating
\* constructors accept whatever the pipeline built, for every company and
\* every mapping.
THEOREM Returns == Spec => []NeverRejected
<1>1. IInv => NeverRejected
  BY DEF IInv, Control, BeforeLtm, BeforeAxis, Final, NeverRejected
<1> QED BY <1>1, Invariant, PTL

\* the columns of a finished model that carry a fiscal year
LEMMA YearColumnsAre ==
  ASSUME IInv, stage \in Final
  PROVE  /\ Columns \in Nat
         /\ \A n : n \in YearColumns <=> n \in 1..Columns
         /\ \A n \in 1..Columns : /\ periods[n] = PeriodOf(AxisYears[n])
                                  /\ periods[n].label = FY(AxisYears[n])
                                  /\ AxisYears[n] \in Window /\ AxisYears[n] \in AnchorYears
                                  /\ ~periods[n].ltm /\ n \in DOMAIN periods
<1>1. company \in Companies /\ SeriesExact
  BY FinalColumns
<1>2. Columns \in Nat
  BY <1>1, WindowIsLatest
<1>3. CASE LtmAppended
  <2>1. /\ DOMAIN periods = 1..(Columns + 1) /\ Ltm = periods[Columns + 1]
        /\ \A n \in 1..Columns : periods[n] = Axis[n]
    BY <1>1, <1>3, LastColumns
  <2>2. ASSUME NEW n \in 1..Columns
        PROVE  /\ periods[n] = PeriodOf(AxisYears[n]) /\ periods[n].label = FY(AxisYears[n])
               /\ AxisYears[n] \in Window /\ AxisYears[n] \in AnchorYears
               /\ ~periods[n].ltm /\ n \in DOMAIN periods
    <3>1. periods[n] = PeriodOf(AxisYears[n]) /\ AxisYears[n] \in Window
      BY <1>1, <2>1, AxisColumns
    <3>2. AxisYears[n] \in AnchorYears
      BY <1>1, <3>1, WindowIsLatest
    <3> QED BY <1>1, <1>2, <2>1, <3>1, <3>2, PeriodOfYear
  <2>3. \A n \in 1..Columns : periods[n].label[1] = "FY"
    BY <2>2 DEF FY
  <2>4. Ltm.label[1] # "FY"
    BY <1>1, <1>3, LabelsApart
  <2>5. \A n : n \in DOMAIN periods <=> n \in 1..Columns \/ n = Columns + 1
    BY <1>2, <2>1
  <2> QED BY <1>2, <2>1, <2>2, <2>3, <2>4, <2>5 DEF YearColumns
<1>4. CASE Columns = 0 /\ periods = <<>>
  BY <1>1, <1>4, NoColumns DEF YearColumns
<1> QED BY <1>3, <1>4, FinalColumns

LEMMA MinOfTwo ==
  ASSUME NEW a \in Nat, NEW b \in Nat
  PROVE  Min({a, b}) = IF a < b THEN a ELSE b
<1>1. {a, b} \subseteq Nat /\ {a, b} # {}
  OBVIOUS
<1>2. Min({a, b}) \in {a, b} /\ \A y \in {a, b} : Min({a, b}) <= y
  <2> DEFINE S == {a, b}
  <2>1. S \subseteq Nat /\ S # {}
    OBVIOUS
  <2> HIDE DEF S
  <2>2. Min(S) \in S /\ \A y \in S : Min(S) <= y
    BY <2>1, MinIsLeast
  <2> QED BY <2>2 DEF S
<1> QED BY <1>2

\* a number by its quotient and its remainder
LEMMA QuotientAndRemainder ==
  ASSUME NEW a \in Int, NEW b \in Nat, b > 0
  PROVE  a = b * (a \div b) + (a % b)
BY Z3

\* the same for a number of days
LEMMA DivideDays ==
  ASSUME NEW a \in Int
  PROVE  /\ a \div YearDays \in Int /\ a % YearDays \in 0..(YearDays - 1)
         /\ a = (a \div YearDays) * YearDays + (a % YearDays)
<1>1. a \div YearDays \in Int /\ a % YearDays \in 0..(YearDays - 1)
  BY CalendarAssumption
<1>2. a = YearDays * (a \div YearDays) + (a % YearDays)
  <2>1. YearDays \in Nat /\ YearDays > 0
    BY CalendarAssumption
  <2> QED BY <2>1, QuotientAndRemainder, Zenon
<1>3. YearDays * (a \div YearDays) = (a \div YearDays) * YearDays
  <2> DEFINE q == a \div YearDays
  <2> HIDE DEF q
  <2>1. q \in Int
    BY <1>1 DEF q
  <2>2. YearDays * q = q * YearDays
    BY <2>1, CalendarAssumption
  <2> QED BY <2>2 DEF q
<1> QED BY <1>1, <1>2, <1>3

\* of two multiples the smaller has the smaller factor
LEMMA SmallerFactor ==
  ASSUME NEW a \in Int, NEW b \in Int, a * YearDays < b * YearDays
  PROVE a < b
<1> SUFFICES ASSUME b <= a PROVE FALSE
  OBVIOUS
<1>1. (a - b) * YearDays >= 0
  <2>1. a - b \in Nat /\ YearDays \in Nat
    BY CalendarAssumption
  <2> DEFINE d == a - b
  <2>2. d * YearDays >= 0
    BY <2>1
  <2> QED BY <2>2
<1>2. (a - b) * YearDays = a * YearDays - b * YearDays
  BY CalendarAssumption
<1> QED BY <1>1, <1>2, CalendarAssumption

\* facts.py:190-214: a day of this year, of the one before or of the one after
\* is near exactly when the declared day is near around the circle of the year.
LEMMA Circular ==
  ASSUME NEW end \in Nat, NEW fye \in 0..(YearDays - 1)
  PROVE FyeMatches(end, fye) <=> \/ (end - fye) % YearDays <= FyeTolerance
                                 \/ (fye - end) % YearDays <= FyeTolerance
<1> USE CalendarAssumption
<1>1. fye # NoFye /\ FyeTolerance \in Nat /\ YearDays \in Nat /\ YearDays > 0 /\ 2 * FyeTolerance < YearDays
  BY DEF NoFye
<1>0. end \in Int /\ end - fye \in Int /\ fye - end \in Int
  BY <1>1
<1>2. ASSUME NEW year \in Int, Distance(end, year * YearDays + fye) <= FyeTolerance
      PROVE \/ (end - fye) % YearDays <= FyeTolerance
            \/ (fye - end) % YearDays <= FyeTolerance
  <2>1. CASE end >= year * YearDays + fye
    <3>1. end - fye - year * YearDays \in 0..FyeTolerance
      BY <1>1, <1>2, <2>1 DEF Distance
    <3>2. end - fye - year * YearDays = (end - fye) % YearDays
      <4> DEFINE q == (end - fye) \div YearDays
                 r == (end - fye) % YearDays
                 s == end - fye - year * YearDays
      <4>1. q \in Int /\ r \in 0..(YearDays - 1) /\ end - fye = q * YearDays + r
        BY <1>0, DivideDays
      <4>2. s \in 0..(YearDays - 1) /\ end - fye = year * YearDays + s
        BY <1>1, <3>1
      <4>3. q * YearDays < (year + 1) * YearDays /\ year * YearDays < (q + 1) * YearDays
        BY <4>1, <4>2, <1>1
      <4>4. q < year + 1 /\ year < q + 1
        BY <4>3, <4>1, SmallerFactor
      <4>5. q = year /\ r = s
        <5> HIDE DEF q, r, s
        <5>1. q = year
          BY <4>1, <4>4
        <5> QED BY <4>1, <4>2, <5>1
      <4> QED BY <4>5
    <3> QED BY <3>1, <3>2, <1>1
  <2>2. CASE end < year * YearDays + fye
    <3>1. fye - end + year * YearDays \in 0..FyeTolerance
      BY <1>1, <1>2, <2>2 DEF Distance
    <3>2. fye - end + year * YearDays = (fye - end) % YearDays
      <4> DEFINE q == (fye - end) \div YearDays
                 r == (fye - end) % YearDays
                 s == fye - end + year * YearDays
      <4>1. q \in Int /\ r \in 0..(YearDays - 1) /\ fye - end = q * YearDays + r
        BY <1>0, DivideDays
      <4>2. s \in 0..(YearDays - 1) /\ fye - end = (-year) * YearDays + s
        BY <1>1, <3>1
      <4>3. q * YearDays < (-year + 1) * YearDays /\ (-year) * YearDays < (q + 1) * YearDays
        BY <4>1, <4>2, <1>1
      <4>4. q < -year + 1 /\ -year < q + 1
        BY <4>3, <4>1, SmallerFactor
      <4>5. q = -year /\ r = s
        <5> HIDE DEF q, r, s
        <5>1. q = -year
          BY <4>1, <4>4
        <5> QED BY <4>1, <4>2, <5>1
      <4> QED BY <4>5
    <3> QED BY <3>1, <3>2, <1>1
  <2> QED BY <2>1, <2>2, <1>1
<1>3. ASSUME NEW year \in Int, Distance(end, year * YearDays + fye) <= FyeTolerance
      PROVE  year \in (FiscalYear(end) - 1)..(FiscalYear(end) + 1)
  <2> DEFINE q == end \div YearDays
             r == end % YearDays
  <2>0. q \in Int /\ r \in 0..(YearDays - 1) /\ end = q * YearDays + r
    BY <1>0, DivideDays
  <2>1. q \in Int /\ end - q * YearDays \in 0..(YearDays - 1)
    <3> HIDE DEF q, r
    <3> QED BY <1>1, <2>0
  <2>2. /\ year * YearDays <= end + FyeTolerance - fye
        /\ year * YearDays >= end - FyeTolerance - fye
    BY <1>1, <1>3 DEF Distance
  <2>3. year * YearDays < (q + 2) * YearDays /\ (q - 2) * YearDays < year * YearDays
    BY <2>1, <2>2, <1>1
  <2>4. year < q + 2 /\ q - 2 < year
    BY <2>1, <2>3, SmallerFactor
  <2> QED BY <2>1, <2>4 DEF FiscalYear
<1>4. ASSUME (end - fye) % YearDays <= FyeTolerance
      PROVE \E year \in Int : Distance(end, year * YearDays + fye) <= FyeTolerance
  <2> DEFINE q == (end - fye) \div YearDays
  <2>1. q \in Int /\ end - fye - q * YearDays \in 0..FyeTolerance
    BY <1>0, <1>1, <1>4, DivideDays
  <2>2. Distance(end, q * YearDays + fye) <= FyeTolerance
    BY <1>1, <2>1 DEF Distance
  <2> QED BY <2>1, <2>2
<1>5. ASSUME (fye - end) % YearDays <= FyeTolerance
      PROVE \E year \in Int : Distance(end, year * YearDays + fye) <= FyeTolerance
  <2> DEFINE q == (fye - end) \div YearDays
  <2>1. q \in Int /\ fye - end - q * YearDays \in 0..FyeTolerance
    BY <1>1, <1>5, DivideDays
  <2>2. -q \in Int /\ Distance(end, (-q) * YearDays + fye) <= FyeTolerance
    BY <1>1, <2>1 DEF Distance
  <2> QED BY <2>2
<1>6. FyeMatches(end, fye) <=> \E year \in Int : Distance(end, year * YearDays + fye) <= FyeTolerance
  <2>1. FiscalYear(end) \in Int
    BY DivideDays DEF FiscalYear
  <2>2. \A year \in (FiscalYear(end) - 1)..(FiscalYear(end) + 1) : year \in Int
    BY <2>1
  <2>3. FyeMatches(end, fye) <=> \E year \in (FiscalYear(end) - 1)..(FiscalYear(end) + 1) :
                                   Distance(end, year * YearDays + fye) <= FyeTolerance
    BY <1>1 DEF FyeMatches
  <2> QED BY <1>3, <2>2, <2>3
<1> QED BY <1>2, <1>4, <1>5, <1>6

\* the years the anchor has are those it reports
LEMMA AnchorYearsAreReported == company \in Companies => AnchorYears = ReportedYears
<1> SUFFICES ASSUME company \in Companies PROVE AnchorYears = ReportedYears
  OBVIOUS
<1>1. company.fye \in {NoFye} \cup 0..(YearDays - 1)
  BY CompanyAssumption
<1>2. ASSUME NEW f \in AnchorFacts PROVE FyeMatches(f.end, company.fye) <=> NearDeclaredDay(f.end)
  <2>1. f.end \in Nat
    BY CompanyAssumption, AnchorIsKey DEF AnchorFacts
  <2>2. CASE company.fye = NoFye
    BY <2>2 DEF FyeMatches, NearDeclaredDay
  <2>3. CASE company.fye \in 0..(YearDays - 1)
    BY <2>1, <2>3, Circular, CalendarAssumption DEF NearDeclaredDay, NoFye
  <2> QED BY <1>1, <2>2, <2>3
<1>3. \A f \in AnchorFacts : IsFiscalYear(f) <=> IsAnnual(f) /\ NearDeclaredDay(f.end)
  BY <1>2 DEF IsFiscalYear
<1> QED BY <1>3 DEF AnchorYears, ReportedYears

\* of two dates the one in the later year is later
LEMMA LaterYear ==
  ASSUME NEW a \in Nat, NEW b \in Nat, FiscalYear(a) < FiscalYear(b)
  PROVE  a < b
BY CalendarAssumption DEF FiscalYear

\* the axis is as long as asked for, or as long as the history
LEMMA AxisLength ==
  ASSUME company \in Companies, SeriesExact
  PROVE  /\ Cardinality(AnchorYears) \in Nat /\ Columns \in Nat
         /\ Columns = IF HistoricalYears < Cardinality(AnchorYears) THEN HistoricalYears
                      ELSE Cardinality(AnchorYears)
<1>1. /\ Window \subseteq AnchorYears /\ Columns \in Nat /\ Columns <= HistoricalYears
      /\ Window = AnchorYears \/ Columns = HistoricalYears
  BY WindowIsLatest
<1>2. IsFiniteSet(AnchorYears) /\ Cardinality(AnchorYears) \in Nat
  BY AnchorYearsFinite, FS_CardinalityType
<1>3. Columns <= Cardinality(AnchorYears)
  BY <1>1, <1>2, FS_Subset DEF Columns
<1>4. HistoricalYears \in Nat
  BY MappingAssumption
<1> QED BY <1>1, <1>2, <1>3, <1>4 DEF Columns

LEMMA AxisIsLatest == IInv => AxisIsTheLatestYears
<1> SUFFICES ASSUME IInv, Done PROVE AxisIsTheLatestYears
  BY DEF AxisIsTheLatestYears
<1> DEFINE axis == {periods[n].label[2] : n \in YearColumns}
<1>1. stage \in Final
  BY DEF Done, Final
<1>2. company \in Companies /\ SeriesExact
  BY <1>1, FinalColumns
<1>3. \A y : y \in axis <=> y \in Window
  <2>1. \A n \in YearColumns : periods[n].label[2] = AxisYears[n]
    BY <1>1, YearColumnsAre DEF FY
  <2>2. \A fy \in Window : \E n \in YearColumns : AxisYears[n] = fy
    BY <1>1, <1>2, AxisInOrder, YearColumnsAre
  <2> QED BY <1>1, <2>1, <2>2, YearColumnsAre
<1>4. axis = Window
  BY <1>3
<1>0. AnchorYears = ReportedYears
  BY <1>2, AnchorYearsAreReported
<1>5. axis \subseteq ReportedYears /\ \A y \in axis, z \in ReportedYears \ axis : z < y
  <2>1. axis \subseteq AnchorYears /\ \A y \in axis, z \in AnchorYears \ axis : z < y
    BY <1>2, <1>4, WindowIsLatest
  <2> QED BY <1>0, <2>1
<1>6. Cardinality(axis) = Min({HistoricalYears, Cardinality(ReportedYears)})
  <2> HIDE DEF axis
  <2>1. Cardinality(axis) = Min({HistoricalYears, Cardinality(AnchorYears)})
    BY <1>2, <1>4, AxisLength, MinOfTwo, MappingAssumption DEF Columns
  <2> QED BY <1>0, <2>1
<1>7. ASSUME NEW m \in YearColumns, NEW n \in YearColumns, m < n
      PROVE  periods[m].end < periods[n].end
  <2>1. m \in 1..Columns /\ n \in 1..Columns
    BY <1>1, YearColumnsAre
  <2>2. AxisYears[m] < AxisYears[n]
    BY <1>2, <1>7, <2>1, AxisInOrder
  <2>3. /\ periods[m].end \in Nat /\ FiscalYear(periods[m].end) = AxisYears[m]
        /\ periods[n].end \in Nat /\ FiscalYear(periods[n].end) = AxisYears[n]
    BY <1>1, <1>2, <2>1, YearColumnsAre, PeriodOfYear
  <2> QED BY <2>2, <2>3, LaterYear
<1> HIDE DEF axis
<1> QED BY <1>5, <1>6, <1>7 DEF AxisIsTheLatestYears, axis

\* PLANNING.md 5.1: a finished axis is the latest years the anchor has, in
\* order, none skipped, and as many as were asked for if there are as many.
THEOREM LatestYears == Spec => []AxisIsTheLatestYears
BY Invariant, AxisIsLatest, PTL

LEMMA ShortAxis == IInv => ShortAxisIsExplained
<1> SUFFICES ASSUME IInv, Done PROVE ShortAxisIsExplained
  BY DEF ShortAxisIsExplained
<1> DEFINE columns == Cardinality(YearColumns)
           years == Cardinality(DOMAIN series)
           codes == {w.code : w \in warnings}
           about == codes \cap {"NON_USD", "REGISTRANT_CHANGE_SUSPECTED", "THIN_HISTORY"}
<1>1. stage \in Final
  BY DEF Done, Final
<1>2. company \in Companies /\ SeriesExact
  BY <1>1, FinalColumns
<1>3. columns = Columns
  <2>1. YearColumns = 1..Columns /\ Columns \in Nat
    BY <1>1, YearColumnsAre
  <2> QED BY <2>1, FS_Interval
<1>4. years = Cardinality(AnchorYears)
  BY <1>2, WindowIsLatest
<1>5. \A code : code \in about <=> code \in HistoryWarnings(years)
  <2>1. stage \notin {"anchor", "classify"}
    BY DEF Done
  <2>2. \A code \in HistoryCodes : code \in codes <=> code \in HistoryWarnings(years)
    BY <2>1 DEF IInv, WarningsExact
  <2>3. \A code \in HistoryWarnings(years) : code \in HistoryCodes
    BY DEF HistoryWarnings, HistoryCodes
  <2> HIDE DEF codes, years
  <2> QED BY <2>2, <2>3 DEF HistoryCodes
<1>6. about = HistoryWarnings(years)
  BY <1>5
<1>7. /\ years \in Nat /\ columns \in Nat /\ HistoricalYears \in Nat /\ HistoricalYears > 0
      /\ columns = IF HistoricalYears < years THEN HistoricalYears ELSE years
  BY <1>2, <1>3, <1>4, AxisLength, MappingAssumption
<1>8. Min({3, HistoricalYears}) = IF 3 < HistoricalYears THEN 3 ELSE HistoricalYears
  BY <1>7, MinOfTwo
<1> HIDE DEF columns, years, about
<1>9. columns < Min({3, HistoricalYears}) => Cardinality(about) = 1
  <2> SUFFICES ASSUME columns < Min({3, HistoricalYears}) PROVE Cardinality(about) = 1
    OBVIOUS
  <2>1. years = 0 \/ years = 1 \/ years = 2
    BY <1>7, <1>8
  <2>2. \E code : about = {code}
    BY <1>6, <2>1 DEF HistoryWarnings
  <2> QED BY <2>2, FS_Singleton
<1>10. /\ columns = 0 \/ company.renamed => "THIN_HISTORY" \notin about
       /\ columns > 0 => "NON_USD" \notin about
       /\ columns > 2 => about = {}
  <2>1. (columns = 0 <=> years = 0) /\ (columns > 2 => years > 2)
    BY <1>7
  <2>2. /\ years = 0 \/ company.renamed => "THIN_HISTORY" \notin HistoryWarnings(years)
        /\ years # 0 => "NON_USD" \notin HistoryWarnings(years)
        /\ years \notin {0, 1, 2} => HistoryWarnings(years) = {}
    BY DEF HistoryWarnings
  <2> QED BY <1>6, <1>7, <2>1, <2>2
<1> QED BY <1>9, <1>10 DEF ShortAxisIsExplained, columns, about

\* PLANNING.md 5.3.10-11: a finished axis shorter than three years, for
\* want of data, comes with exactly one of the three warnings about the
\* history, and the right one.
THEOREM ShortAxisExplained == Spec => []ShortAxisIsExplained
BY Invariant, ShortAxis, PTL

-----------------------------------------------------------------------------
(* the last column: fallback or twelve months *)

\* the columns of a finished model, and where its cells come from
LEMMA DoneCells ==
  ASSUME IInv, Done
  PROVE  /\ company \in Companies /\ SeriesExact /\ stage \in Final
         /\ DOMAIN cells = Keys \cup {Nwc}
         /\ \A key \in Keys : \A n \in YearColumns :
              cells[key][periods[n].label] = ClosedYearCell(key, AxisYears[n])
         /\ periods # <<>> =>
              /\ LtmAppended /\ HasLtm /\ Ltm = periods[Columns + 1]
              /\ \A n \in DOMAIN periods : n \in YearColumns \/ n = Columns + 1
              /\ Columns + 1 \notin YearColumns /\ Columns \in YearColumns
              /\ LatestFy = periods[Columns] /\ LatestFy.label = FY(AxisYears[Columns])
              /\ LatestFy = PeriodOf(AxisYears[Columns])
              /\ \A key \in Keys : cells[key][Ltm.label] = ClosedLtmCell(key)
              /\ cells[Nwc][Ltm.label] = LtmNwc(cells)
<1>1. stage \in Final /\ stage \notin BeforeAxis \cup {"fill", "derive"}
  BY DEF Done, Final, BeforeAxis
<1>2. company \in Companies /\ SeriesExact /\ FilledKeys = Keys \cup {Nwc}
  BY <1>1, FinalColumns
<1>3. DOMAIN cells = Keys \cup {Nwc}
  BY DEF IInv, RowsExact
<1>4. ASSUME NEW key \in Keys, NEW n \in YearColumns
      PROVE  cells[key][periods[n].label] = ClosedYearCell(key, AxisYears[n])
  <2>1. periods[n].label = FY(AxisYears[n]) /\ AxisYears[n] \in Window
    BY <1>1, YearColumnsAre
  <2> QED BY <1>1, <1>2, <2>1 DEF IInv, CellsExact
<1>5. ASSUME periods # <<>>
      PROVE  /\ LtmAppended /\ HasLtm /\ Ltm = periods[Columns + 1]
             /\ \A n \in DOMAIN periods : n \in YearColumns \/ n = Columns + 1
             /\ Columns + 1 \notin YearColumns /\ Columns \in YearColumns
             /\ LatestFy = periods[Columns] /\ LatestFy.label = FY(AxisYears[Columns])
             /\ LatestFy = PeriodOf(AxisYears[Columns])
             /\ \A key \in Keys : cells[key][Ltm.label] = ClosedLtmCell(key)
             /\ cells[Nwc][Ltm.label] = LtmNwc(cells)
  <2>1. LtmAppended /\ HasLtm /\ LtmKeys = Keys \cup {Nwc}
    BY <1>1, <1>5, FinalColumns
  <2>2. /\ Columns \in Nat /\ DOMAIN periods = 1..(Columns + 1) /\ Ltm = periods[Columns + 1]
        /\ LatestFy = Axis[Columns] /\ LatestFy = PeriodOf(AxisYears[Columns])
        /\ Columns > 0 /\ \A n \in 1..Columns : periods[n] = Axis[n]
    BY <1>2, <2>1, LastColumns DEF LtmAppended
  <2>3. \A n : n \in YearColumns <=> n \in 1..Columns
    BY <1>1, YearColumnsAre
  <2>4. /\ \A n \in 1..(Columns + 1) : n \in 1..Columns \/ n = Columns + 1
        /\ Columns + 1 \notin 1..Columns /\ Columns \in 1..Columns
    BY <2>2
  <2>5. /\ \A key \in Keys : cells[key][Ltm.label] = ClosedLtmCell(key)
        /\ cells[Nwc][Ltm.label] = LtmNwc(cells)
    BY <1>1, <1>5, <2>1 DEF IInv, CellsExact, NwcExact
  <2>6. LatestFy.label = FY(AxisYears[Columns])
    BY <1>2, <2>1, LabelsApart
  <2> QED BY <2>1, <2>2, <2>3, <2>4, <2>5, <2>6
<1> QED BY <1>1, <1>2, <1>3, <1>4, <1>5

\* the fallback column is the latest year's
LEMMA FallbackCells ==
  ASSUME IInv, Done, periods # <<>>, ~IsCaseA
  PROVE  /\ Ltm = Fallback(LatestFy)
         /\ \A key \in Keys \cup {Nwc} : cells[key][Ltm.label] = cells[key][LatestFy.label]
<1> DEFINE fy == AxisYears[Columns]
<1>1. /\ company \in Companies /\ SeriesExact /\ LtmAppended
      /\ LatestFy = PeriodOf(fy) /\ Columns \in YearColumns /\ LatestFy.label = periods[Columns].label
      /\ \A key \in Keys : cells[key][Ltm.label] = ClosedLtmCell(key)
      /\ \A key \in Keys : cells[key][LatestFy.label] = ClosedYearCell(key, fy)
      /\ cells[Nwc][Ltm.label] = LtmNwc(cells)
  BY DoneCells
<1> HIDE DEF fy
<1>2. Ltm = Fallback(LatestFy)
  BY <1>1 DEF LtmAppended, Genuine, IsCaseA
<1>3. Ltm.end = PeriodOf(fy).end
  BY <1>1, <1>2 DEF Fallback, PeriodOf
<1>4. ASSUME NEW key \in Keys PROVE LtmCell(key) = ClosedYearCell(key, fy)
  <2>1. CASE Kind[key] = "cover"
    <3>1. key # Anchor /\ ~IsBackfilled(key)
      BY <2>1, KeysApart DEF IsBackfilled, Sheet
    <3> QED BY <1>3, <2>1, <3>1 DEF LtmCell, ClosedYearCell, YearCell, Fill
  <2>2. CASE Kind[key] # "cover"
    BY <1>1, <2>2 DEF LtmCell
  <2> QED BY <2>1, <2>2
<1>5. ASSUME NEW key \in Keys PROVE ClosedLtmCell(key) = ClosedYearCell(key, fy)
  <2>1. CASE IsBackfilled(key)
    <3>1. "total_assets" \in Keys /\ "total_equity" \in Keys
      BY <2>1 DEF IsBackfilled, Sheet
    <3>2. /\ ClosedYearCell("total_assets", fy) = YearCell("total_assets", fy)
          /\ ClosedYearCell("total_equity", fy) = YearCell("total_equity", fy)
      BY KeysApart DEF ClosedYearCell
    <3>3. \A c, a, e : Balance(Balance(c, a, e), a, e) = Balance(c, a, e)
      BY DEF Balance, CellOf, IsGap
    <3>4. ClosedLtmCell(key) = Balance(ClosedYearCell(key, fy), YearCell("total_assets", fy),
                                       YearCell("total_equity", fy))
      BY <1>4, <2>1, <3>1, <3>2 DEF ClosedLtmCell
    <3> QED BY <2>1, <3>3, <3>4 DEF ClosedYearCell
  <2>2. CASE ~IsBackfilled(key)
    BY <1>4, <2>2 DEF ClosedLtmCell
  <2> QED BY <2>1, <2>2
<1>6. cells[Nwc][Ltm.label] = cells[Nwc][LatestFy.label]
  BY <1>1 DEF LtmNwc, Nwc
<1> QED BY <1>1, <1>2, <1>5, <1>6

LEMMA Fallbacks == IInv => FallbackMirrorsLatestFy
<1> SUFFICES ASSUME IInv, Done, periods # <<>>, ~IsCaseA PROVE FallbackMirrorsLatestFy
  BY DEF FallbackMirrorsLatestFy
<1>1. /\ Ltm = Fallback(LatestFy)
      /\ \A key \in Keys \cup {Nwc} : cells[key][Ltm.label] = cells[key][LatestFy.label]
  BY FallbackCells
<1>2. DOMAIN cells = Keys \cup {Nwc} /\ LatestFy = PeriodOf(AxisYears[Columns])
  BY DoneCells
<1>3. Ltm = [LatestFy EXCEPT !.label = Ltm.label] /\ ~Ltm.ltm
  BY <1>1, <1>2 DEF Fallback, PeriodOf
<1> QED BY <1>1, <1>2, <1>3 DEF FallbackMirrorsLatestFy

\* fallback_ltm_period: without a usable stub the last column of a finished
\* model is the latest year's, dates and every item, under another label.
THEOREM FallbackMirrors == Spec => []FallbackMirrorsLatestFy
BY Invariant, Fallbacks, PTL

\* the two stubs of a genuine LTM column
LEMMA TwoStubs ==
  ASSUME company \in Companies, SeriesExact, LtmAppended, IsCaseA
  PROVE  \E this \in Stubs(LatestFy), tag \in TagSet(Anchor) :
           \E prior \in PriorStubs(tag, this) :
             /\ spans = <<Span(this), Span(prior)>> /\ Ltm = LtmPeriod(this)
             /\ this.start \in Nat /\ this.end \in Nat /\ prior.start \in Nat /\ prior.end \in Nat
             /\ ~IsGap(ResolveSpan(Anchor, this.start, this.end))
             /\ ~IsGap(ResolveSpan(Anchor, prior.start, prior.end))
<1>1. Genuine
  BY DEF LtmAppended, IsCaseA
<1>2. PICK this \in Stubs(LatestFy), tag \in TagSet(Anchor) : \E prior \in PriorStubs(tag, this) :
        /\ spans = <<Span(this), Span(prior)>>
        /\ Ltm = LtmPeriod(this)
        /\ ~IsGap(ResolveSpan(Anchor, this.start, this.end))
        /\ ~IsGap(ResolveSpan(Anchor, prior.start, prior.end))
  BY <1>1 DEF Genuine
<1>3. PICK prior \in PriorStubs(tag, this) :
        /\ spans = <<Span(this), Span(prior)>>
        /\ Ltm = LtmPeriod(this)
        /\ ~IsGap(ResolveSpan(Anchor, this.start, this.end))
        /\ ~IsGap(ResolveSpan(Anchor, prior.start, prior.end))
  BY <1>2
<1>4. this.start \in Nat /\ this.end \in Nat
  BY <1>2, AnchorFactsAre DEF Stubs
<1>5. prior \in company.facts[tag]
  BY <1>3 DEF PriorStubs
<1>6. prior.start \in Nat /\ prior.end \in Nat
  BY <1>5, FactsOfTags, AnchorIsKey DEF FactSet
<1> QED BY <1>3, <1>4, <1>6

LEMMA TwelveMonths == IInv => LtmIsTwelveMonths
<1> SUFFICES ASSUME IInv, Done, IsCaseA PROVE LtmIsTwelveMonths
  BY DEF LtmIsTwelveMonths
<1>1. periods # <<>>
  <2>1. stage \in Final
    BY DEF Done, Final
  <2> QED BY <2>1, FinalColumns DEF IsCaseA
<1>2. company \in Companies /\ SeriesExact /\ LtmAppended
  BY <1>1, DoneCells
<1>3. PICK this \in Stubs(LatestFy), tag \in TagSet(Anchor) : \E prior \in PriorStubs(tag, this) :
        /\ spans = <<Span(this), Span(prior)>> /\ Ltm = LtmPeriod(this)
        /\ this.start \in Nat /\ this.end \in Nat /\ prior.start \in Nat /\ prior.end \in Nat
  BY <1>2, TwoStubs
<1>4. PICK prior \in PriorStubs(tag, this) :
        /\ spans = <<Span(this), Span(prior)>> /\ Ltm = LtmPeriod(this)
        /\ this.start \in Nat /\ this.end \in Nat /\ prior.start \in Nat /\ prior.end \in Nat
  BY <1>3
<1> DEFINE s == LatestFy.start
           e == LatestFy.end
<1>5. s \in Nat /\ e \in Nat
  BY <1>2, LtmDates
<1>6. /\ this.start = e + 1 /\ this.end > e /\ this.end - this.start <= StubMax
  BY <1>3 DEF Stubs, Days
<1>7. /\ Distance(prior.end, this.end - YearDays) <= PriorEndTolerance
      /\ Distance(prior.end - prior.start, this.end - this.start) <= PriorLengthTolerance
  BY <1>4 DEF PriorStubs, EndDelta, YearBefore, Days
<1>8. /\ YearDays \in Nat /\ StubMax \in Nat /\ PriorEndTolerance \in Nat
      /\ PriorLengthTolerance \in Nat
      /\ StubMax + PriorEndTolerance + 1 < YearDays
  BY CalendarAssumption
<1>9. Ltm.ltm /\ Ltm.end = this.end
  BY <1>4 DEF LtmPeriod
<1>10. /\ spans[1].start = this.start /\ spans[1].end = this.end
       /\ spans[2].start = prior.start /\ spans[2].end = prior.end
  BY <1>4 DEF Span
<1> HIDE DEF s, e
<1>11. prior.end < e
  BY <1>4, <1>5, <1>6, <1>7, <1>8 DEF Distance
<1>12. Distance(prior.start, s) <= PriorEndTolerance + PriorLengthTolerance
                                   + Distance(e - s, YearDays - 1)
  BY <1>4, <1>5, <1>6, <1>7, <1>8 DEF Distance
<1>13. Distance((e - s) + (this.end - this.start) - (prior.end - prior.start), e - s)
         <= PriorLengthTolerance
  BY <1>4, <1>5, <1>6, <1>7, <1>8 DEF Distance
<1> QED BY <1>6, <1>9, <1>10, <1>11, <1>12, <1>13 DEF LtmIsTwelveMonths, Days, s, e

\* ltm.py: a genuine LTM column is the latest year plus a stub that begins
\* the day after it, less a stub a year earlier, twelve months up to the
\* drift the tolerances of the search for that stub allow.
THEOREM GenuineLtmIsTwelveMonths == Spec => []LtmIsTwelveMonths
BY Invariant, TwelveMonths, PTL

-----------------------------------------------------------------------------
(* the balance sheet *)

\* what a cell of one span is made of
LEMMA SpanOrigin ==
  ASSUME company \in Companies, NEW key \in Keys, NEW start, NEW end,
         NEW cell, cell = ResolveSpan(key, start, end)
  PROVE  /\ cell.mechanism # "derived"
         /\ DOMAIN Matches(TagSet(key), start, end) # {} => ~IsGap(cell)
<1> DEFINE found == Matches(TagSet(key), start, end)
           used == Matches(Compose[key], start, end)
<1>1. CASE DOMAIN found # {}
  <2>1. cell = FromTags(key, DOMAIN found, found)
    BY <1>1 DEF ResolveSpan
  <2>2. DOMAIN found \subseteq TagSet(key)
    BY MatchesAre
  <2> HIDE DEF found
  <2>3. cell.mechanism # "derived" /\ ~IsGap(cell)
    BY <1>1, <2>1, <2>2, FromTagsCell
  <2> QED BY <2>3
<1>2. CASE DOMAIN found = {}
  <2>1. cell = Composed(key, start, end)
    BY <1>2 DEF ResolveSpan
  <2>2. cell.mechanism # "derived"
    BY <2>1 DEF Composed, Missing, CellOf
  <2> QED BY <1>2, <2>2
<1> QED BY <1>1, <1>2

\* one column's liabilities: known if assets and equity are
LEMMA BalanceCloses ==
  ASSUME company \in Companies, NEW key \in Keys, NEW start, NEW end, NEW assets, NEW equity,
         NEW cell, cell = Balance(ResolveSpan(key, start, end), assets, equity)
  PROVE  /\ ~IsGap(assets) /\ ~IsGap(equity) => ~IsGap(cell)
         /\ cell.mechanism = "derived" =>
              /\ cell.value = assets.value - equity.value
              /\ DOMAIN Matches(TagSet(key), start, end) = {}
<1> DEFINE c == ResolveSpan(key, start, end)
<1>1. /\ c.mechanism # "derived"
      /\ DOMAIN Matches(TagSet(key), start, end) # {} => ~IsGap(c)
  BY SpanOrigin
<1> HIDE DEF c
<1>2. CASE IsGap(c) /\ ~IsGap(assets) /\ ~IsGap(equity)
  <2>1. cell = CellOf(assets.value - equity.value, "derived", Blank, assets.src \cup equity.src)
    BY <1>2 DEF Balance, c
  <2>2. cell.value = assets.value - equity.value /\ ~IsGap(cell)
    BY <2>1 DEF CellOf, IsGap
  <2> QED BY <1>1, <1>2, <2>2
<1>3. CASE ~(IsGap(c) /\ ~IsGap(assets) /\ ~IsGap(equity))
  <2>1. cell = c
    BY <1>3 DEF Balance, c
  <2> QED BY <1>1, <1>3, <2>1
<1> QED BY <1>2, <1>3

LEMMA SheetCloses == IInv => BalanceSheetCloses
<1> SUFFICES ASSUME IInv, Done, {"total_assets", "total_equity", "total_liabilities"} \subseteq Keys
             PROVE  BalanceSheetCloses
  BY DEF BalanceSheetCloses
<1> DEFINE TL == "total_liabilities"
           TA == "total_assets"
           TE == "total_equity"
           Closes(l, end) ==
             /\ ~IsGap(cells[TA][l]) /\ ~IsGap(cells[TE][l]) => ~IsGap(cells[TL][l])
             /\ cells[TL][l].mechanism = "derived" =>
                  /\ cells[TL][l].value = cells[TA][l].value - cells[TE][l].value
                  /\ DOMAIN Matches(TagSet(TL), NoStart, end) = {}
<1>1. /\ Sheet \subseteq Keys /\ TL \in Keys /\ TA \in Keys /\ TE \in Keys /\ IsBackfilled(TL)
      /\ ~IsBackfilled(TA) /\ ~IsBackfilled(TE)
      /\ Kind[TL] = "instant" /\ TL # Anchor
  BY KeysApart DEF Sheet, IsBackfilled
<1>2. company \in Companies /\ SeriesExact
  BY DoneCells
<1>3. ASSUME NEW n \in YearColumns PROVE Closes(periods[n].label, periods[n].end)
  <2> DEFINE fy == AxisYears[n]
             l == periods[n].label
  <2>1. /\ cells[TL][l] = ClosedYearCell(TL, fy)
        /\ cells[TA][l] = ClosedYearCell(TA, fy) /\ cells[TE][l] = ClosedYearCell(TE, fy)
    BY <1>1, DoneCells
  <2>2. stage \in Final
    BY DEF Done, Final
  <2>3. periods[n] = PeriodOf(fy)
    BY <2>2, YearColumnsAre
  <2> HIDE DEF fy
  <2>4. YearCell(TL, fy) = ResolveSpan(TL, NoStart, periods[n].end)
    BY <1>1, <2>3 DEF YearCell, Fill
  <2>5. cells[TL][l] = Balance(ResolveSpan(TL, NoStart, periods[n].end), cells[TA][l], cells[TE][l])
    BY <1>1, <2>1, <2>4 DEF ClosedYearCell
  <2> QED BY <1>1, <1>2, <2>5, BalanceCloses
<1>4. ASSUME periods # <<>>, IsCaseA PROVE Closes(Ltm.label, Ltm.end)
  <2> DEFINE l == Ltm.label
  <2>1. /\ cells[TL][l] = ClosedLtmCell(TL)
        /\ cells[TA][l] = ClosedLtmCell(TA) /\ cells[TE][l] = ClosedLtmCell(TE)
    BY <1>1, <1>4, DoneCells
  <2>2. LtmCell(TL) = ResolveSpan(TL, NoStart, Ltm.end)
    BY <1>1, <1>4 DEF LtmCell
  <2>3. cells[TL][l] = Balance(ResolveSpan(TL, NoStart, Ltm.end), cells[TA][l], cells[TE][l])
    BY <1>1, <2>1, <2>2 DEF ClosedLtmCell
  <2> QED BY <1>1, <1>2, <2>3, BalanceCloses
<1>5. ASSUME periods # <<>>, ~IsCaseA PROVE Closes(Ltm.label, Ltm.end)
  <2>1. /\ Ltm = Fallback(LatestFy)
        /\ \A key \in Keys \cup {Nwc} : cells[key][Ltm.label] = cells[key][LatestFy.label]
    BY <1>5, FallbackCells
  <2>2. Columns \in YearColumns /\ LatestFy = periods[Columns] /\ LatestFy = PeriodOf(AxisYears[Columns])
    BY <1>5, DoneCells
  <2>3. Ltm.end = LatestFy.end
    BY <2>1, <2>2 DEF Fallback, PeriodOf
  <2>4. Closes(LatestFy.label, LatestFy.end)
    BY <1>3, <2>2
  <2> QED BY <1>1, <2>1, <2>3, <2>4
<1>6. \A n \in DOMAIN periods : n \in YearColumns \/ (periods # <<>> /\ Ltm = periods[n])
  <2>1. periods = <<>> => DOMAIN periods = {}
    OBVIOUS
  <2> QED BY <2>1, DoneCells
<1>7. ASSUME NEW n \in DOMAIN periods PROVE Closes(periods[n].label, periods[n].end)
  BY <1>3, <1>4, <1>5, <1>6
<1> QED BY <1>7 DEF BalanceSheetCloses

\* _backfill_total_liabilities, over both loops: where assets and equity
\* are known so are the liabilities, and a derived figure is their
\* difference and hides no tagged one.
THEOREM BalanceSheetAlwaysCloses == Spec => []BalanceSheetCloses
BY Invariant, SheetCloses, PTL

-----------------------------------------------------------------------------
(* disagreements *)

LEMMA TwoElements ==
  ASSUME NEW S, IsFiniteSet(S), NEW a \in S, NEW b \in S, a # b
  PROVE  Cardinality(S) > 1
<1> DEFINE T == S \ {a}
<1>1. IsFiniteSet(T) /\ Cardinality(S) = Cardinality(T) + 1
  <2>1. IsFiniteSet(T) /\ Cardinality(T) = Cardinality(S) - 1
    BY FS_RemoveElement
  <2> QED BY <2>1, FS_CardinalityType
<1>2. b \in T
  OBVIOUS
<1> HIDE DEF T
<1>3. Cardinality(T) \in Nat /\ Cardinality(T) # 0
  BY <1>1, <1>2, FS_CardinalityType, FS_EmptySet
<1> QED BY <1>1, <1>3

Far(a, b) == \A side \in {a, b, -a, -b} : Distance(a, b) * StitchTolerance > side

\* the tolerance of _values_agree, without absolute values
LEMMA FarIsDisagreement ==
  ASSUME NEW a \in Int, NEW b \in Int
  PROVE  /\ ~Agree(a, b) <=> Far(a, b)
         /\ Far(a, b) => a # b
<1> DEFINE d == Distance(a, b) * StitchTolerance
<1>1. Distance(a, b) \in Int /\ StitchTolerance \in Int
  BY MappingAssumption DEF Distance
<1>2. d \in Int
  BY <1>1
<1>3. a = b => d = 0
  BY <1>1 DEF Distance
<1>4. Distance(a, 0) = (IF a < 0 THEN -a ELSE a) /\ Distance(b, 0) = (IF b < 0 THEN -b ELSE b)
  BY DEF Distance
<1>5. Max({Distance(a, 0), Distance(b, 0)}) = IF Distance(a, 0) < Distance(b, 0) THEN Distance(b, 0)
                                                ELSE Distance(a, 0)
  BY <1>4, MaxOfTwo
<1>6. Agree(a, b) <=> d <= Max({Distance(a, 0), Distance(b, 0)})
  BY DEF Agree
<1>7. Far(a, b) <=> d > a /\ d > b /\ d > -a /\ d > -b
  BY DEF Far
<1> HIDE DEF d
<1> QED BY <1>2, <1>3, <1>4, <1>5, <1>6, <1>7

\* a cell resolved for one span: its tags disagree exactly when it is
\* stitched and some fact of that span is far from the one chosen
LEMMA Flagged ==
  ASSUME company \in Companies, NEW key \in Keys, NEW start, NEW end,
         NEW cell,
         \/ cell = ResolveSpan(key, start, end)
         \/ \E a, e : cell = Balance(ResolveSpan(key, start, end), a, e),
         NEW reported,
         \A g : g \in reported <=> /\ \E t \in TagSet(key) : g \in company.facts[t]
                                   /\ g.start = start /\ g.end = end
  PROVE  SpanDisagrees(key, start, end) <=>
           cell.mechanism = "stitched" /\ \E f \in cell.src, g \in reported : Far(f.value, g.value)
<1> DEFINE found == Matches(TagSet(key), start, end)
           hits == DOMAIN found
           winner == FirstTag(key, hits)
           resolved == ResolveSpan(key, start, end)
<1>1. CASE hits = {}
  <2>1. ~SpanDisagrees(key, start, end)
    BY <1>1 DEF SpanDisagrees
  <2>2. resolved.mechanism # "stitched"
    BY <1>1 DEF ResolveSpan, Composed, Missing, CellOf
  <2>3. cell.mechanism # "stitched"
    <3> HIDE DEF resolved
    <3> QED BY <2>2 DEF Balance, CellOf, resolved
  <2> QED BY <2>1, <2>3
<1>2. CASE hits # {}
  <2>1. resolved = FromTags(key, hits, found)
    BY <1>2 DEF ResolveSpan
  <2>2. hits \subseteq TagSet(key)
    BY MatchesAre
  <2>3. SpanDisagrees(key, start, end) <=> Disagree(key, hits, found)
    BY <1>2 DEF SpanDisagrees
  <2>4. ASSUME NEW t \in hits
        PROVE  /\ found[t] \in company.facts[t] /\ found[t].start = start /\ found[t].end = end
               /\ found[t].value \in Int /\ found[t] \in reported
    <3>1. found[t] \in company.facts[t] /\ found[t].start = start /\ found[t].end = end
      BY MatchesAre
    <3>2. FactSet(company.facts[t])
      BY <2>2, FactsOfTags
    <3> QED BY <2>2, <3>1, <3>2 DEF FactSet
  <2>5. \A g \in reported : \E t \in hits : g = found[t]
    <3>1. ASSUME NEW g \in reported PROVE \E t \in hits : g = found[t]
      <4>1. PICK t \in TagSet(key) : g \in company.facts[t] /\ g.start = start /\ g.end = end
        OBVIOUS
      <4>2. t \in hits
        BY <4>1, MatchesAre
      <4>3. FactSet(company.facts[t])
        BY FactsOfTags
      <4>4. found[t] \in company.facts[t] /\ found[t].start = start /\ found[t].end = end
        BY <2>4, <4>2
      <4> QED BY <4>1, <4>2, <4>3, <4>4 DEF FactSet
    <3> QED BY <3>1
  <2>6. winner \in hits
    BY <1>2, <2>2, FirstTagIsOne
  <2> HIDE DEF found, hits
  <2>7. Disagree(key, hits, found) <=> \E t \in hits : ~Agree(found[winner].value, found[t].value)
    BY DEF Disagree
  <2>8. ~IsGap(resolved) /\ (resolved.mechanism = "stitched" <=> Cardinality(hits) > 1)
    <3> HIDE DEF resolved
    <3> QED BY <1>2, <2>1, <2>2, FromTagsCell
  <2>9. resolved.src = {found[winner]}
    BY <2>1 DEF FromTags, CellOf
  <2> HIDE DEF resolved, winner
  <2>10. cell = resolved
    BY <2>8 DEF Balance, resolved
  <2>11. Disagree(key, hits, found) <=> \E g \in reported : Far(found[winner].value, g.value)
    <3>1. \A t \in hits : ~Agree(found[winner].value, found[t].value)
                            <=> Far(found[winner].value, found[t].value)
      BY <2>4, <2>6, FarIsDisagreement
    <3> QED BY <2>4, <2>5, <2>7, <3>1
  <2>12. Disagree(key, hits, found) => Cardinality(hits) > 1
    <3> SUFFICES ASSUME NEW t \in hits, ~Agree(found[winner].value, found[t].value)
                 PROVE  Cardinality(hits) > 1
      BY <2>7
    <3>1. t # winner
      BY <2>4, <2>6, FarIsDisagreement
    <3>2. IsFiniteSet(hits)
      BY <2>2, TagsOfKeys, FS_Subset
    <3> QED BY <2>6, <3>1, <3>2, TwoElements
  <2> QED BY <2>3, <2>8, <2>9, <2>10, <2>11, <2>12
<1> QED BY <1>1, <1>2

\* The warnings about the anchor are those about the years of its series.
AnchorExact ==
  stage # "anchor" => \A label : Disagreement(Anchor, label) \in warnings <=>
    \E fy \in AnchorYears : label = FY(fy) /\ Disagree(Anchor, AnnualTags(fy), LastAnnual(fy))

\* _resolve_annual_series raises them, and no later stage raises another
LEMMA AnchorKept == IInv /\ AnchorExact /\ [Next]_vars => AnchorExact'
<1> SUFFICES ASSUME IInv, AnchorExact, [Next]_vars PROVE AnchorExact'
  OBVIOUS
<1>1. company' = company
  BY DEF Next, vars, ResolveAnchor, Classify, BuildAxis, FillItem, Derive, ProposeLtm, FillLtm,
         FinishLtm, CheckDebt, Assemble, Finished
<1>2. /\ AnchorYears' = AnchorYears
      /\ \A fy : Disagree(Anchor, AnnualTags(fy), LastAnnual(fy))'
                  <=> Disagree(Anchor, AnnualTags(fy), LastAnnual(fy))
  BY <1>1, AnnualStay DEF Disagree
<1>3. \A key, label : /\ Disagreement(key, label).code = "STITCH_DISAGREEMENT"
                      /\ Disagreement(key, label).key = key
                      /\ Disagreement(key, label).label = label
  BY DEF Disagreement
<1>4. \A code : Warning(code).code = code
  BY DEF Warning
<1>5. CASE ResolveAnchor
  <2>1. \A w : w \in warnings' <=>
          \E fy \in AnchorYears : /\ Disagree(Anchor, AnnualTags(fy), LastAnnual(fy))
                                 /\ w = Disagreement(Anchor, FY(fy))
    BY <1>5 DEF ResolveAnchor
  <2> QED BY <1>2, <1>3, <2>1 DEF AnchorExact
<1>6. ASSUME stage # "anchor",
             \A w \in warnings' : \/ w \in warnings \/ w.code # "STITCH_DISAGREEMENT"
                                  \/ w.key # Anchor,
             warnings \subseteq warnings'
      PROVE  AnchorExact'
  BY <1>2, <1>3, <1>6 DEF AnchorExact
<1>7. CASE Classify
  <2> DEFINE codes == HistoryWarnings(Cardinality(DOMAIN series))
                        \cup (IF company.financial THEN {"FINANCIAL_SECTOR"} ELSE {})
  <2>1. stage # "anchor" /\ warnings' = warnings \cup {Warning(code) : code \in codes}
    BY <1>7 DEF Classify
  <2>2. \A code \in codes : code # "STITCH_DISAGREEMENT"
    BY DEF HistoryWarnings
  <2> HIDE DEF codes
  <2> QED BY <1>4, <1>6, <2>1, <2>2
<1>8. Items[item] # Anchor
  BY ItemsAre, MappingAssumption DEF IInv, Control
<1>9. CASE FillItem
  <2>1. /\ stage # "anchor" /\ warnings \subseteq warnings'
        /\ \A w \in warnings' : w \in warnings \/ \E label : w = Disagreement(Items[item], label)
    BY <1>9 DEF FillItem, NextItem
  <2> QED BY <1>3, <1>6, <1>8, <2>1
<1>10. CASE FillLtm
  <2>1. /\ stage # "anchor" /\ warnings \subseteq warnings'
        /\ \A w \in warnings' : w \in warnings \/ \E label : w = Disagreement(Items[item], label)
    BY <1>10 DEF FillLtm, NextItem
  <2> QED BY <1>3, <1>6, <1>8, <2>1
<1>11. CASE CheckDebt
  <2>1. /\ stage # "anchor" /\ warnings \subseteq warnings'
        /\ \A w \in warnings' : w \in warnings \/ w = Warning("DEBT_CONVENTION_UNKNOWN")
    BY <1>11 DEF CheckDebt
  <2> QED BY <1>4, <1>6, <2>1
<1>12. CASE BuildAxis \/ Derive \/ ProposeLtm \/ FinishLtm \/ Assemble
  BY <1>6, <1>12 DEF BuildAxis, Derive, ProposeLtm, FinishLtm, Assemble
<1>13. CASE UNCHANGED vars \/ Finished
  <2>1. stage' = stage /\ warnings' = warnings
    BY <1>13 DEF vars, Finished
  <2> QED BY <1>2, <1>3, <2>1 DEF AnchorExact
<1> QED BY <1>5, <1>7, <1>9, <1>10, <1>11, <1>12, <1>13 DEF Next

LEMMA AnchorWarnings == Spec => []AnchorExact
<1>1. Init => AnchorExact
  BY DEF Init, AnchorExact
<1> QED BY <1>1, AnchorKept, Invariant, PTL DEF Spec

\* the anchor's cell of a year: its tags disagree exactly when it is stitched
\* and some tag's last fact of the year is far from the one chosen
LEMMA AnchorFlagged ==
  ASSUME company \in Companies, SeriesExact, NEW fy \in AnchorYears,
         NEW cell, cell = series[fy],
         NEW rivals, rivals = {LastOf(AnnualFacts(t, fy)) : t \in AnnualTags(fy)}
  PROVE  Disagree(Anchor, AnnualTags(fy), LastAnnual(fy)) <=>
           cell.mechanism = "stitched" /\ \E f \in cell.src, g \in rivals : Far(f.value, g.value)
<1> DEFINE hits == AnnualTags(fy)
           found == LastAnnual(fy)
           winner == FirstTag(Anchor, hits)
<1>1. cell = FromTags(Anchor, hits, found)
  BY DEF SeriesExact
<1>2. hits # {} /\ hits \subseteq TagSet(Anchor) /\ IsFiniteSet(hits)
  <2>1. hits # {} /\ hits \subseteq TagSet(Anchor)
    BY YearsReported
  <2> QED BY <2>1, AnchorIsKey, TagsOfKeys, FS_Subset
<1>3. winner \in hits
  BY <1>2, AnchorIsKey, FirstTagIsOne
<1>4. ASSUME NEW t \in hits
      PROVE  found[t] = LastOf(AnnualFacts(t, fy)) /\ found[t].value \in Int
  <2>1. found[t] = LastOf(AnnualFacts(t, fy))
    BY DEF LastAnnual
  <2>2. t \in TagSet(Anchor) /\ AnnualFacts(t, fy) # {}
    BY YearsReported
  <2>3. FactSet(AnnualFacts(t, fy))
    BY <2>2, AnnualFactSet
  <2>4. LastOf(AnnualFacts(t, fy)) \in AnnualFacts(t, fy)
    BY <2>2, <2>3, FirstAndLast
  <2> QED BY <2>1, <2>3, <2>4 DEF FactSet
<1>5. Disagree(Anchor, hits, found) <=> \E t \in hits : ~Agree(found[winner].value, found[t].value)
  BY DEF Disagree
<1>6. cell.src = {found[winner]} /\ (cell.mechanism = "stitched" <=> Cardinality(hits) > 1)
  <2>1. cell.src = {found[winner]}
    BY <1>1 DEF FromTags, CellOf
  <2> HIDE DEF hits, found, winner
  <2> QED BY <1>1, <1>2, <2>1, AnchorIsKey, FromTagsCell
<1>7. \A g : g \in rivals <=> \E t \in hits : g = found[t]
  BY <1>4
<1> HIDE DEF hits, found, winner
<1>8. \A t \in hits : ~Agree(found[winner].value, found[t].value)
                        <=> Far(found[winner].value, found[t].value)
  BY <1>3, <1>4, FarIsDisagreement
<1>9. ASSUME NEW t \in hits, Far(found[winner].value, found[t].value) PROVE Cardinality(hits) > 1
  <2>1. t # winner
    BY <1>3, <1>4, <1>9, FarIsDisagreement
  <2> QED BY <1>2, <1>3, <2>1, TwoElements
<1>10. (\E t \in hits : Far(found[winner].value, found[t].value)) <=>
         \E f \in cell.src, g \in rivals : Far(f.value, g.value)
  BY <1>6, <1>7
<1>11. Disagree(Anchor, hits, found) <=>
         cell.mechanism = "stitched" /\ \E f \in cell.src, g \in rivals : Far(f.value, g.value)
  BY <1>5, <1>6, <1>8, <1>9, <1>10
<1> QED BY <1>11 DEF hits, found

\* one cell of the finished model and the warning about it
FlaggedAt(key, n) ==
  LET p == periods[n]
      cell == cells[key][p.label]
  IN  \/ p.ltm /\ Kind[key] = "duration"
      \/ Disagreement(key, p.label) \in warnings <=>
           /\ n \in YearColumns \/ p.ltm
           /\ Kind[key] # "cover" /\ cell.mechanism = "stitched"
           /\ \E f \in cell.src, g \in Rivals(key, p) : Far(f.value, g.value)

\* the columns of a finished model
LEMMA ColumnsAre ==
  ASSUME IInv, Done, NEW n \in DOMAIN periods
  PROVE  \/ /\ n \in YearColumns /\ periods[n] = PeriodOf(AxisYears[n])
            /\ periods[n].label = FY(AxisYears[n]) /\ ~periods[n].ltm
            /\ AxisYears[n] \in Window /\ AxisYears[n] \in AnchorYears
         \/ /\ n \notin YearColumns /\ periods[n] = Ltm /\ (Ltm.ltm <=> IsCaseA)
<1>1. /\ company \in Companies /\ SeriesExact /\ stage \in Final /\ periods # <<>>
  <2>1. periods = <<>> => DOMAIN periods = {}
    OBVIOUS
  <2> QED BY <2>1, DoneCells
<1>2. CASE n \in YearColumns
  BY <1>1, <1>2, YearColumnsAre
<1>3. CASE n \notin YearColumns
  <2>1. periods[n] = Ltm /\ LtmAppended /\ Columns \in YearColumns /\ LatestFy = periods[Columns]
    BY <1>1, <1>3, DoneCells
  <2>2. ~LatestFy.ltm
    BY <1>1, <2>1, YearColumnsAre
  <2>3. CASE IsCaseA
    <3>1. \E this \in Stubs(LatestFy) : Ltm = LtmPeriod(this)
      BY <1>1, <2>1, <2>3, TwoStubs
    <3>2. Ltm.ltm
      BY <3>1 DEF LtmPeriod
    <3> QED BY <1>3, <2>1, <2>3, <3>2
  <2>4. CASE ~IsCaseA
    <3>1. Ltm = Fallback(LatestFy)
      BY <1>1, <2>4, FallbackCells
    <3>2. Fallback(LatestFy).ltm = LatestFy.ltm
      BY <2>1, <1>1, YearColumnsAre DEF Fallback, PeriodOf
    <3> QED BY <2>2, <2>4, <3>1, <3>2, <2>1, <1>3
  <2> QED BY <1>3, <2>1, <2>3, <2>4
<1> QED BY <1>2, <1>3

LEMMA AnchorDisagreements ==
  ASSUME IInv, AnchorExact, Done, NEW n \in DOMAIN periods
  PROVE  FlaggedAt(Anchor, n)
<1> DEFINE p == periods[n]
           cell == cells[Anchor][p.label]
<1>1. /\ company \in Companies /\ SeriesExact /\ periods # <<>> /\ Kind[Anchor] = "duration"
      /\ stage # "anchor"
  <2>1. periods = <<>> => DOMAIN periods = {}
    OBVIOUS
  <2> QED BY <2>1, DoneCells, KeysApart DEF Done
<1>2. CASE n \in YearColumns
  <2> DEFINE fy == AxisYears[n]
             rivals == {LastOf(AnnualFacts(t, fy)) : t \in AnnualTags(fy)}
  <2>1. p.label = FY(fy) /\ ~p.ltm /\ fy \in AnchorYears
    BY <1>2, ColumnsAre
  <2>2. cell = series[fy]
    BY <1>1, <1>2, DoneCells, KeysApart DEF ClosedYearCell, YearCell
  <2> HIDE DEF fy
  <2>3. Disagreement(Anchor, p.label) \in warnings <=>
          Disagree(Anchor, AnnualTags(fy), LastAnnual(fy))
    <3>1. \A y : FY(fy) = FY(y) <=> y = fy
      BY DEF FY
    <3> QED BY <1>1, <2>1, <3>1 DEF AnchorExact
  <2>4. Rivals(Anchor, p) = rivals
    BY <2>1 DEF Rivals, FY
  <2> HIDE DEF p, cell, rivals
  <2>5. Disagree(Anchor, AnnualTags(fy), LastAnnual(fy)) <=>
          cell.mechanism = "stitched" /\ \E f \in cell.src, g \in rivals : Far(f.value, g.value)
    BY <1>1, <2>1, <2>2, AnchorFlagged DEF rivals
  <2> QED BY <1>1, <1>2, <2>3, <2>4, <2>5 DEF FlaggedAt, p, cell
<1>3. CASE n \notin YearColumns
  <2>1. p = Ltm /\ LtmAppended
    BY <1>1, <1>3, ColumnsAre, DoneCells
  <2>2. \A fy : p.label # FY(fy)
    <3>1. \A fy : FY(fy)[1] = "FY"
      BY DEF FY
    <3> QED BY <1>1, <2>1, <3>1, LabelsApart
  <2>3. Disagreement(Anchor, p.label) \notin warnings
    BY <1>1, <2>2 DEF AnchorExact
  <2> QED BY <1>1, <1>3, <2>3 DEF FlaggedAt
<1> QED BY <1>2, <1>3

LEMMA ItemDisagreements ==
  ASSUME IInv, Done, NEW key \in Keys \ {Anchor}, NEW n \in DOMAIN periods
  PROVE  FlaggedAt(key, n)
<1> DEFINE p == periods[n]
           start == IF Kind[key] = "instant" THEN NoStart ELSE p.start
           reported == Rivals(key, p)
           cell == cells[key][p.label]
<1>1. /\ company \in Companies /\ SeriesExact /\ stage \in Final /\ periods # <<>>
      /\ key \in Keys /\ Kind[key] \in {"duration", "instant", "cover"}
  <2>1. periods = <<>> => DOMAIN periods = {}
    OBVIOUS
  <2> QED BY <2>1, DoneCells, MappingAssumption
<1>2. p.label \in YearLabels \cup Labels(periods)
  BY DEF Labels
<1>3. Disagreement(key, p.label) \in warnings <=> Raised(key, p.label)
  <2>1. /\ Disagreement(key, p.label).code = "STITCH_DISAGREEMENT"
        /\ Disagreement(key, p.label).key = key /\ Disagreement(key, p.label).label = p.label
    BY DEF Disagreement
  <2> QED BY <1>2, <2>1 DEF IInv, WarningsExact
<1>4. \A g : g \in reported <=> /\ \E t \in TagSet(key) : g \in company.facts[t]
                                /\ g.start = start /\ g.end = p.end
  BY DEF Rivals
<1>5. FilledKeys = Keys \cup {Nwc} /\ LtmKeys = Keys \cup {Nwc} /\ LtmAppended
  BY <1>1, FinalColumns
<1>6. Ltm.label \notin YearLabels
  BY <1>1, <1>5, LabelsApart
<1> HIDE DEF reported, start
<1>7. CASE n \in YearColumns
  <2> DEFINE fy == AxisYears[n]
  <2>1. p = PeriodOf(fy) /\ p.label = FY(fy) /\ fy \in Window /\ ~p.ltm
    BY <1>7, ColumnsAre
  <2>2. cell = ClosedYearCell(key, fy)
    BY <1>1, <1>7, DoneCells
  <2> HIDE DEF fy, p, cell
  <2>3. Raised(key, p.label) <=> FillDisagrees(key, p)
    <3>1. p.label # Ltm.label
      BY <1>6, <2>1 DEF YearLabels
    <3>2. \A y : p.label = FY(y) <=> y = fy
      BY <2>1 DEF FY
    <3> QED BY <1>1, <1>5, <2>1, <3>1, <3>2 DEF Raised
  <2>4. CASE Kind[key] = "cover"
    BY <1>3, <2>1, <2>3, <2>4 DEF FillDisagrees, FlaggedAt, p
  <2>5. CASE Kind[key] # "cover"
    <3>1. FillDisagrees(key, p) <=> SpanDisagrees(key, start, p.end)
      BY <2>5 DEF FillDisagrees, start, p
    <3>2. YearCell(key, fy) = ResolveSpan(key, start, p.end)
      BY <1>1, <2>1, <2>5 DEF YearCell, Fill, start, p
    <3>3. \/ cell = ResolveSpan(key, start, p.end)
          \/ \E a, e : cell = Balance(ResolveSpan(key, start, p.end), a, e)
      BY <2>2, <3>2 DEF ClosedYearCell
    <3>4. SpanDisagrees(key, start, p.end) <=>
            cell.mechanism = "stitched" /\ \E f \in cell.src, g \in reported : Far(f.value, g.value)
      BY <1>1, <1>4, <3>3, Flagged
    <3> QED BY <1>3, <1>7, <2>1, <2>3, <2>5, <3>1, <3>4 DEF FlaggedAt, p, cell, reported
  <2> QED BY <2>4, <2>5
<1>8. CASE n \notin YearColumns
  <2>1. p = Ltm /\ cell = ClosedLtmCell(key) /\ (p.ltm <=> IsCaseA)
    BY <1>1, <1>8, DoneCells, ColumnsAre
  <2> HIDE DEF p, cell
  <2>2. Raised(key, p.label) <=> IsCaseA /\ Kind[key] = "instant" /\ SpanDisagrees(key, NoStart, p.end)
    <3>1. \A fy \in Window : FY(fy) # Ltm.label
      BY <1>6 DEF YearLabels
    <3> QED BY <1>1, <1>5, <2>1, <3>1 DEF Raised
  <2>3. CASE ~(IsCaseA /\ Kind[key] = "instant")
    BY <1>1, <1>3, <1>8, <2>1, <2>2, <2>3 DEF FlaggedAt, p
  <2>4. CASE IsCaseA /\ Kind[key] = "instant"
    <3>1. start = NoStart
      BY <2>4 DEF start
    <3>2. LtmCell(key) = ResolveSpan(key, start, p.end)
      BY <2>1, <2>4, <3>1 DEF LtmCell
    <3>3. \/ cell = ResolveSpan(key, start, p.end)
          \/ \E a, e : cell = Balance(ResolveSpan(key, start, p.end), a, e)
      BY <2>1, <3>2 DEF ClosedLtmCell
    <3>4. SpanDisagrees(key, start, p.end) <=>
            cell.mechanism = "stitched" /\ \E f \in cell.src, g \in reported : Far(f.value, g.value)
      BY <1>1, <1>4, <3>3, Flagged
    <3> QED BY <1>3, <2>1, <2>2, <2>4, <3>1, <3>4 DEF FlaggedAt, p, cell, reported
  <2> QED BY <2>3, <2>4
<1> QED BY <1>7, <1>8

\* PLANNING.md 5.2.2, statements.py:470-492 and 355-376: a finished model warns
\* about a cell, the anchor's included, exactly when it was chosen among tags of
\* which one is beyond the tolerance from it; of the flows of an LTM column
\* nothing is said.
THEOREM DisagreementsAreFlagged == Spec => []DisagreementsFlagged
<1>1. ASSUME IInv, AnchorExact PROVE DisagreementsFlagged
  <2>1. ASSUME Done, NEW key \in Keys, NEW n \in DOMAIN periods PROVE FlaggedAt(key, n)
    BY <1>1, <2>1, AnchorDisagreements, ItemDisagreements
  <2> QED BY <2>1 DEF DisagreementsFlagged, FlaggedAt, Far
<1> QED BY <1>1, Invariant, AnchorWarnings, PTL

-----------------------------------------------------------------------------
(* every column reports its own dates *)

\* a backfilled cell is made of facts of the one date its parts have
LEMMA BalanceFrom ==
  ASSUME NEW c, NEW assets, NEW equity, NEW start, NEW end,
         From(c, start, end), From(assets, start, end), From(equity, start, end)
  PROVE  From(Balance(c, assets, equity), start, end)
BY DEF From, Balance, CellOf

\* the facts of a cell that is no gap all have the one span
LEMMA OneSpan ==
  ASSUME NEW cell, CellOK(cell), ~IsGap(cell), NEW start, NEW end, From(cell, start, end),
         NEW p, p.start = start, p.end = end
  PROVE  {Span(f) : f \in cell.src} = {Span(p)}
<1>1. cell.src # {}
  BY DEF CellOK
<1>2. \A f \in cell.src : Span(f) = Span(p)
  BY DEF From, Span
<1> QED BY <1>1, <1>2

\* one annual period per tag: the last fact of the year is the first one
LEMMA OneAnnualFact ==
  ASSUME company \in Companies, NEW fy, NEW t \in TagSet(Anchor), ~Ambiguous(fy),
         AnnualFacts(t, fy) # {}
  PROVE  LastOf(AnnualFacts(t, fy)) = FirstOf(AnnualFacts(t, fy))
<1> DEFINE S == AnnualFacts(t, fy)
<1>1. FactSet(S)
  BY AnnualFactSet
<1>2. ~(Cardinality(S) > 1)
  BY DEF Ambiguous
<1>3. FirstOf(S) \in S /\ LastOf(S) \in S
  BY <1>1, FirstAndLast
<1> HIDE DEF S
<1> QED BY <1>1, <1>2, <1>3, TwoElements DEF FactSet, S

\* a cell of a year is made of facts of that year's dates
LEMMA YearFits ==
  ASSUME company \in Companies, SeriesExact, NEW key \in Keys, NEW fy \in Window,
         NEW cell, cell = ClosedYearCell(key, fy), NEW p, p = PeriodOf(fy)
  PROVE  /\ CellOK(cell) /\ (key = Anchor => ~IsGap(cell))
         /\ IsGap(cell) \/ (key = Anchor /\ Ambiguous(fy)) \/ Fits(key, p, cell.src)
<1>1. fy \in AnchorYears
  BY WindowIsLatest
<1>2. /\ p.label = FY(fy) /\ ~p.ltm /\ p.start \in Nat /\ p.end \in Nat
      /\ p.start = FirstOf(AnnualFacts(series[fy].tag, fy)).start
      /\ p.end = FirstOf(AnnualFacts(series[fy].tag, fy)).end
  BY <1>1, PeriodOfYear
<1>3. CellOK(cell)
  BY YearCellGood
<1>4. Kind[key] \in {"duration", "instant", "cover"}
  BY MappingAssumption
<1>5. CASE key = Anchor
  <2>1. cell = series[fy]
    BY <1>5, KeysApart DEF ClosedYearCell, YearCell
  <2>2. /\ ~IsGap(cell) /\ cell.tag \in TagSet(Anchor) /\ AnnualFacts(cell.tag, fy) # {}
        /\ cell.src = {LastOf(AnnualFacts(cell.tag, fy))}
    BY <1>1, <2>1, SeriesCell
  <2>3. ASSUME ~Ambiguous(fy) PROVE Fits(key, p, cell.src)
    <3>1. LastOf(AnnualFacts(cell.tag, fy)) = FirstOf(AnnualFacts(cell.tag, fy))
      BY <2>2, <2>3, OneAnnualFact
    <3>2. From(cell, p.start, p.end)
      BY <1>2, <2>1, <2>2, <3>1 DEF From
    <3>3. {Span(f) : f \in cell.src} = {Span(p)}
      BY <1>3, <2>2, <3>2, OneSpan
    <3> QED BY <1>2, <1>5, <3>3, KeysApart DEF Fits
  <2> QED BY <1>3, <1>5, <2>2, <2>3
<1>6. CASE key # Anchor /\ Kind[key] = "cover"
  <2>1. ~IsBackfilled(key)
    BY <1>6, KeysApart DEF IsBackfilled, Sheet
  <2>2. cell = ResolveCover(key, p.end)
    BY <1>6, <2>1 DEF ClosedYearCell, YearCell, Fill
  <2>3. \A f \in cell.src : IsInstant(f) /\ f.end - p.end \in 0..CoverTolerance
    BY <1>2, <2>2, CoverCell
  <2> QED BY <1>3, <1>6, <2>3 DEF Fits
<1>7. CASE key # Anchor /\ Kind[key] = "instant"
  <2>1. \A k \in Keys : k # Anchor /\ Kind[k] = "instant" => From(YearCell(k, fy), NoStart, p.end)
    BY SpanCell DEF YearCell, Fill
  <2>2. From(cell, NoStart, p.end)
    <3>1. CASE IsBackfilled(key)
      <4>1. /\ "total_assets" \in Keys /\ "total_equity" \in Keys
            /\ From(YearCell("total_assets", fy), NoStart, p.end)
            /\ From(YearCell("total_equity", fy), NoStart, p.end)
        BY <2>1, <3>1, KeysApart DEF IsBackfilled, Sheet
      <4> QED BY <1>7, <2>1, <3>1, <4>1, BalanceFrom DEF ClosedYearCell
    <3>2. CASE ~IsBackfilled(key)
      BY <1>7, <2>1, <3>2 DEF ClosedYearCell
    <3> QED BY <3>1, <3>2
  <2> QED BY <1>3, <1>7, <2>2 DEF Fits, From, IsInstant
<1>8. CASE key # Anchor /\ Kind[key] = "duration"
  <2>1. ~IsBackfilled(key)
    BY <1>8, KeysApart DEF IsBackfilled, Sheet
  <2>2. cell = ResolveSpan(key, p.start, p.end)
    BY <1>8, <2>1 DEF ClosedYearCell, YearCell, Fill
  <2>3. From(cell, p.start, p.end)
    BY <2>2, SpanCell
  <2>4. ~IsGap(cell) => {Span(f) : f \in cell.src} = {Span(p)}
    BY <1>3, <2>3, OneSpan
  <2> QED BY <1>2, <1>3, <1>8, <2>4 DEF Fits
<1> QED BY <1>4, <1>5, <1>6, <1>7, <1>8

\* the latest fiscal year's cell of a flow, once more with its year
LEMMA GenuineFits ==
  ASSUME IInv, Done, periods # <<>>, IsCaseA, NEW key \in Keys,
         NEW cell, cell = cells[key][Ltm.label]
  PROVE  /\ key = Anchor => ~IsGap(cell)
         /\ IsGap(cell) \/ (key = Anchor /\ Ambiguous(LatestFy.label[2])) \/ Fits(key, Ltm, cell.src)
<1>1. /\ company \in Companies /\ SeriesExact /\ LtmAppended /\ HasLtm
      /\ cell = ClosedLtmCell(key) /\ Columns \in YearColumns
      /\ LatestFy = PeriodOf(AxisYears[Columns]) /\ LatestFy.label = FY(AxisYears[Columns])
      /\ cells[key][LatestFy.label] = ClosedYearCell(key, AxisYears[Columns])
  BY DoneCells
<1>2. AxisYears[Columns] \in Window
  BY <1>1, LastColumns
<1>3. PICK this \in Stubs(LatestFy), tag \in TagSet(Anchor) : \E prior \in PriorStubs(tag, this) :
        /\ spans = <<Span(this), Span(prior)>> /\ Ltm = LtmPeriod(this)
        /\ ~IsGap(ResolveSpan(Anchor, this.start, this.end))
        /\ ~IsGap(ResolveSpan(Anchor, prior.start, prior.end))
  BY <1>1, TwoStubs
<1>4. PICK prior \in PriorStubs(tag, this) :
        /\ spans = <<Span(this), Span(prior)>> /\ Ltm = LtmPeriod(this)
        /\ ~IsGap(ResolveSpan(Anchor, this.start, this.end))
        /\ ~IsGap(ResolveSpan(Anchor, prior.start, prior.end))
  BY <1>3
<1>5. Ltm.ltm /\ Ltm.end \in Int
  BY <1>1, <1>4, LtmDates DEF LtmPeriod
<1>6. /\ spans[1] = Span(this) /\ spans[2] = Span(prior)
      /\ spans[1].start = this.start /\ spans[1].end = this.end
      /\ spans[2].start = prior.start /\ spans[2].end = prior.end
  BY <1>4 DEF Span
<1>7. CellOK(cell)
  BY <1>1, LtmCellGood
<1>8. Kind[key] \in {"duration", "instant", "cover"}
  BY MappingAssumption
<1>9. CASE Kind[key] = "cover"
  <2>1. key # Anchor /\ ~IsBackfilled(key)
    BY <1>9, KeysApart DEF IsBackfilled, Sheet
  <2>2. cell = ResolveCover(key, Ltm.end)
    BY <1>1, <1>9, <2>1 DEF ClosedLtmCell, LtmCell
  <2>3. \A f \in cell.src : IsInstant(f) /\ f.end - Ltm.end \in 0..CoverTolerance
    BY <1>1, <1>5, <2>2, CoverCell
  <2> QED BY <1>9, <2>1, <2>3 DEF Fits
<1>10. CASE Kind[key] = "instant"
  <2>1. \A k \in Keys : Kind[k] = "instant" => From(LtmCell(k), NoStart, Ltm.end)
    BY SpanCell DEF LtmCell
  <2>2. From(cell, NoStart, Ltm.end)
    <3>1. CASE IsBackfilled(key)
      <4>1. /\ "total_assets" \in Keys /\ "total_equity" \in Keys
            /\ From(LtmCell("total_assets"), NoStart, Ltm.end)
            /\ From(LtmCell("total_equity"), NoStart, Ltm.end)
        BY <2>1, <3>1, KeysApart DEF IsBackfilled, Sheet
      <4> QED BY <1>1, <1>10, <2>1, <3>1, <4>1, BalanceFrom DEF ClosedLtmCell
    <3>2. CASE ~IsBackfilled(key)
      BY <1>1, <1>10, <2>1, <3>2 DEF ClosedLtmCell
    <3> QED BY <3>1, <3>2
  <2>3. key # Anchor
    BY <1>10, KeysApart
  <2> QED BY <1>10, <2>2, <2>3 DEF Fits, From, IsInstant
<1>11. CASE Kind[key] = "duration"
  <2> DEFINE fy == cells[key][LatestFy.label]
             a == ResolveSpan(key, spans[1].start, spans[1].end)
             b == ResolveSpan(key, spans[2].start, spans[2].end)
  <2>1. ~IsBackfilled(key)
    BY <1>11, KeysApart DEF IsBackfilled, Sheet
  <2>2. cell = FlowLtm(fy, a, b)
    BY <1>1, <1>11, <2>1 DEF ClosedLtmCell, LtmCell
  <2>3. /\ CellOK(fy) /\ (key = Anchor => ~IsGap(fy))
        /\ IsGap(fy) \/ (key = Anchor /\ Ambiguous(AxisYears[Columns])) \/ Fits(key, LatestFy, fy.src)
    BY <1>1, <1>2, YearFits
  <2>4. LatestFy.label[2] = AxisYears[Columns] /\ ~LatestFy.ltm
    BY <1>1, LtmDates DEF FY
  <2>5. /\ CellOK(a) /\ From(a, spans[1].start, spans[1].end)
        /\ CellOK(b) /\ From(b, spans[2].start, spans[2].end)
    BY SpanCell
  <2>6. key = Anchor => ~IsGap(a) /\ ~IsGap(b)
    BY <1>4, <1>6
  <2>7. ~IsGap(a) => {Span(f) : f \in a.src} = {spans[1]}
    <3>1. ~IsGap(a) => {Span(f) : f \in a.src} = {Span(this)}
      BY <1>6, <2>5, OneSpan
    <3> QED BY <1>6, <3>1
  <2>8. ~IsGap(b) => {Span(f) : f \in b.src} = {spans[2]}
    <3>1. ~IsGap(b) => {Span(f) : f \in b.src} = {Span(prior)}
      BY <1>6, <2>5, OneSpan
    <3> QED BY <1>6, <3>1
  <2>9. Fits(key, LatestFy, fy.src) => {Span(f) : f \in fy.src} = {Span(LatestFy)}
    BY <1>11, <2>4 DEF Fits
  <2> HIDE DEF fy, a, b
  <2>10. CASE IsGap(fy) \/ IsGap(a) \/ IsGap(b)
    <3>1. IsGap(cell) /\ key # Anchor
      BY <2>2, <2>3, <2>6, <2>10, MissingCell DEF FlowLtm
    <3> QED BY <3>1
  <2>11. CASE ~(IsGap(fy) \/ IsGap(a) \/ IsGap(b))
    <3>1. cell = CellOf(fy.value + a.value - b.value, "derived", Blank, fy.src \cup a.src \cup b.src)
      BY <2>2, <2>11 DEF FlowLtm
    <3>2. ~IsGap(cell) /\ cell.src = fy.src \cup a.src \cup b.src
      BY <3>1 DEF CellOf, IsGap
    <3>3. ASSUME Fits(key, LatestFy, fy.src) PROVE Fits(key, Ltm, cell.src)
      <4>1. {Span(f) : f \in cell.src} = {Span(LatestFy), spans[1], spans[2]}
        BY <2>7, <2>8, <2>9, <2>11, <3>2, <3>3
      <4> QED BY <1>5, <1>11, <4>1 DEF Fits
    <3> QED BY <2>3, <2>4, <2>11, <3>2, <3>3
  <2> QED BY <2>10, <2>11
<1> QED BY <1>8, <1>9, <1>10, <1>11

LEMMA Coherent == IInv => ColumnsCoherent
<1> DEFINE Holds(key, n) ==
             LET cell == cells[key][periods[n].label]
             IN  /\ key = Anchor => ~IsGap(cell)
                 /\ \/ IsGap(cell)
                    \/ key = Anchor /\ Ambiguous(YearOf(periods[n]))
                    \/ Fits(key, periods[n], cell.src)
<1> SUFFICES ASSUME IInv, Done, NEW key \in Keys, NEW n \in DOMAIN periods PROVE Holds(key, n)
  BY DEF ColumnsCoherent
<1>1. /\ company \in Companies /\ SeriesExact /\ stage \in Final /\ periods # <<>>
  <2>1. periods = <<>> => DOMAIN periods = {}
    OBVIOUS
  <2> QED BY <2>1, DoneCells
<1>2. ASSUME NEW m \in YearColumns PROVE Holds(key, m)
  <2>1. /\ periods[m] = PeriodOf(AxisYears[m]) /\ periods[m].label = FY(AxisYears[m])
        /\ AxisYears[m] \in Window /\ ~periods[m].ltm
    BY <1>1, YearColumnsAre
  <2>2. YearOf(periods[m]) = AxisYears[m]
    BY <2>1 DEF YearOf, FY
  <2>3. cells[key][periods[m].label] = ClosedYearCell(key, AxisYears[m])
    BY DoneCells
  <2> QED BY <1>1, <2>1, <2>2, <2>3, YearFits
<1>3. ASSUME n \notin YearColumns, IsCaseA PROVE Holds(key, n)
  <2>1. periods[n] = Ltm
    BY <1>1, <1>3, DoneCells
  <2>2. Ltm.ltm
    BY <1>1, <1>3, DoneCells, TwoStubs DEF LtmPeriod
  <2>3. YearOf(Ltm) = LatestFy.label[2]
    BY <2>2 DEF YearOf
  <2> QED BY <1>1, <1>3, <2>1, <2>3, GenuineFits
<1>4. ASSUME n \notin YearColumns, ~IsCaseA PROVE Holds(key, n)
  <2>1. periods[n] = Ltm /\ Columns \in YearColumns /\ LatestFy = periods[Columns]
        /\ LatestFy = PeriodOf(AxisYears[Columns])
    BY <1>1, <1>4, DoneCells
  <2>2. /\ Ltm = Fallback(LatestFy)
        /\ cells[key][Ltm.label] = cells[key][LatestFy.label]
    BY <1>1, <1>4, FallbackCells
  <2>3. /\ Ltm.start = LatestFy.start /\ Ltm.end = LatestFy.end
        /\ ~Ltm.ltm /\ ~LatestFy.ltm /\ Ltm.label[2] = LatestFy.label[2]
    <3>1. PICK fy : fy = AxisYears[Columns]
      OBVIOUS
    <3>2. LatestFy = PeriodOf(fy) /\ Ltm = Fallback(PeriodOf(fy))
      BY <2>1, <2>2, <3>1
    <3>3. PICK f : PeriodOf(fy) = [label |-> <<"FY", fy>>, start |-> f.start, end |-> f.end,
                                   ltm |-> FALSE]
      BY DEF PeriodOf, FY
    <3>4. /\ LatestFy.start = f.start /\ LatestFy.end = f.end /\ ~LatestFy.ltm
          /\ LatestFy.label = <<"FY", fy>>
      BY <3>2, <3>3
    <3>5. LatestFy.label[2] = fy
      BY <3>4
    <3>6. /\ Ltm.start = f.start /\ Ltm.end = f.end /\ ~Ltm.ltm
          /\ Ltm.label = <<"FALLBACK", PeriodOf(fy).label[2]>>
      BY <3>2, <3>3 DEF Fallback
    <3>7. PeriodOf(fy).label[2] = fy
      BY <3>2, <3>5
    <3>8. Ltm.label[2] = fy
      BY <3>6, <3>7
    <3> QED BY <3>4, <3>5, <3>6, <3>8
  <2>4. YearOf(Ltm) = YearOf(LatestFy)
    BY <2>3 DEF YearOf
  <2>5. \A src : Fits(key, LatestFy, src) <=> Fits(key, Ltm, src)
    BY <2>3 DEF Fits, Span
  <2>6. Holds(key, Columns)
    BY <1>2, <2>1
  <2> QED BY <2>1, <2>2, <2>4, <2>5, <2>6
<1> QED BY <1>2, <1>3, <1>4

\* PLANNING.md 5.1, the period axis rule: every source fact of every cell
\* of a finished model was reported for the dates of its column; an LTM
\* flow for exactly the three spans the column is made of; the anchor has
\* no gap.
THEOREM CoherentColumns == Spec => []ColumnsCoherent
BY Invariant, Coherent, PTL

-----------------------------------------------------------------------------
(* the changes in working capital add up *)

\* a composition adds up to an integer
LEMMA TotalIsInt ==
  ASSUME company \in Companies, NEW key \in Keys, NEW start, NEW end,
         NEW used, used = Matches(Compose[key], start, end)
  PROVE  Total(used) \in Int
<1> DEFINE S == DOMAIN used
           v == [t \in S |-> used[t].value]
           Eq(f) == f = [s \in SUBSET S |->
                     IF s = {} THEN 0 ELSE used[CHOOSE x \in s : TRUE].value
                                             + f[s \ {CHOOSE x \in s : TRUE}]]
           iter == CHOOSE f : Eq(f)
<1>1. Total(used) = iter[S]
  BY DEF Total, MapThenSumSet, MapThenFoldSet
<1>2. IsFiniteSet(S)
  BY MatchesAre, MappingAssumption, FS_Subset
<1>3. \A t \in S : v[t] \in Int
  <2>1. \A t \in S : t \in Compose[key] /\ used[t] \in company.facts[t]
    BY MatchesAre
  <2>2. \A t \in S : used[t].value \in Int
    BY <2>1, CompanyAssumption
  <2> QED BY <2>2
<1>4. \A f : Sums(f, v, S) <=> Eq(f)
  <2> SUFFICES ASSUME NEW f
               PROVE  Sums(f, v, S) <=> Eq(f)
    OBVIOUS
  <2>1. \A s \in SUBSET S : s # {} => v[Some(s)] = used[CHOOSE x \in s : TRUE].value
    BY SomeOf DEF Some
  <2> HIDE DEF v
  <2> QED BY <2>1 DEF Sums, Some
<1> HIDE DEF v, S, Eq
<1>5. \E f : Sums(f, v, S)
  BY <1>2, SumExists
<1>6. Sums(iter, v, S)
  <2>1. Eq(iter)
    BY <1>4, <1>5
  <2> QED BY <1>4, <2>1
<1> HIDE DEF iter
<1>7. Adds(iter, v, S)
  BY <1>2, <1>3, <1>6, SumIs, Zenon
<1>8. S \in SUBSET S
  OBVIOUS
<1> QED BY <1>1, <1>7, <1>8 DEF Adds

\* a cell has an integer value
LEMMA SpanValue ==
  ASSUME company \in Companies, NEW key \in Keys, NEW start, NEW end,
         NEW cell, cell = ResolveSpan(key, start, end)
  PROVE  cell.value \in Int
<1> DEFINE found == Matches(TagSet(key), start, end)
           used == Matches(Compose[key], start, end)
<1>1. \A x \in Int : Signed(key, x) \in Int
  BY DEF Signed
<1>2. CASE DOMAIN found # {}
  <2>1. cell = FromTags(key, DOMAIN found, found)
    BY <1>2 DEF ResolveSpan
  <2>2. DOMAIN found \subseteq TagSet(key)
    BY MatchesAre
  <2>3. FirstTag(key, DOMAIN found) \in DOMAIN found
    BY <1>2, <2>2, FirstTagIsOne
  <2>4. ASSUME NEW t \in DOMAIN found PROVE found[t].value \in Int
    <3>1. found[t] \in company.facts[t] /\ FactSet(company.facts[t])
      BY <2>2, MatchesAre, FactsOfTags
    <3> QED BY <3>1 DEF FactSet
  <2> HIDE DEF found
  <2>5. cell.value = Signed(key, found[FirstTag(key, DOMAIN found)].value)
    BY <2>1 DEF FromTags, CellOf
  <2> QED BY <1>1, <2>3, <2>4, <2>5
<1>3. CASE DOMAIN found = {} /\ DOMAIN used = {}
  <2>1. cell = Missing
    BY <1>3 DEF ResolveSpan, Composed
  <2> QED BY <2>1 DEF Missing, CellOf
<1>4. CASE DOMAIN found = {} /\ DOMAIN used # {}
  <2>1. cell = CellOf(Signed(key, Total(used)), "composed", Blank, {used[t] : t \in DOMAIN used})
    BY <1>4 DEF ResolveSpan, Composed
  <2>2. Total(used) \in Int
    BY TotalIsInt
  <2> HIDE DEF used
  <2>3. cell.value = Signed(key, Total(used))
    BY <2>1 DEF CellOf
  <2> QED BY <1>1, <2>2, <2>3
<1> QED BY <1>2, <1>3, <1>4

\* the working capital of one column
NwcAt(c, l) == c["accounts_receivable"][l].value + c["inventory"][l].value
                 - c["accounts_payable"][l].value

\* the change is the difference of the two working capitals
LEMMA ChangeIs ==
  ASSUME NEW c, NEW label, NEW prior, NwcInputs \subseteq Keys,
         \A key \in NwcInputs : ~IsGap(c[key][label]) /\ ~IsGap(c[key][prior])
  PROVE  ChangeInNwc(c, label, prior).value = NwcAt(c, label) - NwcAt(c, prior)
BY DEF ChangeInNwc, NwcAt, CellOf

LEMMA Telescopes == IInv => NwcTelescopes
<1> DEFINE columns == IF IsCaseA THEN DOMAIN periods ELSE YearColumns
           known == \A key \in NwcInputs, n \in columns : ~IsGap(cells[key][periods[n].label])
           Change(n) == cells[Nwc][periods[n].label].value
           Capital(n) == NwcAt(cells, periods[n].label)
<1> SUFFICES ASSUME IInv, Done, columns # {}, NwcInputs \subseteq Keys, known
             PROVE  MapThenSumSet(Change, columns \ {1}) = Capital(Max(columns)) - Capital(1)
  BY DEF NwcTelescopes, Nwc, NwcAt
<1>1. company \in Companies /\ SeriesExact /\ stage \in Final
  BY DoneCells
<1>2. /\ Columns \in Nat /\ YearColumns = 1..Columns
  BY <1>1, YearColumnsAre
<1>3. IsCaseA => periods # <<>> /\ LtmAppended /\ DOMAIN periods = 1..(Columns + 1)
  <2>1. IsCaseA => periods # <<>>
    BY <1>1, FinalColumns DEF IsCaseA
  <2> QED BY <1>1, <2>1, DoneCells, LastColumns
<1> DEFINE N == IF IsCaseA THEN Columns + 1 ELSE Columns
<1>4. N \in Nat /\ columns = 1..N
  BY <1>2, <1>3
<1>5. N > 0
  BY <1>4
<1>6. \A n \in 1..N : n \in YearColumns \/ (n = Columns + 1 /\ IsCaseA)
  BY <1>2
<1>7. ASSUME NEW n \in 1..N, NEW key \in NwcInputs
      PROVE  cells[key][periods[n].label].value \in Int
  <2>1. key \in Keys /\ Kind[key] = "instant" /\ key # Anchor /\ ~IsBackfilled(key)
    BY KeysApart
  <2>2. CASE n \in YearColumns
    <3>1. cells[key][periods[n].label] = YearCell(key, AxisYears[n])
      BY <2>1, <2>2, DoneCells DEF ClosedYearCell
    <3>2. YearCell(key, AxisYears[n]) = ResolveSpan(key, NoStart, PeriodOf(AxisYears[n]).end)
      BY <2>1 DEF YearCell, Fill
    <3> QED BY <1>1, <2>1, <3>1, <3>2, SpanValue
  <2>3. CASE n = Columns + 1 /\ IsCaseA
    <3>1. cells[key][periods[n].label] = LtmCell(key)
      BY <1>3, <2>1, <2>3, DoneCells DEF ClosedLtmCell
    <3>2. LtmCell(key) = ResolveSpan(key, NoStart, Ltm.end)
      BY <2>1, <2>3 DEF LtmCell
    <3> QED BY <1>1, <2>1, <3>1, <3>2, SpanValue
  <2> QED BY <1>6, <2>2, <2>3
<1>8. \A n \in 1..N : Capital(n) \in Int
  BY <1>7 DEF NwcAt, NwcInputs
<1>9. ASSUME NEW n \in 1..N, n # 1 PROVE Change(n) = Capital(n) - Capital(n - 1)
  <2>1. n \in Nat /\ n - 1 \in 1..N /\ n \in columns /\ n - 1 \in columns
    BY <1>4, <1>9
  <2>2. /\ \A key \in NwcInputs : /\ ~IsGap(cells[key][periods[n].label])
                                  /\ ~IsGap(cells[key][periods[n - 1].label])
    BY <2>1
  <2>3. cells[Nwc][periods[n].label]
          = ChangeInNwc(cells, periods[n].label, periods[n - 1].label)
    <3>1. CASE n \in YearColumns
      <4>1. n \in 1..Columns /\ n - 1 \in 1..Columns
        BY <1>2, <1>9, <3>1
      <4>2. periods[n].label = Axis[n].label /\ periods[n - 1].label = Axis[n - 1].label
        BY <1>1, <4>1, YearColumnsAre, AxisColumns
      <4>3. stage \notin BeforeAxis \cup {"fill", "derive"}
        BY DEF Done, BeforeAxis
      <4> QED BY <1>9, <4>1, <4>2, <4>3 DEF IInv, NwcExact
    <3>2. CASE n = Columns + 1 /\ IsCaseA
      <4>1. /\ periods[n] = Ltm /\ periods[n - 1] = LatestFy
            /\ cells[Nwc][Ltm.label] = LtmNwc(cells)
        BY <1>2, <1>3, <3>2, DoneCells
      <4> QED BY <3>2, <4>1 DEF LtmNwc
    <3> QED BY <1>6, <3>1, <3>2
  <2> QED BY <2>2, <2>3, ChangeIs
<1>10. Max(columns) = N
  <2>1. N \in columns /\ \A n \in columns : N >= n /\ n \in Nat
    BY <1>4, <1>5
  <2> HIDE DEF columns, N
  <2>2. Max(columns) \in columns /\ \A n \in columns : Max(columns) >= n
    BY <2>1 DEF Max
  <2> QED BY <1>4, <2>1, <2>2
<1> DEFINE S == columns \ {1}
           v == [n \in S |-> Change(n)]
           w == [n \in 1..N |-> Capital(n)]
           Eq(f) == f = [s \in SUBSET S |->
                     IF s = {} THEN 0 ELSE Change(CHOOSE x \in s : TRUE)
                                             + f[s \ {CHOOSE x \in s : TRUE}]]
           iter == CHOOSE f : Eq(f)
<1> HIDE DEF Capital, Change, N
<1>11. MapThenSumSet(Change, S) = iter[S]
  BY DEF MapThenSumSet, MapThenFoldSet
<1>12. S = 2..N /\ \A n \in S : n \in 1..N /\ n # 1
  BY <1>4
<1>13. \A n \in 1..N : w[n] \in Int
  BY <1>8
<1>14. \A n \in S : v[n] = w[n] - w[n - 1]
  <2>1. ASSUME NEW n \in S PROVE v[n] = w[n] - w[n - 1]
    <3>1. n \in 1..N /\ n # 1 /\ n - 1 \in 1..N
      BY <1>4, <1>12
    <3> QED BY <1>9, <3>1
  <2> QED BY <2>1
<1>15. \A f : Sums(f, v, S) <=> Eq(f)
  <2> SUFFICES ASSUME NEW f PROVE Sums(f, v, S) <=> Eq(f)
    OBVIOUS
  <2>1. \A s \in SUBSET S : s # {} => v[Some(s)] = Change(CHOOSE x \in s : TRUE)
    BY SomeOf DEF Some
  <2> HIDE DEF v, Change, S
  <2>2. \A s \in SUBSET S : s # {} =>
          v[Some(s)] + f[s \ {Some(s)}] = Change(CHOOSE x \in s : TRUE) + f[s \ {CHOOSE x \in s : TRUE}]
    BY <2>1 DEF Some
  <2>3. [s \in SUBSET S |-> IF s = {} THEN 0 ELSE v[Some(s)] + f[s \ {Some(s)}]]
          = [s \in SUBSET S |-> IF s = {} THEN 0 ELSE Change(CHOOSE x \in s : TRUE)
                                                        + f[s \ {CHOOSE x \in s : TRUE}]]
    BY <2>2
  <2> QED BY <2>3 DEF Sums
<1> HIDE DEF S, v, w, Eq
<1>16. \E f : Sums(f, v, S)
  <2>1. S = 2..N
    BY <1>12
  <2>2. IsFiniteSet(S)
    BY <1>4, <2>1, FS_Interval
  <2> QED BY <2>2, SumExists, Zenon
<1>17. Sums(iter, v, S)
  <2>1. Eq(iter)
    BY <1>15, <1>16
  <2> QED BY <1>15, <2>1
<1> HIDE DEF iter
<1>18. iter[S] = w[N] - w[1]
  BY <1>4, <1>5, <1>12, <1>13, <1>14, <1>17, Telescope
<1>19. w[N] = Capital(N) /\ w[1] = Capital(1)
  BY <1>4, <1>5 DEF w
<1> QED BY <1>10, <1>11, <1>18, <1>19 DEF S

\* _derive_change_in_nwc: where every balance sheet is complete the changes
\* of the columns add up to the difference between the last and the first
\* working capital.
THEOREM NwcAlwaysTelescopes == Spec => []NwcTelescopes
BY Invariant, Telescopes, PTL
=============================================================================
