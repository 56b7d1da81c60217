----------------------------- MODULE Statements -----------------------------
(***************************************************************************)
(* build_financial_model of src/fsa/normalize/statements.py: the period    *)
(* axis is taken once from the anchor line item, every other item is       *)
(* filled against it, gaps are backfilled or derived, and a trailing       *)
(* twelve months (LTM) column is put behind it.  One action per stage of   *)
(* the pipeline, one step of FillItem and of FillLtm per line item.        *)
(*                                                                         *)
(* A tag's facts are a set with at most one fact per (start, end), which   *)
(* is what dedupe_facts leaves (module Dedupe).                            *)
(***************************************************************************)
EXTENDS Calendar, Sequences, FiniteSets, FiniteSetsExt, SequencesExt

CONSTANTS
  Companies,        \* inputs: [facts, fye, renamed, nonUsd, financial] records
  HistoricalYears,  \* years the user asked for
  Anchor,           \* key of the anchor line item
  Items,            \* keys of the other items with tags, in the mapping's order
  Kind,             \* key -> "duration", "instant" or "cover"
  Tags,             \* key -> sequence of alternative tags, by priority
  Compose,          \* key -> set of component tags
  Negated,          \* keys whose sign is negated
  TotalDebtTag,     \* _LONG_TERM_DEBT_TOTAL_TAG
  StitchTolerance   \* 1 / _STITCH_TOLERANCE

Keys == {Anchor} \cup {Items[n] : n \in DOMAIN Items}
TagSet(key) == {Tags[key][n] : n \in DOMAIN Tags[key]}

Blank == ""   \* the tag of a cell without one, the key of a warning about none

\* load_mapping: an item that is fetched has tags, the anchor is one of them, a
\* duration and a row of its own, and only change_in_nwc is derived.
\* us_gaap.yaml: the anchor has no components.  (load_mapping lets them through,
\* and build_financial_model may then raise StopIteration: Build of module Cli.)
ASSUME MappingAssumption ==
  /\ HistoricalYears \in Nat \ {0} /\ StitchTolerance \in Nat \ {0}
  /\ Items \in Seq(STRING) /\ Items # <<>>
  /\ \A key \in Keys :
       /\ key # "change_in_nwc"
       /\ Kind[key] \in {"duration", "instant", "cover"}
       /\ Tags[key] \in Seq(STRING) /\ Tags[key] # <<>> /\ Blank \notin TagSet(key)
       /\ IsFiniteSet(Compose[key])
  /\ Kind[Anchor] = "duration" /\ Compose[Anchor] = {}
  /\ \A n \in DOMAIN Items : Items[n] # Anchor

\* us_gaap.yaml: the items the derivations read are lines of a balance sheet
ASSUME BalanceSheetAssumption ==
  \A key \in Keys \cap {"total_liabilities", "total_assets", "total_equity",
                       "accounts_receivable", "inventory", "accounts_payable"} :
    Kind[key] = "instant"

\* dedupe_facts leaves one fact per period
ASSUME CompanyAssumption ==
  \A c \in Companies :
    /\ c.fye \in {NoFye} \cup 0..(YearDays - 1)
    /\ \A key \in Keys : \A t \in TagSet(key) \cup Compose[key] :
         /\ IsFiniteSet(c.facts[t])
         /\ c.facts[t] \subseteq [start : Nat, end : Nat, value : Int]
         /\ \A f, g \in c.facts[t] : f.start = g.start /\ f.end = g.end => f = g

VARIABLES
  company,    \* the company built, one of Companies
  stage,      \* what the pipeline does next
  item,       \* position in Items of the fill stages
  series,     \* annual_series: fiscal year -> cell
  periods,    \* the axis
  cells,      \* cells_by_key: key -> label -> cell
  spans,      \* (this_span, prior_span), or <<>> for None
  warnings    \* codes raised, with the key and label they are about

vars == <<company, stage, item, series, periods, cells, spans, warnings>>

-----------------------------------------------------------------------------
(* Resolving one line item for one span. *)

\* the highest-priority tag of a non-empty set
FirstTag(key, tags) == Tags[key][Min({n \in DOMAIN Tags[key] : Tags[key][n] \in tags})]

\* _values_agree: within 1 / StitchTolerance of the larger one
Agree(a, b) == Distance(a, b) * StitchTolerance <= Max({Distance(a, 0), Distance(b, 0)})

Signed(key, value) == IF key \in Negated THEN -value ELSE value

\* A cell's source facts stand for its provenance (accession, filed).
CellOf(value, mechanism, tag, src) ==
  [value |-> value, mechanism |-> mechanism, tag |-> tag, src |-> src]
Missing == CellOf(0, "missing", Blank, {})
IsGap(cell) == cell.mechanism = "missing"

Disagreement(key, label) == [code |-> "STITCH_DISAGREEMENT", key |-> key, label |-> label]
Warning(code) == [code |-> code, key |-> Blank, label |-> <<>>]

\* The cell of an item resolved by the fact fact[t] of each alternative t in
\* hits: the highest priority wins.
FromTags(key, hits, fact) ==
  LET winner == FirstTag(key, hits)
      mechanism == IF Cardinality(hits) > 1 THEN "stitched"
                   ELSE IF winner = Tags[key][1] THEN "direct" ELSE "alternative"
  IN  CellOf(Signed(key, fact[winner].value), mechanism, winner, {fact[winner]})
\* ... and whether one of the others disagrees with it
Disagree(key, hits, fact) ==
  \E t \in hits : ~Agree(fact[FirstTag(key, hits)].value, fact[t].value)

\* select_exact for each of a set of tags, where it finds something
\* mutant: a fact with the same end will do
MatchesByEnd(tags, start, end) ==
  LET hits == {t \in tags : \E f \in company.facts[t] : f.end = end}
  IN  [t \in hits |-> CHOOSE f \in company.facts[t] : f.end = end]
Matches(tags, start, end) ==
  LET At(t) == {f \in company.facts[t] : f.start = start /\ f.end = end}
  IN  [t \in {u \in tags : At(u) # {}} |-> CHOOSE f \in At(t) : TRUE]

Total(used) == MapThenSumSet(LAMBDA t : used[t].value, DOMAIN used)
\* composition: the sum of the components that have a value
Composed(key, start, end) ==
  LET used == Matches(Compose[key], start, end)
  IN  IF DOMAIN used = {} THEN Missing
      ELSE CellOf(Signed(key, Total(used)), "composed", Blank, {used[t] : t \in DOMAIN used})

\* resolve_span: alternatives, then composition, then a gap
ResolveSpan(key, start, end) ==
  LET found == Matches(TagSet(key), start, end)
  IN  IF DOMAIN found = {} THEN Composed(key, start, end)
      ELSE FromTags(key, DOMAIN found, found)
SpanDisagrees(key, start, end) ==
  LET found == Matches(TagSet(key), start, end)
  IN  DOMAIN found # {} /\ Disagree(key, DOMAIN found, found)

\* resolve_cover_page: the closest instant on or after the period's end
ResolveCover(key, end) ==
  LET Near(t) == {f \in company.facts[t] :
                    IsInstant(f) /\ f.end >= end /\ f.end - end <= CoverTolerance}
      ends == {f.end : f \in UNION {Near(t) : t \in TagSet(key)}}
      found == Matches(TagSet(key), NoStart, Min(ends))
      winner == FirstTag(key, DOMAIN found)
  IN  IF ends = {} THEN Missing
      ELSE FromTags(key, {winner}, found)

-----------------------------------------------------------------------------
(* The axis. *)

AnchorFacts == UNION {company.facts[t] : t \in TagSet(Anchor)}
IsFiscalYear(f) == IsAnnual(f) /\ FyeMatches(f.end, company.fye)
AnnualFacts(tag, fy) ==
  {f \in company.facts[tag] : IsFiscalYear(f) /\ FiscalYear(f.end) = fy}
AnchorYears == {FiscalYear(f.end) : f \in {g \in AnchorFacts : IsFiscalYear(g)}}
AnnualTags(fy) == {t \in TagSet(Anchor) : AnnualFacts(t, fy) # {}}
LastAnnual(fy) == [t \in AnnualTags(fy) |-> LastOf(AnnualFacts(t, fy))]

FY(fy) == <<"FY", fy>>
Labels(axis) == {axis[n].label : n \in DOMAIN axis}

Init ==
  /\ company \in Companies
  /\ stage = "anchor"
  /\ item = 1
  /\ series = <<>>
  /\ periods = <<>>
  /\ cells = [key \in Keys \cup {"change_in_nwc"} |-> <<>>]
  /\ spans = <<>>
  /\ warnings = {}

\* _resolve_annual_series: of a tag's facts of one year the last one counts
\* mutant: the disagreements are not appended
ResolveAnchorQuietly ==
  /\ stage = "anchor" /\ stage' = "classify"
  /\ series' = [fy \in AnchorYears |-> FromTags(Anchor, AnnualTags(fy), LastAnnual(fy))]
  /\ UNCHANGED <<company, item, periods, cells, spans, warnings>>
ResolveAnchor ==
  /\ stage = "anchor" /\ stage' = "classify"
  /\ series' = [fy \in AnchorYears |-> FromTags(Anchor, AnnualTags(fy), LastAnnual(fy))]
  /\ warnings' = {Disagreement(Anchor, FY(fy)) :
       fy \in {y \in AnchorYears : Disagree(Anchor, AnnualTags(y), LastAnnual(y))}}
  /\ UNCHANGED <<company, item, periods, cells, spans>>

\* the warnings about the registrant, in the order the code checks them
\* mutant: a former name is not looked at
HistoryWarningsByCountOnly(years) ==
  CASE years = 0 /\ company.nonUsd -> {"NON_USD"}
    [] years = 0 /\ ~company.nonUsd -> {"REGISTRANT_CHANGE_SUSPECTED"}
    [] years \in {1, 2} -> {"THIN_HISTORY"}
    [] OTHER -> {}
HistoryWarnings(years) ==
  CASE years = 0 /\ company.nonUsd -> {"NON_USD"}
    [] years = 0 /\ ~company.nonUsd -> {"REGISTRANT_CHANGE_SUSPECTED"}
    [] years \in {1, 2} /\ company.renamed -> {"REGISTRANT_CHANGE_SUSPECTED"}
    [] years \in {1, 2} /\ ~company.renamed -> {"THIN_HISTORY"}
    [] OTHER -> {}

Classify ==
  /\ stage = "classify" /\ stage' = "axis"
  /\ LET codes == HistoryWarnings(Cardinality(DOMAIN series))
                    \cup (IF company.financial THEN {"FINANCIAL_SECTOR"} ELSE {})
     IN  warnings' = warnings \cup {Warning(code) : code \in codes}
  /\ UNCHANGED <<company, item, series, periods, cells, spans>>

\* the dates of a fiscal year's column: the first fact of the winning tag
PeriodOf(fy) ==
  LET f == FirstOf(AnnualFacts(series[fy].tag, fy))
  IN  [label |-> FY(fy), start |-> f.start, end |-> f.end, ltm |-> FALSE]

\* the latest HistoricalYears years become the axis
\* mutant: the window is cut off at the wrong end
WindowOfOldest ==
  {fy \in DOMAIN series : Cardinality({y \in DOMAIN series : y < fy}) < HistoricalYears}
Window ==
  {fy \in DOMAIN series : Cardinality({y \in DOMAIN series : y > fy}) < HistoricalYears}

BuildAxis ==
  LET years == CHOOSE s \in [1..Cardinality(Window) -> Window] :
                 \A m, n \in DOMAIN s : m < n => s[m] < s[n]
  IN  /\ stage = "axis" /\ stage' = "fill"
      /\ periods' = [n \in DOMAIN years |-> PeriodOf(years[n])]
      /\ cells' = [cells EXCEPT ![Anchor] =
                     [label \in {FY(fy) : fy \in Window} |-> series[label[2]]]]
      /\ UNCHANGED <<company, item, series, spans, warnings>>

-----------------------------------------------------------------------------
(* Filling the axis. *)

Column(label) == CHOOSE p \in {periods[n] : n \in DOMAIN periods} : p.label = label

Fill(key, p) ==
  CASE Kind[key] = "cover" -> ResolveCover(key, p.end)
    [] Kind[key] = "instant" -> ResolveSpan(key, NoStart, p.end)
    [] OTHER -> ResolveSpan(key, p.start, p.end)
FillDisagrees(key, p) ==
  /\ Kind[key] # "cover"
  /\ SpanDisagrees(key, IF Kind[key] = "instant" THEN NoStart ELSE p.start, p.end)

\* the next item, or the next stage after the last one
\* mutant: the second loop goes on where the first one stopped
NextItemGoesOn(from, to) ==
  /\ stage = from
  /\ item' = item + 1
  /\ stage' = IF item = Len(Items) THEN to ELSE from
NextItem(from, to) ==
  /\ stage = from
  /\ item' = IF item = Len(Items) THEN 1 ELSE item + 1
  /\ stage' = IF item = Len(Items) THEN to ELSE from

\* mutant: warnings_out is not passed on
FillItemQuietly ==
  LET key == Items[item]
  IN  /\ NextItem("fill", "derive")
      /\ cells' = [cells EXCEPT ![key] =
                     [label \in Labels(periods) |-> Fill(key, Column(label))]]
      /\ UNCHANGED <<company, series, periods, spans, warnings>>
FillItem ==
  LET key == Items[item]
  IN  /\ NextItem("fill", "derive")
      /\ cells' = [cells EXCEPT ![key] =
                     [label \in Labels(periods) |-> Fill(key, Column(label))]]
      /\ warnings' = warnings \cup
           {Disagreement(key, label) :
              label \in {l \in Labels(periods) : FillDisagrees(key, Column(l))}}
      /\ UNCHANGED <<company, series, periods, spans>>

\* _backfill_total_liabilities: a gap is filled by the balance sheet identity
\* mutant: a direct tag is overridden
BackfilledOver(c, labels) ==
  [c EXCEPT !["total_liabilities"] =
     [l \in DOMAIN @ |->
        LET assets == c["total_assets"][l]
            equity == c["total_equity"][l]
        IN  IF l \in labels /\ ~IsGap(assets) /\ ~IsGap(equity)
            THEN CellOf(assets.value - equity.value, "derived", Blank, assets.src \cup equity.src)
            ELSE @[l]]]
Backfilled(c, labels) ==
  IF ~({"total_liabilities", "total_assets", "total_equity"} \subseteq Keys) THEN c
  ELSE [c EXCEPT !["total_liabilities"] =
     [l \in DOMAIN @ |->
        LET assets == c["total_assets"][l]
            equity == c["total_equity"][l]
        IN  IF l \in labels /\ IsGap(@[l]) /\ ~IsGap(assets) /\ ~IsGap(equity)
            THEN CellOf(assets.value - equity.value, "derived", Blank, assets.src \cup equity.src)
            ELSE @[l]]]

\* _derive_change_in_nwc between two columns, a gap if any input is one
NwcInputs == {"accounts_receivable", "inventory", "accounts_payable"}
ChangeInNwc(c, label, prior) ==
  LET Nwc(l) == c["accounts_receivable"][l].value + c["inventory"][l].value
                  - c["accounts_payable"][l].value
  IN  IF \/ ~(NwcInputs \subseteq Keys)
         \/ \E key \in NwcInputs : IsGap(c[key][label]) \/ IsGap(c[key][prior])
      THEN Missing
      ELSE CellOf(Nwc(label) - Nwc(prior), "derived", Blank,
                  UNION {c[key][l].src : key \in NwcInputs, l \in {label, prior}})

\* the column the nth one is compared with
\* mutant: always the first one
PriorLabelFirst(n) == periods[1].label
PriorLabel(n) == periods[n - 1].label

Derive ==
  LET filled == Backfilled(cells, Labels(periods))
  IN  /\ stage = "derive"
      /\ stage' = IF periods = <<>> THEN "debt" ELSE "ltm"
      /\ cells' = [filled EXCEPT !["change_in_nwc"] =
           [label \in Labels(periods) |->
              LET n == CHOOSE m \in DOMAIN periods : periods[m].label = label
              IN  IF n = 1 THEN Missing ELSE ChangeInNwc(filled, label, PriorLabel(n))]]
      /\ UNCHANGED <<company, item, series, periods, spans, warnings>>

-----------------------------------------------------------------------------
(* The LTM column. *)

Span(f) == [start |-> f.start, end |-> f.end]

\* the year-to-date stubs of the year after the latest one
Stubs(latest) ==
  {f \in AnchorFacts : /\ f.start = latest.end + 1 /\ f.end > latest.end
                       /\ StubMin <= Days(f) /\ Days(f) <= StubMax}

\* the same stub a year earlier, within the tolerances; the closest end wins,
\* then the first tag, then the first fact
EndDelta(f, stub) == Distance(f.end, YearBefore(stub.end))
\* mutant: the length is not compared
PriorStubsOfAnyLength(tag, stub) ==
  {f \in company.facts[tag] : ~IsInstant(f) /\ EndDelta(f, stub) <= PriorEndTolerance}
PriorStubs(tag, stub) ==
  {f \in company.facts[tag] : /\ ~IsInstant(f)
                              /\ EndDelta(f, stub) <= PriorEndTolerance
                              /\ Distance(Days(f), Days(stub)) <= PriorLengthTolerance}
PriorStub(stub) ==
  LET best == Min({EndDelta(f, stub) : f \in UNION {PriorStubs(t, stub) : t \in TagSet(Anchor)}})
      Best(t) == {f \in PriorStubs(t, stub) : EndDelta(f, stub) = best}
  IN  FirstOf(Best(FirstTag(Anchor, {t \in TagSet(Anchor) : Best(t) # {}})))

LtmPeriod(stub) ==
  [label |-> <<"LTM", 0>>, start |-> YearBefore(stub.end), end |-> stub.end, ltm |-> TRUE]
\* fallback_ltm_period
\* mutant: the copy keeps its label
FallbackUnlabelled(latest) == latest
Fallback(latest) == [latest EXCEPT !.label = <<"FALLBACK", latest.label[2]>>]

\* determine_ltm_axis_period, confirmed by resolving the anchor at both spans
ProposeLtm ==
  LET latest == Last(periods)
      stubs == Stubs(latest)
      stub == CHOOSE f \in stubs : \A g \in stubs : g.end <= f.end
      prior == PriorStub(stub)
      resolves ==
        /\ stubs # {}
        /\ \E t \in TagSet(Anchor) : PriorStubs(t, stub) # {}
        /\ ~IsGap(ResolveSpan(Anchor, stub.start, stub.end))
        /\ ~IsGap(ResolveSpan(Anchor, prior.start, prior.end))
  IN  /\ stage = "ltm" /\ stage' = "fill_ltm"
      /\ spans' = IF resolves THEN <<Span(stub), Span(prior)>> ELSE <<>>
      /\ periods' = Append(periods, IF resolves THEN LtmPeriod(stub) ELSE Fallback(latest))
      /\ UNCHANGED <<company, item, series, cells, warnings>>

LatestFy == periods[Len(periods) - 1]
Ltm == Last(periods)
IsCaseA == spans # <<>>

\* compute_flow_ltm_value: latest year + this year to date - prior year to date
FlowLtm(fy, this, prior) ==
  IF IsGap(fy) \/ IsGap(this) \/ IsGap(prior) THEN Missing
  ELSE CellOf(fy.value + this.value - prior.value, "derived", Blank,
              fy.src \cup this.src \cup prior.src)

LtmCell(key) ==
  LET fy == cells[key][LatestFy.label]
      At(span) == ResolveSpan(key, span.start, span.end)
  IN  CASE Kind[key] = "cover" -> ResolveCover(key, Ltm.end)
        [] Kind[key] # "cover" /\ ~IsCaseA -> fy
        [] Kind[key] = "instant" /\ IsCaseA -> ResolveSpan(key, NoStart, Ltm.end)
        [] OTHER -> FlowLtm(fy, At(spans[1]), At(spans[2]))

WithLtm(row, cell) == [l \in DOMAIN row \cup {Ltm.label} |-> IF l = Ltm.label THEN cell ELSE row[l]]

\* only an instant's LTM cell is resolved with a place to put warnings
FillLtm ==
  LET key == Items[item]
  IN  /\ NextItem("fill_ltm", "finish_ltm")
      /\ cells' = [cells EXCEPT ![key] = WithLtm(@, LtmCell(key))]
      /\ warnings' = warnings \cup
           (IF IsCaseA /\ Kind[key] = "instant" /\ SpanDisagrees(key, NoStart, Ltm.end)
            THEN {Disagreement(key, Ltm.label)} ELSE {})
      /\ UNCHANGED <<company, series, periods, spans>>

\* mutant: the derived item is differenced in the fallback column as well
LtmNwcAlways(c) == ChangeInNwc(c, Ltm.label, LatestFy.label)
LtmNwc(c) ==
  IF IsCaseA THEN ChangeInNwc(c, Ltm.label, LatestFy.label)
  ELSE c["change_in_nwc"][LatestFy.label]

\* backfill, derived item and anchor of the LTM column
FinishLtm ==
  LET filled == Backfilled(cells, {Ltm.label})
      anchor == cells[Anchor][LatestFy.label]
      At(span) == ResolveSpan(Anchor, span.start, span.end)
  IN  /\ stage = "finish_ltm" /\ stage' = "debt"
      /\ cells' = [filled EXCEPT
           !["change_in_nwc"] = WithLtm(@, LtmNwc(filled)),
           ![Anchor] = WithLtm(@, IF IsCaseA THEN FlowLtm(anchor, At(spans[1]), At(spans[2]))
                                  ELSE anchor)]
      /\ UNCHANGED <<company, item, series, periods, spans, warnings>>

\* _check_debt_convention_unknown
CheckDebt ==
  /\ stage = "debt" /\ stage' = "assemble"
  /\ LET unsplit == "long_term_debt" \in Keys /\ \E n \in DOMAIN periods :
           /\ IsGap(cells["long_term_debt"][periods[n].label])
           /\ DOMAIN Matches({TotalDebtTag}, NoStart, periods[n].end) # {}
     IN  warnings' = IF unsplit THEN warnings \cup {Warning("DEBT_CONVENTION_UNKNOWN")}
                     ELSE warnings
  /\ UNCHANGED <<company, item, series, periods, cells, spans>>

\* what the records of the schema insist on when they are constructed
ValidPeriod(p) == p.start < p.end
ValidProvenance(cell) ==
  /\ cell.tag = Blank <=> cell.mechanism \in {"composed", "derived", "missing"}
  /\ cell.mechanism = "composed" => cell.src # {}
  /\ cell.mechanism = "missing" => cell.src = {}
Codes == {"STITCH_DISAGREEMENT", "NON_USD", "REGISTRANT_CHANGE_SUSPECTED",
          "THIN_HISTORY", "FINANCIAL_SECTOR", "DEBT_CONVENTION_UNKNOWN"}

\* ... and FinancialModel of all of them
WellFormed ==
  /\ \A n \in DOMAIN periods : ValidPeriod(periods[n])
  /\ \A key \in DOMAIN cells : \A l \in DOMAIN cells[key] : ValidProvenance(cells[key][l])
  /\ \A w \in warnings : w.code \in Codes
  /\ IsInjective([n \in DOMAIN periods |-> periods[n].label])
  /\ \A n \in DOMAIN periods : periods[n].ltm => n = Len(periods)
  /\ \A key \in DOMAIN cells : DOMAIN cells[key] \subseteq Labels(periods)

\* the model is returned, or SchemaError is raised
Assemble ==
  /\ stage = "assemble"
  /\ stage' = IF WellFormed THEN "done" ELSE "rejected"
  /\ UNCHANGED <<company, item, series, periods, cells, spans, warnings>>

Done == stage = "done"
Finished == stage \in {"done", "rejected"} /\ UNCHANGED vars

Next ==
  \/ ResolveAnchor \/ Classify \/ BuildAxis \/ FillItem \/ Derive
  \/ ProposeLtm \/ FillLtm \/ FinishLtm \/ CheckDebt \/ Assemble \/ Finished

Spec == Init /\ [][Next]_vars

-----------------------------------------------------------------------------
(* What the finished model promises. *)

\* The state is well typed: the item counter stays inside the mapping, the
\* axis has at most one column more than was asked for, a cell is a gap
\* exactly when it has no source.
TypeOK ==
  /\ item \in DOMAIN Items
  /\ stage \in {"anchor", "classify", "axis", "fill", "derive", "ltm", "fill_ltm",
                "finish_ltm", "debt", "assemble", "done", "rejected"}
  /\ Len(periods) <= HistoricalYears + 1
  /\ \A key \in DOMAIN cells : \A label \in DOMAIN cells[key] :
       IsGap(cells[key][label]) <=> cells[key][label].src = {}
  /\ Len(spans) \in {0, 2}

\* build_financial_model always returns: the schema's constructor never
\* refuses what the pipeline built (duplicate labels, an LTM column that is
\* not last, an item with a period of its own, a provenance that does not fit
\* its mechanism, an unknown warning code).
NeverRejected == stage # "rejected"

YearColumns == {n \in DOMAIN periods : periods[n].label[1] = "FY"}
\* the fiscal year a column's duration values start from
YearOf(p) == IF p.ltm THEN LatestFy.label[2] ELSE p.label[2]
\* one tag reports two annual periods that end in one calendar year
Ambiguous(fy) == \E t \in TagSet(Anchor) : Cardinality(AnnualFacts(t, fy)) > 1

\* whether a cell's source facts report the dates of its column
Fits(key, p, src) ==
  CASE Kind[key] = "cover" -> \A f \in src : IsInstant(f) /\ f.end - p.end \in 0..CoverTolerance
    [] Kind[key] = "instant" -> \A f \in src : IsInstant(f) /\ f.end = p.end
    [] Kind[key] = "duration" /\ p.ltm ->
         {Span(f) : f \in src} = {Span(LatestFy), spans[1], spans[2]}
    [] OTHER -> {Span(f) : f \in src} = {Span(p)}

\* PLANNING.md 5.1, the period axis rule: whatever is in a column was reported
\* for that column's own dates, an LTM flow for exactly the three spans the
\* LTM column is made of, and the anchor has no gap.  The anchor's own cell is
\* held to its dates where the year has one annual period per tag.
ColumnsCoherent ==
  Done => \A key \in Keys, n \in DOMAIN periods :
    LET cell == cells[key][periods[n].label]
    IN  /\ key = Anchor => ~IsGap(cell)
        /\ \/ IsGap(cell)
           \/ key = Anchor /\ Ambiguous(YearOf(periods[n]))
           \/ Fits(key, periods[n], cell.src)

\* ... without the exception: the anchor's value and the dates of its column
\* come from one fact, as the comments at statements.py:801 and 807 say.
AnchorMatchesItsColumn ==
  Done => \A n \in YearColumns :
            Fits(Anchor, periods[n], cells[Anchor][periods[n].label].src)

\* The fiscal years of which the anchor has an annual fact: one that ends within
\* the tolerance of the declared day around the circle of the year, on whichever
\* side of the turn of the calendar year.
NearDeclaredDay(end) ==
  \/ company.fye = NoFye
  \/ (end - company.fye) % YearDays <= FyeTolerance
  \/ (company.fye - end) % YearDays <= FyeTolerance
ReportedYears ==
  {FiscalYear(f.end) : f \in {g \in AnchorFacts : IsAnnual(g) /\ NearDeclaredDay(g.end)}}

\* PLANNING.md 5.1: the axis is the latest years the anchor has, none of them
\* skipped or lost at the turn of the calendar year, in order, and at most as
\* many as were asked for.
AxisIsTheLatestYears ==
  Done =>
    LET axis == {periods[n].label[2] : n \in YearColumns}
    IN  /\ axis \subseteq ReportedYears
        /\ Cardinality(axis) = Min({HistoricalYears, Cardinality(ReportedYears)})
        /\ \A y \in axis, z \in ReportedYears \ axis : z < y
        /\ \A m, n \in YearColumns : m < n => periods[m].end < periods[n].end

\* PLANNING.md 5.3.10-11: an axis that is short for want of data never goes
\* unexplained, an empty one is never put down to a young company, nor is the
\* short one of a company that changed its name.
ShortAxisIsExplained ==
  LET columns == Cardinality(YearColumns)
      about == {w.code : w \in warnings}
                 \cap {"NON_USD", "REGISTRANT_CHANGE_SUSPECTED", "THIN_HISTORY"}
  IN  Done =>
        /\ columns < Min({3, HistoricalYears}) => Cardinality(about) = 1
        /\ columns = 0 \/ company.renamed => "THIN_HISTORY" \notin about
        /\ columns > 0 => "NON_USD" \notin about
        /\ columns > 2 => about = {}

\* The facts that compete for an item's cell of a column: those dated like the
\* column, and for the anchor, which makes the axis, each tag's last one of the
\* year, whose dates may differ from tag to tag.
Rivals(key, p) ==
  IF key = Anchor THEN {LastOf(AnnualFacts(t, p.label[2])) : t \in AnnualTags(p.label[2])}
  ELSE {f \in UNION {company.facts[t] : t \in TagSet(key)} :
          f.start = (IF Kind[key] = "instant" THEN NoStart ELSE p.start) /\ f.end = p.end}

\* PLANNING.md 5.2.2, "where tags overlap, values must be compared and any
\* disagreement flagged, not silently resolved", and the sizing of the tolerance
\* at statements.py:106-113: a cell, the anchor's included, comes with a warning
\* where it was chosen among tags of which one is beyond the tolerance from it,
\* and only there.  The fallback column repeats cells and no warnings; a cover
\* page is not stitched.  Nothing is said here of the flows of an LTM column
\* (LtmDisagreementsFlagged).
DisagreementsFlagged ==
  Done => \A key \in Keys, n \in DOMAIN periods :
    LET p == periods[n]
        cell == cells[key][p.label]
    IN  \/ p.ltm /\ Kind[key] = "duration"
        \/ Disagreement(key, p.label) \in warnings <=>
             /\ n \in YearColumns \/ p.ltm
             /\ Kind[key] # "cover" /\ cell.mechanism = "stitched"
             /\ \E f \in cell.src, g \in Rivals(key, p) :
                  \A side \in {f.value, g.value, -f.value, -g.value} :
                    Distance(f.value, g.value) * StitchTolerance > side

\* _backfill_total_liabilities: the balance sheet closes.  Where assets and
\* equity are known so are the liabilities; a derived figure is their
\* difference and stands only where the filer tags no liabilities.
BalanceSheetCloses ==
  Done /\ {"total_assets", "total_equity", "total_liabilities"} \subseteq Keys =>
    \A n \in DOMAIN periods :
    LET At(key) == cells[key][periods[n].label]
        liabilities == At("total_liabilities")
    IN  /\ ~IsGap(At("total_assets")) /\ ~IsGap(At("total_equity")) => ~IsGap(liabilities)
        /\ liabilities.mechanism = "derived" =>
             /\ liabilities.value = At("total_assets").value - At("total_equity").value
             /\ DOMAIN Matches(TagSet("total_liabilities"), NoStart, periods[n].end) = {}

\* _derive_change_in_nwc: the changes add up.  When every balance sheet of the
\* axis is complete, the changes of the columns after the first one sum to the
\* difference between the last and the first net working capital.
NwcTelescopes ==
  LET columns == IF IsCaseA THEN DOMAIN periods ELSE YearColumns
      Nwc(n) == LET At(key) == cells[key][periods[n].label].value
                IN  At("accounts_receivable") + At("inventory") - At("accounts_payable")
      known == \A key \in NwcInputs, n \in columns : ~IsGap(cells[key][periods[n].label])
      Change(n) == cells["change_in_nwc"][periods[n].label].value
  IN  Done /\ columns # {} /\ NwcInputs \subseteq Keys /\ known =>
        MapThenSumSet(Change, columns \ {1}) = Nwc(Max(columns)) - Nwc(1)

\* ltm.py: a genuine LTM column is twelve months.  The running year's stub
\* follows the latest year without a gap, and taking the earlier stub away
\* removes the front of that year, up to the drift the tolerances allow.
LtmIsTwelveMonths ==
  LET this == spans[1]
      prior == spans[2]
      drift == PriorEndTolerance + PriorLengthTolerance
  IN  Done /\ IsCaseA =>
        /\ Ltm.ltm /\ Ltm.end = this.end /\ this.start = LatestFy.end + 1
        /\ prior.end < LatestFy.end
        /\ Distance(prior.start, LatestFy.start)
             <= drift + Distance(Days(LatestFy), YearDays - 1)
        /\ Distance(Days(LatestFy) + Days(this) - Days(prior), Days(LatestFy))
             <= PriorLengthTolerance

\* fallback_ltm_period: without a usable stub the last column is the latest
\* fiscal year under another label, in every item, and is not called LTM.
FallbackMirrorsLatestFy ==
  Done /\ periods # <<>> /\ ~IsCaseA =>
    /\ Ltm = [LatestFy EXCEPT !.label = Ltm.label] /\ ~Ltm.ltm
    /\ \A key \in DOMAIN cells : cells[key][Ltm.label] = cells[key][LatestFy.label]

\* PLANNING.md 5.2.2 of the LTM column: "any disagreement flagged, not
\* silently resolved" for the year-to-date spans of a flow item too.
LtmDisagreementsFlagged ==
  Done /\ IsCaseA => \A key \in Keys :
    Kind[key] = "duration" /\ ~IsGap(cells[key][Ltm.label])
      /\ (\E n \in 1..2 : SpanDisagrees(key, spans[n].start, spans[n].end))
    => Disagreement(key, Ltm.label) \in warnings
=============================================================================
