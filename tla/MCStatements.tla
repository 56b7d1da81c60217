---------------------------- MODULE MCStatements ----------------------------
(***************************************************************************)
(* Statements for TLC, on a calendar of twelve days a year.  A miniature   *)
(* mapping with one item of every kind of resolution, and the companies in *)
(* families, each of which varies one part of a filer's history.           *)
(***************************************************************************)
EXTENDS Statements

MCItems == <<"da", "accounts_receivable", "inventory", "accounts_payable", "total_assets",
             "total_equity", "total_liabilities", "long_term_debt", "shares">>
MCKind == [key \in {"revenue", "da"} |-> "duration"] @@ ("shares" :> "cover")
            @@ [key \in {MCItems[n] : n \in 2..8} |-> "instant"]
MCTags ==
  "revenue" :> <<"Rev", "OldRev">> @@ "da" :> <<"DA", "OldDA">>
    @@ "accounts_receivable" :> <<"AR", "OldAR">> @@ "inventory" :> <<"Inv">>
    @@ "accounts_payable" :> <<"AP">> @@ "total_assets" :> <<"TA">>
    @@ "total_equity" :> <<"TE">> @@ "total_liabilities" :> <<"TL">>
    @@ "long_term_debt" :> <<"LTD">> @@ "shares" :> <<"Shares", "OldShares">>
MCCompose == [key \in DOMAIN MCTags |-> IF key = "da" THEN {"Dep", "Amort"} ELSE {}]
AllTags == {"Rev", "OldRev", "DA", "OldDA", "Dep", "Amort", "AR", "OldAR", "Inv", "AP",
            "TA", "TE", "TL", "LTD", "AllDebt", "Shares", "OldShares"}

-----------------------------------------------------------------------------
(* Fiscal years end on day 5 of their calendar year; those of 52 or 53     *)
(* weeks, on the days around the turn of the year.                         *)

Fye == 5
End(year) == year * YearDays + Fye
Fact(start, end, value) == [start |-> start, end |-> end, value |-> value]
Instant(end, value) == Fact(NoStart, end, value)
Annual(year, value) == Fact(End(year - 1) + 1, End(year), value)

\* a filer that reports the given facts
Filer(facts) ==
  [facts |-> [t \in AllTags |-> IF t \in DOMAIN facts THEN facts[t] ELSE {}],
   fye |-> Fye, renamed |-> FALSE, nonUsd |-> FALSE, financial |-> FALSE]

\* receivables 300, 330, 360, ..., of year 2 and later, and the rest of the
\* working capital, which the balance sheet at the end of day `end` shows
WorkingCapital(ends) ==
  "AR" :> {Instant(e, 300 + 30 * (e % 5)) : e \in ends} @@
  "Inv" :> {Instant(e, 200 - e) : e \in ends} @@
  "AP" :> {Instant(e, 100 + e * e) : e \in ends}

Years == 2..5
\* a history of the anchor: two tags, with gaps, whose common years differ by
\* just the tolerance or by more
Histories ==
  {[Filer("Rev" :> {Annual(y, 1000) : y \in new}
          @@ "OldRev" :> {Annual(y, IF y \in {3, 5} THEN 1000 + d ELSE 1000) : y \in old}
          @@ WorkingCapital({End(y) : y \in Years}))
      EXCEPT !.renamed = renamed, !.nonUsd = nonUsd, !.financial = renamed] :
     new \in SUBSET Years, old \in SUBSET Years, d \in {5, 6},
     renamed \in BOOLEAN, nonUsd \in BOOLEAN}

\* a filer without a declared year end, with annual facts of two calendars
Undeclared ==
  {[Filer("Rev" :> {Annual(y, 1000 + y) : y \in Years}
                     \cup {Fact(End(y) - 5, End(y) + 6, 900 + y) : y \in stray}
          @@ "Inv" :> {Instant(End(y), 7) : y \in Years})
      EXCEPT !.fye = fye] :
     stray \in SUBSET Years, fye \in {NoFye, Fye}}

-----------------------------------------------------------------------------
(* Filers in the middle of year 5: annual facts of years 3 and 4, and      *)
(* stubs of this year and of the one before.                               *)

ThisStub(days, value) == Fact(End(4) + 1, End(4) + 1 + days, value)
PriorStubOf(start, end, value) == Fact(End(3) + 1 + start, End(3) + 1 + end, value)

\* whether there is a stub, how long, and how far the earlier one drifted
Stubbed ==
  {Filer("Rev" :> {Annual(3, 900), Annual(4, 1000)} \cup {ThisStub(d, 40 * d) : d \in this}
                    \cup {PriorStubOf(s, e, 200) : s \in {x \in {start} : drifted}, e \in {end}}
         @@ "OldRev" :> {PriorStubOf(0, e, 190) : e \in old} \cup {ThisStub(5, 170)}
         @@ "DA" :> {Annual(4, 50), ThisStub(5, 25), PriorStubOf(0, 5, 20)}
         @@ WorkingCapital({End(3), End(4), ThisStub(5, 0).end})) :
     this \in SUBSET {1, 2, 5}, drifted \in BOOLEAN, start \in {-1, 0, 2},
     end \in {2, 4, 5, 6}, old \in SUBSET {2, 5, 6}}

\* how the spans of one flow item are reported
Reports(span(_)) ==
  {<<>>, "DA" :> {span(50)}, "OldDA" :> {span(51)}, "DA" :> {span(50)} @@ "OldDA" :> {span(40)},
   "Dep" :> {span(30)}, "Dep" :> {span(30)} @@ "Amort" :> {span(20)}}
Both(a, b) == [t \in DOMAIN a \cup DOMAIN b |->
                 UNION {f[t] : f \in {g \in {a, b} : t \in DOMAIN g}}]
Flows ==
  {Filer(Both(fy, Both(this, Both(prior,
           "Rev" :> {Annual(3, 900), Annual(4, 1000), ThisStub(5, 500), PriorStubOf(0, 5, 450)}
           @@ WorkingCapital({End(3), End(4), ThisStub(5, 0).end}))))) :
     fy \in Reports(LAMBDA v : Annual(4, v)), this \in Reports(LAMBDA v : ThisStub(5, v)),
     prior \in Reports(LAMBDA v : PriorStubOf(0, 5, v))}

\* which lines of the balance sheets are tagged, with and without an LTM column
Sheets ==
  {Filer("Rev" :> {Annual(3, 900), Annual(4, 1000)}
                    \cup (IF ltm THEN {ThisStub(5, 500), PriorStubOf(0, 5, 450)} ELSE {})
         @@ "TA" :> {Instant(e, 2000 + e) : e \in assets}
         @@ "TE" :> {Instant(e, 800) : e \in equity}
         @@ "TL" :> {Instant(e, 1150) : e \in liabilities}
         @@ "AR" :> {Instant(e, 300) : e \in assets}
         @@ "OldAR" :> {Instant(e, 300 + (e % 4)) : e \in equity}
         @@ "Inv" :> {Instant(e, 7) : e \in liabilities}
         @@ "AP" :> {Instant(e, 5) : e \in equity}
         @@ "LTD" :> {Instant(e, 100) : e \in liabilities}
         @@ "AllDebt" :> {Instant(e, 400) : e \in assets}
         @@ "Shares" :> {Instant(e + 3, 10) : e \in assets}
         @@ "OldShares" :> {Instant(e + 1, 11) : e \in liabilities}) :
     assets \in SUBSET {End(3), End(4), ThisStub(5, 0).end},
     equity \in SUBSET {End(3), End(4), ThisStub(5, 0).end},
     liabilities \in SUBSET {End(3), End(4), ThisStub(5, 0).end}, ltm \in BOOLEAN}

\* years that end on the days around the turn of the calendar year, the declared
\* day being the last of the year or the first
Turning ==
  LET Year(end) == Fact(end - 11, end, 1000 + end)
      Around(year) == (year * YearDays - 2)..(year * YearDays + 1)
  IN  {[Filer("Rev" :> {Year(x), Year(y), Year(z)}) EXCEPT !.fye = fye] :
         x \in Around(2), y \in Around(3), z \in Around(4), fye \in {0, YearDays - 1}}

Ordinary == Histories \cup Undeclared \cup Turning \cup Stubbed \cup Flows \cup Sheets

\* fiscal years of 52 or 53 weeks that end around the turn of the year, one
\* late in a calendar year and the one before early in it
Drifting ==
  {[Filer("Rev" :> {Fact(2 * YearDays - 12, 2 * YearDays - 1, 800), Fact(2 * YearDays, a, 900),
                    Fact(a + 1, 4 * YearDays - 1, 1000)}) EXCEPT !.fye = YearDays - 1] :
     a \in {3 * YearDays - 1, 3 * YearDays}}
=============================================================================
