------------------------------ MODULE Calendar ------------------------------
(***************************************************************************)
(* The date rules of src/fsa/normalize/facts.py and ltm.py on a calendar   *)
(* whose years all have YearDays days: a day is a number, its year is the  *)
(* quotient.  The tolerances are constants, scaled with the year.          *)
(***************************************************************************)
EXTENDS Integers

CONSTANTS
  YearDays,                \* days in a year
  AnnualMin, AnnualMax,    \* _ANNUAL_MIN_DAYS, _ANNUAL_MAX_DAYS
  FyeTolerance,            \* _FYE_MATCH_TOLERANCE_DAYS
  StubMin, StubMax,        \* _MIN_STUB_DAYS, _MAX_STUB_DAYS
  PriorEndTolerance,       \* _PRIOR_YEAR_END_TOLERANCE_DAYS
  PriorLengthTolerance,    \* _PRIOR_YEAR_LENGTH_TOLERANCE_DAYS
  CoverTolerance           \* _COVER_PAGE_TOLERANCE_DAYS

\* The stub of a running year is shorter than a year, and the one before it
\* ends within the year before, as with the numbers of the code.
ASSUME CalendarAssumption ==
  /\ YearDays \in Nat \ {0}
  /\ {AnnualMin, AnnualMax, FyeTolerance, StubMin, StubMax,
      PriorEndTolerance, PriorLengthTolerance, CoverTolerance} \subseteq Nat
  /\ AnnualMin <= YearDays - 1 /\ YearDays - 1 <= AnnualMax
  /\ 0 < StubMin /\ StubMin <= StubMax /\ StubMax < AnnualMin
  /\ 2 * FyeTolerance < YearDays /\ StubMax + PriorEndTolerance + 1 < YearDays

NoStart == 0   \* the start of an instant

Distance(a, b) == IF a < b THEN b - a ELSE a - b

\* RawFact.days; only for durations
Days(f) == f.end - f.start
IsInstant(f) == f.start = NoStart

\* classify_duration_days(...) == "annual"
IsAnnual(f) == ~IsInstant(f) /\ AnnualMin <= Days(f) /\ Days(f) <= AnnualMax

\* fiscal_year_for_end: the calendar year the period ends in
FiscalYear(end) == end \div YearDays

\* fiscal_year_end_matches: near the declared day of this year, of the one
\* before or of the one after; with no declared day everything matches
NoFye == -1
\* mutant: the declared day of the calendar year of the end only
FyeMatchesInYear(end, fye) ==
  fye = NoFye \/ Distance(end, FiscalYear(end) * YearDays + fye) <= FyeTolerance
FyeMatches(end, fye) ==
  \/ fye = NoFye
  \/ \E year \in (FiscalYear(end) - 1)..(FiscalYear(end) + 1) :
       Distance(end, year * YearDays + fye) <= FyeTolerance

\* shift_years(d, -1)
YearBefore(d) == d - YearDays

\* the order of dedupe_facts' result: (end, start or date.min)
Precedes(f, g) == f.end < g.end \/ (f.end = g.end /\ f.start < g.start)
FirstOf(S) == CHOOSE f \in S : \A g \in S \ {f} : Precedes(f, g)
LastOf(S) == CHOOSE f \in S : \A g \in S \ {f} : Precedes(g, f)
=============================================================================
