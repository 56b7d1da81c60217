----------------------------- MODULE Cli_proofs -----------------------------
(***************************************************************************)
(* Whose documents the runs of Cli use, how old they are, and what their   *)
(* exit codes tell, for any companies, ticker maps, files, time to live    *)
(* and number of runs.  What a cache entry holds is tied to its key and to *)
(* the time it was validated, what a run holds to the company it was       *)
(* started for and to the time it began; time and the publication of a     *)
(* version keep both ties.  What a run has loaded is what its files let    *)
(* through, which is worked out from the checks of Config and Mapping.     *)
(* Last, every document is read as module Document says.                   *)
(***************************************************************************)
EXTENDS Cli, SetLemmas

Fields == {"stage", "named", "use", "force", "began", "rate", "cik", "asked", "got", "mapping",
           "exit", "cause"}
Padded == [number : Ciks, padded : {TRUE}]

\* the clock and the versions that are out
TimesInv ==
  /\ clock \in Nat
  /\ published \in [Urls -> Seq(Nat)]
  /\ \A u \in Urls : Len(published[u]) \in 1..MaxVersions

\* version v of the document at u is out, and was current at time t or later
Alive(u, v, t) == v \in 1..Len(published[u]) /\ CurrentAtOrAfter(u, v, t)

\* an entry is the document of its key, and was current when it was validated
StoredInv ==
  /\ DOMAIN stored = Urls
  /\ \A u \in Urls : stored[u] \notin {None, Damaged} =>
       /\ stored[u].url = u
       /\ stored[u].validated \in Nat /\ stored[u].validated <= clock
       /\ Alive(u, stored[u].version, stored[u].validated)

RunTyped ==
  /\ DOMAIN run = Fields /\ DOMAIN run.got = Fetches
  /\ run.began \in Nat /\ run.began <= clock /\ run.asked \in Nat

\* the companies a listing has for a ticker: the one it has under the very
\* spelling, and if it has none, those under the ticker's other spellings
Listed(listing, spelling) ==
  IF listing[spelling] # None THEN {listing[spelling]}
  ELSE {listing[s] : s \in {r \in Spellings : /\ r = "plain" <=> spelling = "plain"
                                             /\ listing[r] # None}}

\* the companies that run.named may stand for
Meant ==
  IF run.named.by = "cik" THEN {run.named.cik.number}
  ELSE Listed(Listings[run.got["company_tickers"].version], run.named.spelling)

\* what the run is after, and what it holds
RunAims ==
  /\ run.stage \in {"configure", "prepare", "company_tickers"} =>
       run.named \in Named /\ \A f \in Fetches : run.got[f] = None
  /\ At("company_tickers") => run.named.by = "ticker"
  /\ run.stage \in {"submissions", "companyfacts", "build"} =>
       run.cik \in Padded /\ run.cik.number \in Meant
  /\ \A f \in Fetches : run.got[f] # None =>
       IF f = "company_tickers" THEN run.got[f].url = TickersUrl
       ELSE run.got[f].url = Url(f, run.cik) /\ run.cik \in Padded /\ run.cik.number \in Meant

\* the time at or after which everything the run rests on was current
Since == IF Insists THEN run.began ELSE run.began - Ttl

RunRecent ==
  /\ run.asked > 0 => AtFetch /\ run.began <= run.asked /\ run.asked <= clock
  /\ \A f \in Fetches : run.got[f] # None =>
       run.got[f].url \in Urls /\ Alive(run.got[f].url, run.got[f].version, Since)

RunInv == RunTyped /\ RunAims /\ RunRecent
IInv == TimesInv /\ StoredInv /\ RunInv

-----------------------------------------------------------------------------
(* Ties to a moment. *)

LEMMA AliveEarlier ==
  ASSUME TimesInv, NEW u \in Urls, NEW v, NEW t \in Int, NEW s \in Int, s <= t, Alive(u, v, t)
  PROVE  Alive(u, v, s)
<1>1. v = Len(published[u]) \/ (v + 1 \in 1..Len(published[u]) /\ published[u][v + 1] \in Nat)
  BY DEF TimesInv, Alive
<1> QED BY <1>1 DEF Alive, CurrentAtOrAfter

\* a version that comes out replaces one that was current until now
LEMMA AliveAfterPublish ==
  ASSUME TimesInv, NEW w \in Urls, published' = [published EXCEPT ![w] = Append(@, clock)],
         NEW u \in Urls, NEW v, NEW t \in Int, t <= clock, Alive(u, v, t)
  PROVE  Alive(u, v, t)'
<1>1. CASE u # w
  BY <1>1 DEF TimesInv, Alive, CurrentAtOrAfter
<1>2. CASE u = w
  <2>1. published'[u] = Append(published[u], clock) /\ published[u] \in Seq(Nat)
    BY <1>2 DEF TimesInv
  <2>2. /\ Len(published'[u]) = Len(published[u]) + 1
        /\ published'[u][Len(published[u]) + 1] = clock
        /\ \A n \in 1..Len(published[u]) : published'[u][n] = published[u][n]
    BY <2>1 DEF TimesInv
  <2>3. CASE v = Len(published[u])
    BY <2>2, <2>3 DEF Alive, CurrentAtOrAfter, TimesInv
  <2>4. CASE v # Len(published[u])
    <3>1. v \in 1..Len(published[u]) /\ v + 1 \in 1..Len(published[u])
      BY <2>4 DEF Alive, TimesInv
    <3> QED BY <2>2, <2>4, <3>1 DEF Alive, CurrentAtOrAfter, TimesInv
  <2> QED BY <2>3, <2>4
<1> QED BY <1>1, <1>2

LEMMA SinceIsInt == ASSUME RunTyped PROVE Since \in Int /\ Since <= run.began
BY CliAssumption DEF RunTyped, Since

-----------------------------------------------------------------------------
(* Steps of a run. *)

LEMMA Padding ==
  ASSUME NEW cik, cik \in [number : Ciks, padded : BOOLEAN]
  PROVE  PadCik(cik) = Written(cik.number, TRUE) /\ PadCik(cik) \in Padded
BY DEF PadCik, Written, Padded

\* a ticker resolves to what the listing has for it
LEMMA ResolvedIsListed ==
  ASSUME NEW v \in 1..MaxVersions, NEW spelling \in Spellings,
         ResolveCik(Listings[v], spelling) # None
  PROVE  /\ ResolveCik(Listings[v], spelling) \in Ciks
         /\ ResolveCik(Listings[v], spelling) \in Listed(Listings[v], spelling)
<1>1. /\ Variant(spelling) \in Spellings
      /\ Variant(spelling) = "plain" <=> spelling = "plain"
  BY DEF Variant, Spellings
<1>2. \A s \in Spellings : Listings[v][s] \in Ciks \cup {None}
  BY CliAssumption DEF Spellings
<1>3. ResolveCik(Listings[v], spelling) \in Ciks
  BY <1>1, <1>2 DEF ResolveCik
<1>4. CASE Listings[v][spelling] # None
  BY <1>3, <1>4 DEF ResolveCik, Listed
<1>5. CASE Listings[v][spelling] = None
  <2>1. ResolveCik(Listings[v], spelling) = Listings[v][Variant(spelling)]
    BY <1>5 DEF ResolveCik
  <2> QED BY <1>1, <1>3, <1>5, <2>1 DEF Listed
<1> QED BY <1>3, <1>4, <1>5

LEMMA WantedIsUrl == ASSUME RunInv, AtFetch PROVE Wanted \in Urls
<1>1. CASE At("company_tickers")
  BY <1>1 DEF Wanted, Urls
<1>2. CASE ~At("company_tickers")
  <2>1. run.stage \in {"submissions", "companyfacts"}
    BY <1>2 DEF AtFetch, Fetches, At
  <2>2. run.cik \in Padded
    BY <2>1 DEF RunInv, RunAims
  <2>3. Wanted = Url(run.stage, run.cik) /\ run.cik = Written(run.cik.number, TRUE)
        /\ run.cik.number \in Ciks
    BY <1>2, <2>2 DEF Wanted, Padded, Written
  <2>4. Wanted = <<run.stage, Written(run.cik.number, TRUE)>>
    BY <2>3 DEF Url, PadCik
  <2>5. Written(run.cik.number, TRUE) \in {Written(c, TRUE) : c \in Ciks}
    BY <2>3
  <2> QED BY <2>1, <2>4, <2>5, Zenon DEF Urls
<1> QED BY <1>1, <1>2

\* an exception ends the run and changes nothing it holds
LEMMA RaiseStep ==
  ASSUME IInv, NEW error, NEW cause, NEW clauses, Raise(error, cause, clauses),
         UNCHANGED <<clock, published>>
  PROVE  RunInv'
<1> DEFINE code == Code(clauses, error)
<1>1. run' = [run EXCEPT !.stage = "exited", !.exit = code, !.cause = cause, !.asked = 0]
  BY DEF Raise
<1> HIDE DEF code
<1>2. /\ DOMAIN run' = Fields /\ run'.stage = "exited" /\ run'.asked = 0
      /\ run'.named = run.named /\ run'.use = run.use /\ run'.force = run.force
      /\ run'.began = run.began /\ run'.cik = run.cik /\ run'.got = run.got
  BY <1>1 DEF IInv, RunInv, RunTyped, Fields
<1>3. Meant' = Meant /\ Since' = Since
  BY <1>2 DEF Meant, Since, Insists
<1>4. RunTyped'
  BY <1>2 DEF IInv, RunInv, RunTyped
<1>5. RunAims'
  BY <1>2, <1>3 DEF IInv, RunInv, RunAims, At
<1>6. RunRecent'
  BY <1>2, <1>3 DEF IInv, RunInv, RunRecent, Alive, CurrentAtOrAfter
<1> QED BY <1>4, <1>5, <1>6 DEF RunInv

\* a document that arrives is the one wanted
LEMMA ReceiveStep ==
  ASSUME IInv, AtFetch, NEW version, NEW now, Alive(Wanted, version, Since),
         Receive(version, Wanted, now), UNCHANGED <<clock, published>>
  PROVE  RunInv'
<1> DEFINE doc == [version |-> version, url |-> Wanted, now |-> now]
           got == [run.got EXCEPT ![run.stage] = doc]
           read == [run EXCEPT !.asked = 0, !.got = got]
           number == ResolveCik(Listings[version], run.named.spelling)
<1>1. run.stage \in Fetches /\ Wanted \in Urls /\ doc.url = Wanted /\ doc.version = version
  BY WantedIsUrl DEF IInv, AtFetch
<1>2. /\ DOMAIN run' = Fields /\ run'.got = got /\ run'.asked = 0
      /\ run'.named = run.named /\ run'.use = run.use /\ run'.force = run.force
      /\ run'.began = run.began
      /\ \/ run'.stage = "exited" /\ run'.cik = run.cik
         \/ /\ At("company_tickers") /\ number # None
            /\ run'.stage = "submissions" /\ run'.cik = PadCik(Written(number, FALSE))
         \/ At("submissions") /\ run'.stage = "companyfacts" /\ run'.cik = run.cik
         \/ At("companyfacts") /\ run'.stage = "build" /\ run'.cik = run.cik
  <2>1. \/ \E code, cause : run' = [read EXCEPT !.stage = "exited", !.exit = code,
                                                !.cause = cause]
        \/ /\ At("company_tickers") /\ number # None
           /\ run' = [read EXCEPT !.stage = "submissions",
                                  !.cik = PadCik(Written(number, FALSE))]
        \/ At("submissions") /\ run' = [read EXCEPT !.stage = "companyfacts"]
        \/ At("companyfacts") /\ run' = [read EXCEPT !.stage = "build"]
    BY DEF Receive
  <2> HIDE DEF got, number
  <2>2. /\ DOMAIN read = Fields /\ read.got = got /\ read.asked = 0
        /\ read.named = run.named /\ read.use = run.use /\ read.force = run.force
        /\ read.began = run.began /\ read.cik = run.cik
    BY DEF IInv, RunInv, RunTyped, Fields
  <2> HIDE DEF read
  <2> QED BY <2>1, <2>2 DEF Fields
<1>3. /\ DOMAIN got = Fetches /\ got[run.stage] = doc
      /\ \A f \in Fetches : f # run.stage => got[f] = run.got[f]
  BY <1>1 DEF IInv, RunInv, RunTyped
<1>4. Since' = Since
  BY <1>2 DEF Since, Insists
<1> HIDE DEF got, number
<1>5. RunTyped'
  BY <1>2, <1>3 DEF IInv, RunInv, RunTyped
<1>6. RunRecent'
  <2>1. \A f \in Fetches : run'.got[f] # None =>
          run'.got[f].url \in Urls /\ Alive(run'.got[f].url, run'.got[f].version, Since)
    BY <1>1, <1>2, <1>3 DEF IInv, RunInv, RunRecent
  <2> QED BY <1>2, <1>4, <2>1 DEF RunRecent, Alive, CurrentAtOrAfter
<1>7. RunAims'
  <2>1. CASE At("company_tickers")
    <3>1. run.named \in Named /\ run.named.by = "ticker" /\ \A f \in Fetches : run.got[f] = None
      BY <2>1 DEF IInv, RunInv, RunAims, At
    <3>2. version \in 1..MaxVersions
      BY <1>1, CliAssumption DEF Alive, IInv, TimesInv
    <3>3. run.named.spelling \in Spellings
      BY <3>1, NamedAssumption DEF Spellings
    <3>4. number # None => number \in Ciks /\ number \in Listed(Listings[version], run.named.spelling)
      BY <3>2, <3>3, ResolvedIsListed DEF number
    <3>5. /\ got["company_tickers"] = doc
          /\ \A f \in Fetches : f # "company_tickers" => got[f] = None
      BY <1>3, <2>1, <3>1 DEF At
    <3>6. Wanted = TickersUrl
      BY <2>1 DEF Wanted
    <3>7. Meant' = Listed(Listings[version], run.named.spelling)
      BY <1>1, <1>2, <3>1, <3>5 DEF Meant
    <3>8. \A f \in Fetches : run'.got[f] # None =>
             f = "company_tickers" /\ run'.got[f].url = TickersUrl
      BY <1>1, <1>2, <3>5, <3>6
    <3>9. CASE run'.stage = "exited"
      BY <3>8, <3>9 DEF RunAims, At
    <3>10. CASE number # None /\ run'.stage = "submissions" /\ run'.cik = Written(number, TRUE)
      <4>1. run'.cik \in Padded /\ run'.cik.number = number
        BY <3>4, <3>10 DEF Written, Padded
      <4> QED BY <3>4, <3>7, <3>8, <3>10, <4>1 DEF RunAims, At
    <3>11. PadCik(Written(number, FALSE)) = Written(number, TRUE)
      BY DEF PadCik, Written
    <3> QED BY <1>2, <2>1, <3>9, <3>10, <3>11 DEF At
  <2>2. CASE ~At("company_tickers")
    <3>1. Wanted = Url(run.stage, run.cik) /\ run.stage \in {"submissions", "companyfacts"}
      BY <1>1, <2>2 DEF Wanted, At, Fetches
    <3>2. run.cik \in Padded /\ run.cik.number \in Meant /\ run'.cik = run.cik
      BY <1>2, <2>2, <3>1 DEF IInv, RunInv, RunAims
    <3>3. Meant' = Meant
      <4>1. run'.got["company_tickers"] = run.got["company_tickers"] /\ run'.named = run.named
        BY <1>2, <1>3, <3>1 DEF Fetches
      <4> QED BY <4>1 DEF Meant
    <3>4. run'.stage \in {"exited", "companyfacts", "build"}
      BY <1>2, <2>2
    <3>5. \A f \in Fetches : run'.got[f] # None =>
            IF f = "company_tickers" THEN run'.got[f].url = TickersUrl
            ELSE run'.got[f].url = Url(f, run'.cik)
      BY <1>1, <1>2, <1>3, <3>1, <3>2 DEF IInv, RunInv, RunAims
    <3> QED BY <3>2, <3>3, <3>4, <3>5 DEF RunAims, At
  <2> QED BY <2>1, <2>2
<1> QED BY <1>5, <1>6, <1>7 DEF RunInv

\* an entry that is served, and an answer of SEC's
LEMMA ServedIsRecent ==
  ASSUME IInv, AtFetch, NEW entry, entry = stored[CacheKey(Wanted)], IsServed(entry), run.use
  PROVE  entry.url = Wanted /\ Alive(Wanted, entry.version, Since)
<1>1. Wanted \in Urls /\ entry = stored[Wanted] /\ entry \notin {None, Damaged}
  BY WantedIsUrl DEF IInv, CacheKey, IsServed
<1>2. /\ entry.url = Wanted /\ entry.validated \in Nat
      /\ Alive(Wanted, entry.version, entry.validated)
  BY <1>1 DEF IInv, StoredInv
<1>3. Since \in Int /\ Since <= entry.validated
  BY <1>2, CliAssumption DEF IsServed, Since, Insists, IInv, TimesInv, RunInv, RunTyped
<1> QED BY <1>1, <1>2, <1>3, AliveEarlier DEF IInv

LEMMA AnswerIsRecent ==
  ASSUME IInv, run.asked > 0, NEW v \in 1..Len(published[Wanted]),
         CurrentAtOrAfter(Wanted, v, run.asked)
  PROVE  Alive(Wanted, v, run.asked) /\ Alive(Wanted, v, Since)
<1>1. Wanted \in Urls
  BY WantedIsUrl DEF IInv, RunInv, RunRecent
<1>2. Alive(Wanted, v, run.asked)
  BY DEF Alive
<1>3. Since \in Int /\ Since <= run.asked /\ run.asked \in Int
  BY SinceIsInt DEF IInv, RunInv, RunTyped, RunRecent
<1> QED BY <1>1, <1>2, <1>3, AliveEarlier DEF IInv

\* a step that leaves the surroundings and the cache alone keeps their parts
LEMMA RunOnlyStep == ASSUME IInv, RunOnly, RunInv' PROVE IInv'
BY DEF IInv, RunOnly, TimesInv, StoredInv, Alive, CurrentAtOrAfter

-----------------------------------------------------------------------------

LEMMA OffIs ==
  /\ DOMAIN Off = Fields /\ Off.stage = "off" /\ Off.began = 0 /\ Off.asked = 0
  /\ DOMAIN Off.got = Fetches /\ \A f \in Fetches : Off.got[f] = None
BY DEF Off, Fields

\* a process that has not begun, or is no more, holds nothing
LEMMA OffIsFine == ASSUME run = Off, clock \in Nat PROVE RunInv
<1> QED BY OffIs DEF RunInv, RunTyped, RunAims, RunRecent, At

LEMMA InitIInv == Init => IInv
<1> SUFFICES ASSUME Init PROVE IInv
  OBVIOUS
<1>1. TimesInv
  BY CliAssumption DEF Init, TimesInv
<1>2. StoredInv
  BY DEF Init, StoredInv
<1>3. RunInv
  BY <1>1, OffIsFine DEF Init, TimesInv
<1> QED BY <1>1, <1>2, <1>3 DEF IInv

LEMMA OffStep == ASSUME IInv, run' = Off, UNCHANGED clock PROVE RunInv'
<1> QED BY OffIs DEF IInv, TimesInv, RunInv, RunTyped, RunAims, RunRecent, At

LEMMA BeginStep == ASSUME IInv, Begin PROVE IInv'
<1>1. UNCHANGED <<clock, published, stored>>
  BY DEF Begin
<1>2. /\ DOMAIN run' = Fields /\ run'.got = Off.got /\ run'.asked = 0
      /\ \/ run'.stage = "configure" /\ run'.named \in Named /\ run'.began = clock
         \/ run'.stage = "exited" /\ run'.began = 0
  <2>1. CASE \E named \in Named, use, force \in BOOLEAN :
               run' = [Off EXCEPT !.stage = "configure", !.named = named, !.use = use,
                                  !.force = force, !.began = clock]
    BY <2>1, OffIs DEF Fields
  <2>2. CASE run' = [Off EXCEPT !.stage = "exited", !.exit = 2, !.cause = "usage"]
    BY <2>2, OffIs DEF Fields
  <2> QED BY <2>1, <2>2 DEF Begin
<1>3. RunInv'
  BY <1>1, <1>2, OffIs DEF IInv, TimesInv, RunInv, RunTyped, RunAims, RunRecent, At
<1> QED BY <1>1, <1>3 DEF IInv, TimesInv, StoredInv, Alive, CurrentAtOrAfter

LEMMA ConfigureStep == ASSUME IInv, Configure PROVE RunInv'
<1> UNCHANGED <<clock, published>>
  BY DEF Configure, RunOnly
<1>1. PICK loaded \in Loaded :
        IF loaded.error # "none" THEN Raise(loaded.error, "config", ConfigClauses)
        ELSE \/ run' = [run EXCEPT !.stage = "prepare", !.rate = loaded.rate]
             \/ Raise("RuntimeError", "out", <<>>)
  BY DEF Configure
<1>2. CASE run' = [run EXCEPT !.stage = "prepare", !.rate = loaded.rate]
  <2>1. /\ DOMAIN run' = Fields /\ run'.stage = "prepare" /\ run'.asked = run.asked
        /\ run'.named = run.named /\ run'.began = run.began /\ run'.got = run.got
    BY <1>2 DEF IInv, RunInv, RunTyped, Fields
  <2>2. run.stage = "configure" /\ \A f \in Fetches : run.got[f] = None
    BY DEF Configure, At, IInv, RunInv, RunAims
  <2> QED BY <2>1, <2>2 DEF IInv, RunInv, RunTyped, RunAims, RunRecent, At, AtFetch, Fetches
<1> QED BY <1>1, <1>2, RaiseStep

LEMMA PrepareStep == ASSUME IInv, Prepare PROVE RunInv'
<1> UNCHANGED <<clock, published>>
  BY DEF Prepare, RunOnly
<1>1. /\ run.stage = "prepare" /\ run.named \in Named /\ run.asked = 0
      /\ \A f \in Fetches : run.got[f] = None
  BY DEF Prepare, At, IInv, RunInv, RunTyped, RunAims, RunRecent, AtFetch, Fetches
<1>2. CASE run.named.by = "cik" /\ run' = [run EXCEPT !.stage = "submissions",
                                                       !.cik = PadCik(run.named.cik)]
  <2>1. /\ DOMAIN run' = Fields /\ run'.stage = "submissions" /\ run'.asked = 0
        /\ run'.named = run.named /\ run'.began = run.began /\ run'.got = run.got
        /\ run'.cik = PadCik(run.named.cik)
    BY <1>1, <1>2 DEF IInv, RunInv, RunTyped, Fields
  <2>2. run'.cik \in Padded /\ run'.cik.number = run.named.cik.number
    <3>1. run.named.cik \in [number : Ciks, padded : BOOLEAN]
      BY <1>1, <1>2, NamedAssumption
    <3> QED BY <2>1, <3>1, Padding DEF Written
  <2>3. Meant' = {run.named.cik.number}
    BY <1>2, <2>1 DEF Meant
  <2> QED BY <1>1, <2>1, <2>2, <2>3 DEF IInv, RunInv, RunTyped, RunAims, RunRecent, At
<1>3. CASE run.named.by = "ticker" /\ run' = [run EXCEPT !.stage = "company_tickers"]
  <2>1. /\ DOMAIN run' = Fields /\ run'.stage = "company_tickers" /\ run'.asked = 0
        /\ run'.named = run.named /\ run'.began = run.began /\ run'.got = run.got
    BY <1>1, <1>3 DEF IInv, RunInv, RunTyped, Fields
  <2> QED BY <1>1, <1>3, <2>1 DEF IInv, RunInv, RunTyped, RunAims, RunRecent, At
<1> QED BY <1>2, <1>3, RaiseStep DEF Prepare

LEMMA LookupStep == ASSUME IInv, Lookup PROVE RunInv'
<1> UNCHANGED <<clock, published>>
  BY DEF Lookup, RunOnly
<1> DEFINE entry == IF run.use THEN stored[CacheKey(Wanted)] ELSE None
<1>1. AtFetch
  BY DEF Lookup
<1>2. CASE IsServed(entry) /\ Receive(entry.version, entry.url, clock)
  <2>1. run.use /\ entry = stored[CacheKey(Wanted)]
    BY <1>2 DEF IsServed
  <2>2. entry.url = Wanted /\ Alive(Wanted, entry.version, Since)
    BY <1>1, <1>2, <2>1, ServedIsRecent
  <2> HIDE DEF entry
  <2> QED BY <1>1, <1>2, <2>2, ReceiveStep
<1>3. CASE run' = [run EXCEPT !.asked = clock]
  <2>1. /\ DOMAIN run' = Fields /\ run'.stage = run.stage /\ run'.asked = clock
        /\ run'.named = run.named /\ run'.began = run.began /\ run'.got = run.got
        /\ run'.cik = run.cik /\ run'.use = run.use /\ run'.force = run.force
    BY <1>3 DEF IInv, RunInv, RunTyped, Fields
  <2>2. Meant' = Meant /\ Since' = Since
    BY <2>1 DEF Meant, Since, Insists
  <2>3. RunTyped' /\ RunAims'
    BY <2>1, <2>2 DEF IInv, TimesInv, RunInv, RunTyped, RunAims, At
  <2>4. RunRecent'
    BY <1>1, <2>1, <2>2 DEF IInv, TimesInv, RunInv, RunTyped, RunRecent, AtFetch, Alive,
                            CurrentAtOrAfter
  <2> QED BY <2>3, <2>4 DEF RunInv
<1> QED BY <1>2, <1>3, RaiseStep DEF Lookup

LEMMA AnswerStep == ASSUME IInv, Answer PROVE IInv'
<1>1. UNCHANGED <<clock, published, runs>> /\ run.asked > 0
  BY DEF Answer
<1>2. PICK v \in 1..Len(published[Wanted]) :
        /\ CurrentAtOrAfter(Wanted, v, run.asked)
        /\ Receive(v, Wanted, run.asked)
        /\ stored' = IF run.use
                     THEN [stored EXCEPT ![CacheKey(Wanted)] = EntryFor(v, run.asked)]
                     ELSE stored
  BY DEF Answer
<1>3. AtFetch /\ Wanted \in Urls /\ run.asked \in Nat /\ run.asked <= clock
  BY <1>1, WantedIsUrl DEF IInv, RunInv, RunTyped, RunRecent
<1>4. Alive(Wanted, v, run.asked) /\ Alive(Wanted, v, Since)
  BY <1>1, <1>2, AnswerIsRecent
<1>5. RunInv'
  BY <1>1, <1>2, <1>3, <1>4, ReceiveStep
<1>6. StoredInv'
  <2>1. CASE stored' = stored
    BY <1>1, <2>1 DEF IInv, StoredInv, Alive, CurrentAtOrAfter
  <2>2. CASE stored' = [stored EXCEPT ![Wanted] = EntryFor(v, run.asked)]
    <3> DEFINE entry == EntryFor(v, run.asked)
    <3>1. entry.url = Wanted /\ entry.version = v /\ entry.validated = run.asked
      BY DEF EntryFor
    <3>2. DOMAIN stored' = Urls /\ stored'[Wanted] = entry
      BY <1>3, <2>2 DEF IInv, StoredInv
    <3>3. \A u \in Urls : u # Wanted => stored'[u] = stored[u]
      BY <2>2 DEF IInv, StoredInv
    <3>4. ASSUME NEW u \in Urls, u # Wanted, stored'[u] \notin {None, Damaged}
          PROVE  /\ stored'[u].url = u
                 /\ stored'[u].validated \in Nat /\ stored'[u].validated <= clock
                 /\ Alive(u, stored'[u].version, stored'[u].validated)
      BY <3>3, <3>4 DEF IInv, StoredInv
    <3>5. Alive(Wanted, entry.version, entry.validated)
      BY <1>4, <3>1
    <3> QED BY <1>1, <1>3, <3>1, <3>2, <3>4, <3>5 DEF StoredInv, Alive, CurrentAtOrAfter
  <2> QED BY <1>2, <2>1, <2>2 DEF CacheKey
<1> QED BY <1>1, <1>5, <1>6 DEF IInv, TimesInv

LEMMA BuildStep == ASSUME IInv, Build PROVE RunInv'
<1> UNCHANGED <<clock, published>>
  BY DEF Build, RunOnly
<1>1. CASE \E quality : run' = [run EXCEPT !.stage = "exited", !.mapping = quality]
  <2>1. /\ DOMAIN run' = Fields /\ run'.stage = "exited" /\ run'.asked = run.asked
        /\ run'.named = run.named /\ run'.began = run.began /\ run'.got = run.got
        /\ run'.cik = run.cik /\ run'.use = run.use /\ run'.force = run.force
    BY <1>1 DEF IInv, RunInv, RunTyped, Fields
  <2>2. Meant' = Meant /\ Since' = Since
    BY <2>1 DEF Meant, Since, Insists
  <2>3. ~(run.asked > 0)
    BY DEF Build, At, AtFetch, Fetches, IInv, RunInv, RunRecent
  <2>4. RunTyped' /\ RunAims'
    BY <2>1, <2>2 DEF IInv, RunInv, RunTyped, RunAims, At
  <2>5. RunRecent'
    BY <2>1, <2>2, <2>3 DEF IInv, RunInv, RunRecent, Alive, CurrentAtOrAfter
  <2> QED BY <2>4, <2>5 DEF RunInv
<1> QED BY <1>1, RaiseStep DEF Build

\* a cleared or damaged file is an entry less
LEMMA LoseEntryStep == ASSUME IInv, LoseEntry PROVE IInv'
<1>1. UNCHANGED <<clock, published, run>>
  BY DEF LoseEntry
<1>2. PICK left \in {None, Damaged} : stored' = [stored EXCEPT ![CacheKey(Wanted)] = left]
  BY DEF LoseEntry
<1>3. StoredInv'
  BY <1>1, <1>2 DEF IInv, StoredInv, Alive, CurrentAtOrAfter
<1>4. RunInv'
  BY <1>1 DEF IInv, RunInv, RunTyped, RunAims, RunRecent, Meant, Since, Insists, At, AtFetch,
              Alive, CurrentAtOrAfter
<1> QED BY <1>1, <1>3, <1>4 DEF IInv, TimesInv

LEMMA TickStep == ASSUME IInv, Tick PROVE IInv'
<1>1. clock' = clock + 1 /\ UNCHANGED <<published, stored, run>>
  BY DEF Tick
<1>2. StoredInv'
  BY <1>1 DEF IInv, TimesInv, StoredInv, Alive, CurrentAtOrAfter
<1>3. RunTyped' /\ RunAims'
  <2>1. Meant' = Meant
    BY <1>1 DEF Meant
  <2>2. RunTyped'
    BY <1>1 DEF IInv, TimesInv, RunInv, RunTyped
  <2> QED BY <1>1, <2>1, <2>2 DEF IInv, RunInv, RunAims, At
<1>4. RunRecent'
  BY <1>1 DEF IInv, TimesInv, RunInv, RunTyped, RunRecent, Since, Insists, AtFetch, Alive,
              CurrentAtOrAfter
<1> QED BY <1>1, <1>2, <1>3, <1>4 DEF IInv, TimesInv, RunInv

LEMMA PublishStep == ASSUME IInv, Publish PROVE IInv'
<1>1. /\ UNCHANGED <<clock, stored, run>>
      /\ \A u \in Urls : Len(published[u]) < MaxVersions
  BY DEF Publish
<1>2. PICK w \in Urls : published' = [published EXCEPT ![w] = Append(@, clock)]
  BY DEF Publish
<1>3. TimesInv'
  <2>1. ASSUME NEW u \in Urls
        PROVE  published'[u] \in Seq(Nat) /\ Len(published'[u]) \in 1..MaxVersions
    <3>1. published[u] \in Seq(Nat) /\ Len(published[u]) \in 1..MaxVersions /\ clock \in Nat
      BY DEF IInv, TimesInv
    <3>2. CASE u = w
      <4>1. published'[u] = Append(published[u], clock)
        BY <1>2, <3>2 DEF IInv, TimesInv
      <4>2. Len(published'[u]) = Len(published[u]) + 1
        BY <3>1, <4>1
      <4> QED BY <1>1, <3>1, <4>1, <4>2, CliAssumption
    <3>3. CASE u # w
      BY <1>2, <3>1, <3>3 DEF IInv, TimesInv
    <3> QED BY <3>2, <3>3
  <2>2. published' \in [Urls -> Seq(Nat)]
    BY <1>2, <2>1 DEF IInv, TimesInv
  <2> QED BY <1>1, <2>1, <2>2 DEF IInv, TimesInv
<1>4. ASSUME NEW u \in Urls, NEW v, NEW t \in Int, t <= clock, Alive(u, v, t)
      PROVE  Alive(u, v, t)'
  BY <1>2, <1>4, AliveAfterPublish DEF IInv
<1>5. StoredInv'
  BY <1>1, <1>4 DEF IInv, StoredInv
<1>6. RunTyped' /\ RunAims'
  BY <1>1 DEF IInv, RunInv, RunTyped, RunAims, Meant, At
<1>7. RunRecent'
  <2>1. Since \in Int /\ Since <= clock /\ Since' = Since
    BY <1>1, SinceIsInt DEF IInv, TimesInv, RunInv, RunTyped, Since, Insists
  <2> QED BY <1>1, <1>4, <2>1 DEF IInv, RunInv, RunRecent, AtFetch
<1> QED BY <1>3, <1>5, <1>6, <1>7 DEF IInv, RunInv

LEMMA NextIInv == ASSUME IInv, [Next]_vars PROVE IInv'
<1>1. CASE Configure \/ Prepare \/ Lookup \/ StoreFails \/ SecFails \/ Build
  <2>1. RunOnly
    BY <1>1 DEF Configure, Prepare, Lookup, StoreFails, SecFails, Build
  <2>2. RunInv'
    BY <1>1, <2>1, ConfigureStep, PrepareStep, LookupStep, BuildStep, RaiseStep
       DEF StoreFails, SecFails, RunOnly
  <2> QED BY <2>1, <2>2, RunOnlyStep
<1>2. CASE Crash \/ Return
  BY <1>2, OffStep, RunOnlyStep DEF Crash, Return, RunOnly
<1>3. CASE UNCHANGED vars
  <2>1. RunInv'
    BY <1>3 DEF vars, IInv, RunInv, RunTyped, RunAims, RunRecent, Meant, Since, Insists, At,
                AtFetch, Alive, CurrentAtOrAfter
  <2> QED BY <1>3, <2>1, RunOnlyStep DEF vars, RunOnly
<1> QED BY <1>1, <1>2, <1>3, BeginStep, AnswerStep, LoseEntryStep, TickStep, PublishStep
        DEF Next, Step

LEMMA AlwaysIInv == Spec => []IInv
BY InitIInv, NextIInv, PTL DEF Spec

-----------------------------------------------------------------------------

\* For any companies, ticker maps and number of runs over one cache, every
\* document a run uses is the one of the company it was started for
\* (endpoints.py:123-221, cli.py:388-403).
THEOREM DocumentsAlwaysOfTheCompany == Spec => []DocumentsAreOfTheCompany
<1>1. ASSUME IInv PROVE DocumentsAreOfTheCompany
  <2>1. ASSUME NEW f \in Fetches, run.got[f] # None, f # "company_tickers"
        PROVE  /\ run.got[f].url = Url(f, run.cik)
               /\ run.named.by = "cik" => run.cik.number = run.named.cik.number
               /\ run.named.by = "ticker" =>
                    LET listing == Listings[run.got["company_tickers"].version]
                        exact == listing[run.named.spelling]
                    IN  \/ exact # None /\ run.cik.number = exact
                        \/ /\ exact = None
                           /\ \E s \in Spellings : /\ s = "plain" <=> run.named.spelling = "plain"
                                                   /\ listing[s] # None /\ run.cik.number = listing[s]
    <3>1. run.got[f].url = Url(f, run.cik) /\ run.cik.number \in Meant
      BY <1>1, <2>1 DEF IInv, RunInv, RunAims
    <3>2. run.named.by = "cik" => run.cik.number = run.named.cik.number
      BY <3>1 DEF Meant
    <3>3. run.named.by = "ticker" =>
            run.cik.number \in Listed(Listings[run.got["company_tickers"].version],
                                      run.named.spelling)
      BY <3>1 DEF Meant
    <3> QED BY <3>1, <3>2, <3>3 DEF Listed
  <2>2. run.got["company_tickers"] # None => run.got["company_tickers"].url = TickersUrl
    BY <1>1 DEF IInv, RunInv, RunAims, Fetches
  <2>3. \A u \in Urls : stored[u] \notin {None, Damaged} => stored[u].url = u
    BY <1>1 DEF IInv, StoredInv
  <2> QED BY <2>1, <2>2, <2>3, Zenon DEF DocumentsAreOfTheCompany
<1> QED BY <1>1, AlwaysIInv, PTL

\* For every time to live, what a finished report rests on is no older than
\* the options of the run and cache_ttl_hours allow (client.py:156-161,
\* cli.py:174-183).
THEOREM ReportAlwaysRecent == Spec => []ReportIsRecent
<1>1. IInv => ReportIsRecent
  BY DEF IInv, RunInv, RunRecent, Alive, Since, ReportIsRecent
<1> QED BY <1>1, AlwaysIInv, PTL

-----------------------------------------------------------------------------
(* What the clauses make of an exception. *)

LEMMA CodeOfOne ==
  ASSUME NEW class, NEW code, NEW error
  PROVE  Code(<<<<class, code>>>>, error) = IF IsA(error, class) THEN code ELSE 1
<1> DEFINE clauses == <<<<class, code>>>>
           Catches(n) == IsA(error, clauses[n][1])
           IsFirst(n) == Catches(n) /\ \A m \in 1..(n - 1) : ~Catches(m)
<1>1. DOMAIN clauses = {1} /\ clauses[1][1] = class /\ clauses[1][2] = code
  OBVIOUS
<1>2. Code(clauses, error) = IF \E n \in DOMAIN clauses : Catches(n)
                             THEN clauses[CHOOSE n \in DOMAIN clauses : IsFirst(n)][2] ELSE 1
  BY DEF Code
<1>3. (CHOOSE n \in DOMAIN clauses : IsFirst(n)) \in {1} \/ ~IsFirst(1)
  BY <1>1
<1>4. IsFirst(1) <=> IsA(error, class)
  BY <1>1
<1>5. (\E n \in DOMAIN clauses : Catches(n)) <=> IsA(error, class)
  BY <1>1
<1> HIDE DEF clauses, IsFirst, Catches
<1>6. Code(clauses, error) = IF IsA(error, class) THEN code ELSE 1
  <2>1. CASE IsA(error, class)
    <3>1. (CHOOSE n \in DOMAIN clauses : IsFirst(n)) = 1
      BY <1>3, <1>4, <2>1
    <3> QED BY <1>1, <1>2, <1>5, <2>1, <3>1
  <2> QED BY <1>2, <1>5, <2>1
<1> QED BY <1>6 DEF clauses

LEMMA CodeOfTwo ==
  ASSUME NEW class, NEW code, NEW other, NEW second, NEW error
  PROVE  Code(<<<<class, code>>, <<other, second>>>>, error) =
           IF IsA(error, class) THEN code ELSE IF IsA(error, other) THEN second ELSE 1
<1> DEFINE clauses == <<<<class, code>>, <<other, second>>>>
           Catches(n) == IsA(error, clauses[n][1])
           IsFirst(n) == Catches(n) /\ \A m \in 1..(n - 1) : ~Catches(m)
           first == CHOOSE n \in DOMAIN clauses : IsFirst(n)
<1>1. /\ DOMAIN clauses = {1, 2} /\ clauses[1][1] = class /\ clauses[1][2] = code
      /\ clauses[2][1] = other /\ clauses[2][2] = second
  OBVIOUS
<1>2. Code(clauses, error) = IF \E n \in DOMAIN clauses : Catches(n)
                             THEN clauses[first][2] ELSE 1
  BY DEF Code
<1>3. /\ IsFirst(1) <=> IsA(error, class)
      /\ IsFirst(2) <=> ~IsA(error, class) /\ IsA(error, other)
      /\ Catches(1) <=> IsA(error, class)
      /\ Catches(2) <=> IsA(error, other)
  BY <1>1
<1> HIDE DEF IsFirst
<1>4. (IsFirst(1) \/ IsFirst(2)) => first \in {1, 2} /\ IsFirst(first)
  BY <1>1
<1>5. (\E n \in DOMAIN clauses : Catches(n)) <=> IsA(error, class) \/ IsA(error, other)
  BY <1>1, <1>3
<1> HIDE DEF clauses, Catches, first
<1>6. Code(clauses, error) = IF IsA(error, class) THEN code
                             ELSE IF IsA(error, other) THEN second ELSE 1
  <2>1. CASE IsA(error, class)
    <3>1. first = 1
      BY <1>3, <1>4, <2>1
    <3> QED BY <1>1, <1>2, <1>5, <2>1, <3>1
  <2>2. CASE ~IsA(error, class) /\ IsA(error, other)
    <3>1. first = 2
      BY <1>3, <1>4, <2>2
    <3> QED BY <1>1, <1>2, <1>5, <2>2, <3>1
  <2>3. CASE ~IsA(error, class) /\ ~IsA(error, other)
    BY <1>2, <1>5, <2>3
  <2> QED BY <2>1, <2>2, <2>3
<1> QED BY <1>6 DEF clauses

LEMMA ClausesCatch ==
  ASSUME NEW error
  PROVE  /\ Code(ConfigClauses, error) \in {1, 2}
         /\ Code(BuildClauses, error) \in {1, 4}
         /\ error = "ConfigError" => Code(ConfigClauses, error) = 2
         /\ error = "SchemaError" => Code(BuildClauses, error) = 4
         /\ error = "TickerNotFound" => Code(SecClauses, error) = 2
         /\ error \in {"SecHttpError", "SecRateLimited", "SecUnavailable"} =>
              Code(SecClauses, error) = 3
         /\ error \in {"KeyError", "zlib_error", "ValueError", "OSError"} =>
              Code(SecClauses, error) = 1
         /\ Code(<<>>, error) = 1
<1>1. Code(ConfigClauses, error) \in {1, 2} /\ (error = "ConfigError" => Code(ConfigClauses, error) = 2)
  BY CodeOfOne DEF ConfigClauses, IsA
<1>2. Code(BuildClauses, error) \in {1, 4} /\ (error = "SchemaError" => Code(BuildClauses, error) = 4)
  BY CodeOfTwo DEF BuildClauses, IsA
<1>3. Code(SecClauses, error) = IF IsA(error, "TickerNotFound") THEN 2
                                ELSE IF IsA(error, "SecError") THEN 3 ELSE 1
  BY CodeOfTwo DEF SecClauses
<1>4. error = "TickerNotFound" => IsA(error, "TickerNotFound")
  BY DEF IsA
<1>5. error \in {"SecHttpError", "SecRateLimited", "SecUnavailable"} =>
        ~IsA(error, "TickerNotFound") /\ IsA(error, "SecError")
  BY DEF IsA, Bases
<1>6. error \in {"KeyError", "zlib_error", "ValueError", "OSError"} =>
        ~IsA(error, "TickerNotFound") /\ ~IsA(error, "SecError")
  BY DEF IsA, Bases
<1>7. Code(<<>>, error) = 1
  <2>1. DOMAIN <<>> = {}
    OBVIOUS
  <2> QED BY <2>1 DEF Code
<1> QED BY <1>1, <1>2, <1>3, <1>4, <1>5, <1>6, <1>7

-----------------------------------------------------------------------------

\* a run that goes on has no exit code yet, and holds what its stage needs
ExitInv ==
  /\ ~Exited => run.exit = 0 /\ run.cause = "nothing"
  /\ run.stage \in {"companyfacts", "build"} => run.got["submissions"] # None
  /\ At("build") => run.got["companyfacts"] # None
  /\ ExitTellsWhatHappened

LEMMA RaiseExit ==
  ASSUME IInv, ExitInv, NEW error, NEW cause, NEW clauses, Raise(error, cause, clauses),
         cause \notin {"nothing", "unlisted"}, Code(clauses, error) \in {1, 2, 3, 4},
         Code(clauses, error) = 3 <=> cause = "sec",
         cause \in {"document", "cache", "disk", "out"} => Code(clauses, error) = 1,
         Code(clauses, error) = 1 =>
           cause \in {"document", "cache", "disk", "out", "config", "mapping"},
         Code(clauses, error) = 4 => cause \in {"mapping", "schema"} /\ At("build"),
         Code(clauses, error) = 2 => run.got["submissions"] = None
  PROVE  ExitInv'
<1> DEFINE code == Code(clauses, error)
<1>1. run' = [run EXCEPT !.stage = "exited", !.exit = code, !.cause = cause, !.asked = 0]
  BY DEF Raise
<1>2. code \in {1, 2, 3, 4} /\ (code = 3 <=> cause = "sec")
      /\ (cause \in {"document", "cache", "disk", "out"} => code = 1)
      /\ (code = 1 => cause \in {"document", "cache", "disk", "out", "config", "mapping"})
      /\ (code = 4 => cause \in {"mapping", "schema"} /\ At("build"))
      /\ (code = 2 => run.got["submissions"] = None)
  OBVIOUS
<1> HIDE DEF code
<1>3. /\ run'.stage = "exited" /\ run'.exit = code /\ run'.cause = cause
      /\ run'.got = run.got
  BY <1>1 DEF IInv, RunInv, RunTyped, Fields
<1>4. run'.exit = 4 =>
        {run'.got[f] : f \in {"submissions", "companyfacts"}} \cap {None} = {}
  BY <1>2, <1>3 DEF ExitInv, At
<1>5. ExitTellsWhatHappened'
  <2>1. run'.exit # 0 /\ run'.cause \notin {"nothing", "unlisted"}
    BY <1>2, <1>3
  <2>2. /\ run'.exit = 3 <=> run'.cause = "sec"
        /\ run'.cause \in {"document", "cache", "disk", "out"} => run'.exit = 1
        /\ run'.exit = 1 =>
             run'.cause \in {"document", "cache", "disk", "out", "config", "mapping"}
    BY <1>2, <1>3
  <2>3. run'.exit = 4 => run'.cause \in {"mapping", "schema"}
    BY <1>2, <1>3
  <2>4. run'.exit = 2 => run'.got["submissions"] = None
    BY <1>2, <1>3
  <2> QED BY <2>1, <2>2, <2>3, <2>4, <1>4 DEF ExitTellsWhatHappened
<1> QED BY <1>3, <1>5 DEF ExitInv, Exited, At

LEMMA ReceiveExit ==
  ASSUME IInv, ExitInv, AtFetch, NEW version \in 1..MaxVersions, NEW now \in Nat,
         Receive(version, Wanted, now)
  PROVE  ExitInv'
<1> DEFINE doc == [version |-> version, url |-> Wanted, now |-> now]
           got == [run.got EXCEPT ![run.stage] = doc]
           read == [run EXCEPT !.asked = 0, !.got = got]
           number == ResolveCik(Listings[version], run.named.spelling)
<1>1. doc # None /\ doc.version = version
  <2>1. doc \in [version : Nat, url : Urls, now : Nat]
    BY WantedIsUrl, CliAssumption DEF IInv
  <2> QED BY <2>1, NoneAssumption
<1>2. DOMAIN got = Fetches /\ got[run.stage] = doc
      /\ \A f \in Fetches : f # run.stage => got[f] = run.got[f]
  BY DEF IInv, RunInv, RunTyped, AtFetch
<1>3. /\ DOMAIN read = Fields /\ read.got = got /\ read.named = run.named
      /\ read.exit = 0 /\ read.cause = "nothing" /\ read.stage = run.stage
  BY DEF IInv, RunInv, RunTyped, Fields, ExitInv, Exited, At, AtFetch, Fetches
<1>4. \/ run' = [read EXCEPT !.stage = "exited", !.exit = Code(SecClauses, "KeyError"),
                             !.cause = "document"]
      \/ /\ At("company_tickers") /\ number = None
         /\ run' = [read EXCEPT !.stage = "exited",
                                !.exit = Code(SecClauses, "TickerNotFound"),
                                !.cause = "unlisted"]
      \/ /\ At("company_tickers")
         /\ run' = [read EXCEPT !.stage = "submissions",
                                !.cik = PadCik(Written(number, FALSE))]
      \/ At("submissions") /\ run' = [read EXCEPT !.stage = "companyfacts"]
      \/ At("companyfacts") /\ run' = [read EXCEPT !.stage = "build"]
  BY DEF Receive
<1> HIDE DEF got, read, number
<1>5. CASE run' = [read EXCEPT !.stage = "exited", !.exit = Code(SecClauses, "KeyError"),
                               !.cause = "document"]
  <2>1. run'.stage = "exited" /\ run'.exit = 1 /\ run'.cause = "document"
    BY <1>3, <1>5, ClausesCatch DEF Fields
  <2>2. ExitTellsWhatHappened'
    BY <2>1 DEF ExitTellsWhatHappened
  <2> QED BY <2>1, <2>2 DEF ExitInv, Exited, At
<1>6. CASE /\ At("company_tickers") /\ number = None
           /\ run' = [read EXCEPT !.stage = "exited",
                                  !.exit = Code(SecClauses, "TickerNotFound"),
                                  !.cause = "unlisted"]
  <2>1. /\ run'.stage = "exited" /\ run'.exit = 2 /\ run'.cause = "unlisted"
        /\ run'.got = got /\ run'.named = run.named
    BY <1>3, <1>6, ClausesCatch DEF Fields
  <2>2. run.named.spelling \in Spellings /\ run.got["submissions"] = None
    BY <1>6, NamedAssumption DEF IInv, RunInv, RunAims, At, Fetches, Spellings
  <2>3. got["company_tickers"] = doc /\ got["submissions"] = None
    BY <1>2, <1>6, <2>2 DEF At, Fetches
  <2>4. \A s \in Spellings : (s = "plain" <=> run.named.spelling = "plain")
                                => Listings[version][s] = None
    BY <1>6, <2>2 DEF number, ResolveCik, Variant, Spellings
  <2>5. ExitTellsWhatHappened'
    <3>1. run'.got["company_tickers"].version = version
      BY <1>1, <2>1, <2>3
    <3> QED BY <2>1, <2>3, <2>4, <3>1 DEF ExitTellsWhatHappened
  <2> QED BY <2>1, <2>5 DEF ExitInv, Exited, At
<1>7. CASE \/ /\ At("company_tickers")
              /\ run' = [read EXCEPT !.stage = "submissions",
                                     !.cik = PadCik(Written(number, FALSE))]
           \/ At("submissions") /\ run' = [read EXCEPT !.stage = "companyfacts"]
           \/ At("companyfacts") /\ run' = [read EXCEPT !.stage = "build"]
  <2>1. /\ run'.got = got /\ run'.exit = 0 /\ run'.cause = "nothing"
        /\ \/ run'.stage = "submissions"
           \/ run.stage = "submissions" /\ run'.stage = "companyfacts"
           \/ run.stage = "companyfacts" /\ run'.stage = "build"
    BY <1>3, <1>7 DEF Fields, At
  <2>2. run.stage = "companyfacts" => got["submissions"] # None
    BY <1>2 DEF ExitInv, Fetches
  <2> QED BY <1>1, <1>2, <2>1, <2>2 DEF ExitInv, ExitTellsWhatHappened, Exited, At
<1> QED BY <1>4, <1>5, <1>6, <1>7

LEMMA InitExit == Init => ExitInv
<1>1. Off.stage = "off" /\ Off.exit = 0 /\ Off.cause = "nothing"
  BY DEF Off
<1> QED BY <1>1 DEF Init, ExitInv, ExitTellsWhatHappened, Exited, At

\* a run that is going, and one that has ended
LEMMA GoingIs ==
  ASSUME IInv, ExitInv, run.stage # "exited"
  PROVE  run.exit = 0 /\ run.cause = "nothing" /\ DOMAIN run = Fields
BY DEF IInv, RunInv, RunTyped, ExitInv, Exited, At

LEMMA BeginExit == ASSUME IInv, ExitInv, Begin PROVE ExitInv'
<1>1. \/ run'.stage = "configure" /\ run'.exit = 0 /\ run'.cause = "nothing"
      \/ /\ run'.stage = "exited" /\ run'.exit = 2 /\ run'.cause = "usage"
         /\ run'.got["submissions"] = None
  <2>1. /\ Off.exit = 0 /\ Off.cause = "nothing" /\ Off.got["submissions"] = None
        /\ DOMAIN Off = Fields
    BY DEF Off, Fetches, Fields
  <2>2. CASE \E named \in Named, use, force \in BOOLEAN :
               run' = [Off EXCEPT !.stage = "configure", !.named = named, !.use = use,
                                  !.force = force, !.began = clock]
    BY <2>1, <2>2 DEF Fields
  <2>3. CASE run' = [Off EXCEPT !.stage = "exited", !.exit = 2, !.cause = "usage"]
    BY <2>1, <2>3 DEF Fields
  <2> QED BY <2>2, <2>3 DEF Begin
<1>2. ExitTellsWhatHappened'
  BY <1>1 DEF ExitTellsWhatHappened, Exited, At
<1> QED BY <1>1, <1>2 DEF ExitInv, Exited, At

\* a step within a run that fetches nothing yet, or that waits
LEMMA QuietExit ==
  ASSUME ExitInv, NEW stage \in {"prepare", "submissions", "company_tickers"} \cup Fetches,
         run'.stage = stage, run'.exit = 0, run'.cause = "nothing", run'.got = run.got,
         stage \in {"submissions", "companyfacts"} => stage = "submissions" \/ run.stage = stage
  PROVE  ExitInv'
BY DEF ExitInv, ExitTellsWhatHappened, Exited, At, Fetches

LEMMA ConfigureExit == ASSUME IInv, ExitInv, Configure PROVE ExitInv'
<1>1. At("configure") /\ run.got["submissions"] = None /\ run.stage # "exited"
  BY DEF Configure, At, IInv, RunInv, RunAims, Fetches
<1>2. PICK loaded \in Loaded :
        IF loaded.error # "none" THEN Raise(loaded.error, "config", ConfigClauses)
        ELSE \/ run' = [run EXCEPT !.stage = "prepare", !.rate = loaded.rate]
             \/ Raise("RuntimeError", "out", <<>>)
  BY DEF Configure
<1>3. CASE Raise(loaded.error, "config", ConfigClauses)
  BY <1>1, <1>3, ClausesCatch, RaiseExit
<1>4. CASE Raise("RuntimeError", "out", <<>>)
  BY <1>1, <1>4, ClausesCatch, RaiseExit
<1>5. CASE run' = [run EXCEPT !.stage = "prepare", !.rate = loaded.rate]
  <2>1. run'.stage = "prepare" /\ run'.exit = 0 /\ run'.cause = "nothing" /\ run'.got = run.got
    BY <1>1, <1>5, GoingIs DEF Fields
  <2> QED BY <2>1, QuietExit DEF Fetches
<1> QED BY <1>2, <1>3, <1>4, <1>5

LEMMA PrepareExit == ASSUME IInv, ExitInv, Prepare PROVE ExitInv'
<1>1. At("prepare") /\ run.got["submissions"] = None /\ run.stage # "exited"
  BY DEF Prepare, At, IInv, RunInv, RunAims, Fetches
<1>2. CASE Raise("ConfigError", "directory", ConfigClauses)
  BY <1>1, <1>2, ClausesCatch, RaiseExit
<1>3. CASE \/ run' = [run EXCEPT !.stage = "submissions", !.cik = PadCik(run.named.cik)]
           \/ run' = [run EXCEPT !.stage = "company_tickers"]
  <2>1. /\ run'.stage \in {"submissions", "company_tickers"}
        /\ run'.exit = 0 /\ run'.cause = "nothing" /\ run'.got = run.got
    BY <1>1, <1>3, GoingIs DEF Fields
  <2> QED BY <2>1, QuietExit
<1> QED BY <1>2, <1>3 DEF Prepare

LEMMA LookupExit == ASSUME IInv, ExitInv, Lookup PROVE ExitInv'
<1> DEFINE entry == IF run.use THEN stored[CacheKey(Wanted)] ELSE None
<1>1. AtFetch /\ run.stage # "exited" /\ ~At("build")
  BY DEF Lookup, AtFetch, Fetches, At
<1>2. CASE Raise("zlib_error", "cache", SecClauses)
  BY <1>2, ClausesCatch, RaiseExit
<1>3. CASE Raise("ValueError", "config", SecClauses)
  BY <1>3, ClausesCatch, RaiseExit
<1>4. CASE IsServed(entry) /\ Receive(entry.version, entry.url, clock)
  <2>1. run.use /\ entry = stored[CacheKey(Wanted)]
    BY <1>4 DEF IsServed
  <2>2. entry.url = Wanted /\ Alive(Wanted, entry.version, Since)
    BY <1>1, <1>4, <2>1, ServedIsRecent
  <2>3. entry.version \in 1..MaxVersions /\ clock \in Nat
    BY <1>1, <2>2, WantedIsUrl, CliAssumption DEF Alive, IInv, TimesInv
  <2> HIDE DEF entry
  <2> QED BY <1>1, <1>4, <2>2, <2>3, ReceiveExit
<1>5. CASE run' = [run EXCEPT !.asked = clock]
  <2>1. run'.stage = run.stage /\ run'.exit = 0 /\ run'.cause = "nothing" /\ run'.got = run.got
    BY <1>1, <1>5, GoingIs DEF Fields
  <2> QED BY <1>1, <2>1, QuietExit DEF AtFetch
<1> QED BY <1>2, <1>3, <1>4, <1>5 DEF Lookup

LEMMA AnswerExit == ASSUME IInv, ExitInv, Answer PROVE ExitInv'
<1>1. PICK v \in 1..Len(published[Wanted]) : Receive(v, Wanted, run.asked)
  BY DEF Answer
<1>2. AtFetch /\ Wanted \in Urls /\ run.asked \in Nat
  BY WantedIsUrl DEF Answer, IInv, RunInv, RunTyped, RunRecent
<1>3. v \in 1..MaxVersions
  BY <1>2, CliAssumption DEF IInv, TimesInv
<1> QED BY <1>1, <1>2, <1>3, ReceiveExit

LEMMA FailuresExit == ASSUME IInv, ExitInv, StoreFails \/ SecFails PROVE ExitInv'
<1>1. run.stage # "exited"
  BY DEF StoreFails, SecFails, IInv, RunInv, RunRecent, AtFetch, Fetches
<1>2. CASE StoreFails
  BY <1>2, ClausesCatch, RaiseExit DEF StoreFails
<1>3. CASE SecFails
  <2>1. PICK error \in {"SecHttpError", "SecRateLimited", "SecUnavailable"} :
          Raise(error, "sec", SecClauses)
    BY <1>3 DEF SecFails
  <2>2. Code(SecClauses, error) = 3
    BY ClausesCatch
  <2> QED BY <2>1, <2>2, RaiseExit
<1> QED BY <1>2, <1>3

LEMMA BuildExit == ASSUME IInv, ExitInv, Build PROVE ExitInv'
<1>1. At("build") /\ run.stage # "exited"
  BY DEF Build, At
<1>2. \/ \E error : Raise(error, "mapping", BuildClauses)
      \/ \E quality : run' = [run EXCEPT !.stage = "exited", !.mapping = quality]
      \/ Raise("SchemaError", "schema", BuildClauses)
  BY Zenon DEF Build
<1>3. ASSUME NEW error, NEW cause, Raise(error, cause, BuildClauses),
             cause = "mapping" \/ (cause = "schema" /\ error = "SchemaError")
      PROVE  ExitInv'
  <2>1. Code(BuildClauses, error) \in {1, 4} /\ (cause = "schema" => Code(BuildClauses, error) = 4)
    BY <1>3, ClausesCatch
  <2> QED BY <1>1, <1>3, <2>1, RaiseExit
<1>4. ASSUME NEW quality, run' = [run EXCEPT !.stage = "exited", !.mapping = quality]
      PROVE  ExitInv'
  <2>1. run'.stage = "exited" /\ run'.exit = 0 /\ run'.cause = "nothing"
    BY <1>1, <1>4, GoingIs DEF Fields
  <2>2. ExitTellsWhatHappened'
    BY <2>1 DEF ExitTellsWhatHappened
  <2> QED BY <2>1, <2>2 DEF ExitInv, Exited, At
<1> QED BY <1>2, <1>3, <1>4

LEMMA NextExit == ASSUME IInv, ExitInv, [Next]_vars PROVE ExitInv'
<1>1. CASE Crash \/ Return
  <2>1. run' = Off
    BY <1>1 DEF Crash, Return
  <2> QED BY <2>1 DEF Off, ExitInv, ExitTellsWhatHappened, Exited, At
<1>2. CASE LoseEntry \/ Tick \/ Publish \/ UNCHANGED vars
  <2>1. run' = run
    BY <1>2 DEF LoseEntry, Tick, Publish, vars
  <2> QED BY <2>1 DEF ExitInv, ExitTellsWhatHappened, Exited, At
<1> QED BY <1>1, <1>2, BeginExit, ConfigureExit, PrepareExit, LookupExit, AnswerExit,
           FailuresExit, BuildExit DEF Next, Step

LEMMA AlwaysExitInv == Spec => []ExitInv
BY InitExit, NextExit, AlwaysIInv, PTL DEF Spec

\* For any companies, ticker maps, configurations and mapping files, the exit
\* code of a run that ends tells what went wrong (cli.py:338-433).
THEOREM ExitAlwaysTellsWhatHappened == Spec => []ExitTellsWhatHappened
<1>1. ExitInv => ExitTellsWhatHappened
  BY DEF ExitInv
<1> QED BY <1>1, AlwaysExitInv, PTL

-----------------------------------------------------------------------------
(* What a file that is accepted is like. *)

LEMMA LeastIsIn == ASSUME NEW S, S \subseteq Nat, S # {} PROVE Min(S) \in S
<1>1. \E x \in S : \A y \in S : x <= y
  BY LeastNatural
<1> QED BY <1>1 DEF Min

\* load_mapping reports the first entry it rejects, so a mapping it returns has none
LEMMA NoneRejected ==
  ASSUME NEW file \in MappingFiles, LoadMapping(file) = "none"
  PROVE  \A n \in DOMAIN file.entries : EntryError(file.entries[n]) = "none"
<1> DEFINE rejected == Rejected(file.entries)
<1>1. file.entries \in Seq(Entries)
  BY FilesAssumption
<1>2. rejected \subseteq Nat
  BY <1>1 DEF Rejected
<1>3. rejected # {} => EntryError(file.entries[Min(rejected)]) = "none"
  BY DEF LoadMapping
<1>4. \A n \in rejected : EntryError(file.entries[n]) # "none"
  BY DEF Rejected
<1>5. rejected = {}
  <2> HIDE DEF rejected
  <2> QED BY <1>2, <1>3, <1>4, LeastIsIn
<1> QED BY <1>5 DEF Rejected

LEMMA OneAnchor ==
  ASSUME NEW file \in MappingFiles, LoadMapping(file) = "none"
  PROVE  \E a \in DOMAIN file.entries : Anchors(file.entries) = {a}
<1> DEFINE anchors == Anchors(file.entries)
<1>1. Cardinality(anchors) = 1
  <2>1. Rejected(file.entries) = {}
    BY NoneRejected, Zenon DEF Rejected
  <2> QED BY <2>1, Zenon DEF LoadMapping
<1>2. file.entries \in Seq(Entries)
  BY FilesAssumption
<1>3. anchors \subseteq 1..Len(file.entries)
  BY <1>2 DEF Anchors
<1>4. IsFiniteSet(anchors)
  <2>1. IsFiniteSet(1..Len(file.entries))
    BY <1>2, FS_Interval
  <2> HIDE DEF anchors
  <2> QED BY <1>3, <2>1, FS_Subset
<1>5. PICK a : anchors = {a}
  <2> HIDE DEF anchors
  <2> QED BY <1>1, <1>4, FS_Singleton
<1>6. a \in DOMAIN file.entries
  BY <1>2, <1>3, <1>5
<1> QED BY <1>5, <1>6

\* an entry that passes the checks is put right to one that can be resolved, or is made
Resolvable(e) ==
  \/ /\ IsFetched(e) /\ e.tags = "list" /\ e.compose \in {"none", "list"} /\ e.unit
     /\ e.cover => e.period = "instant"
  \/ ~IsFetched(e) /\ ~Declares(e) /\ ~e.cover /\ (e.subtotal \/ e.key = "change_in_nwc")

LEMMA EntryIsPutRight ==
  ASSUME NEW e \in Entries, EntryError(e) = "none"
  PROVE  /\ Resolvable(PutRight(e)) /\ PutRight(e).anchor = e.anchor
         /\ e.anchor => /\ PutRight(e).period = "duration" /\ PutRight(e).tags = "list"
                        /\ PutRight(e).unit /\ PutRight(e).compose = "none"
<1> DEFINE tags == IF e.tags = "text" THEN "list" ELSE e.tags
           compose == IF e.anchor THEN "none" ELSE IF e.compose = "text" THEN "list" ELSE e.compose
           right == PutRight(e)
<1>1. right = [e EXCEPT !.tags = tags, !.compose = compose]
  BY DEF PutRight
<1> HIDE DEF tags, compose, right
<1>2. /\ right.tags = tags /\ right.compose = compose /\ right.unit = e.unit
      /\ right.period = e.period /\ right.cover = e.cover /\ right.anchor = e.anchor
      /\ right.subtotal = e.subtotal /\ right.derived = e.derived /\ right.key = e.key
  BY <1>1 DEF Entries
<1>3. /\ e.tags \in {"none", "list", "text"} /\ e.compose \in {"none", "list", "text"}
  BY DEF EntryError, Entries
<1>4. /\ ~(~IsFetched(e) /\ Declares(e))
      /\ ~(e.derived /\ e.key \notin KnownDerived)
      /\ ~(IsFetched(e) /\ (e.tags = "none" \/ ~e.unit))
      /\ ~(e.anchor /\ (~IsFetched(e) \/ e.period # "duration"))
      /\ ~(e.cover /\ (e.period # "instant" \/ ~IsFetched(e) \/ e.anchor))
  BY Zenon DEF EntryError
<1>5. e.derived => e.key = "change_in_nwc"
  BY <1>4 DEF KnownDerived
<1>6. IsFetched(right) <=> IsFetched(e)
  BY <1>2 DEF IsFetched
<1>7. CASE IsFetched(e)
  <2>1. right.tags = "list" /\ right.compose \in {"none", "list"}
    BY <1>2, <1>3, <1>4, <1>7 DEF tags, compose
  <2>2. e.anchor => right.compose = "none"
    BY <1>2 DEF compose
  <2> QED BY <1>2, <1>4, <1>6, <1>7, <2>1, <2>2 DEF Resolvable, right
<1>8. CASE ~IsFetched(e)
  <2>1. e.tags = "none" /\ e.compose = "none" /\ ~e.anchor /\ ~e.cover
        /\ (e.subtotal \/ e.derived)
    BY <1>4, <1>8 DEF Declares, IsFetched
  <2>2. ~Declares(right)
    BY <1>2, <2>1 DEF Declares, tags, compose
  <2> QED BY <1>2, <1>5, <1>6, <1>8, <2>1, <2>2 DEF Resolvable, right
<1> QED BY <1>7, <1>8

\* A mapping that load_mapping returns is one the builder can use, once put right.
LEMMA LoadedIsPutRight ==
  ASSUME NEW file \in MappingFiles, LoadMapping(file) = "none"
  PROVE  Quality(file.entries) \in {"usable", "slipped"}
<1> DEFINE right == [n \in DOMAIN file.entries |-> PutRight(file.entries[n])]
<1>1. file.entries \in Seq(Entries)
  BY FilesAssumption
<1>2. \A n \in DOMAIN file.entries : file.entries[n] \in Entries
  BY <1>1
<1>3. PICK a \in DOMAIN file.entries : Anchors(file.entries) = {a}
  BY OneAnchor
<1>4. file.entries[a].anchor
  BY <1>3 DEF Anchors
<1>5. DOMAIN right = DOMAIN file.entries
      /\ \A n \in DOMAIN file.entries : right[n] = PutRight(file.entries[n])
  OBVIOUS
<1> HIDE DEF right
<1>6. ASSUME NEW n \in DOMAIN file.entries
      PROVE  Resolvable(right[n]) /\ right[n].anchor = file.entries[n].anchor
  BY <1>2, <1>5, NoneRejected, EntryIsPutRight
<1>7. Anchors(right) = {a}
  BY <1>3, <1>5, <1>6 DEF Anchors
<1>8. /\ right[a].period = "duration" /\ right[a].tags = "list" /\ right[a].unit
      /\ right[a].compose = "none"
  BY <1>2, <1>4, <1>5, NoneRejected, EntryIsPutRight
<1>9. Usable(right)
  <2>1. \A n \in DOMAIN right : Resolvable(right[n])
    BY <1>5, <1>6
  <2> QED BY <1>3, <1>5, <1>7, <1>8, <2>1, Zenon DEF Usable, Resolvable
<1> QED BY <1>9, Zenon DEF Quality, right

\* Of the rates that load_settings returns, all are fine but one that is no number.
LEMMA LoadedRate ==
  ASSUME NEW loaded \in Loaded, loaded.error = "none"
  PROVE  loaded.rate \in {"fine", "nan"}
<1>1. PICK project \in Configs, user \in Configs :
        LET file == FindConfigFile(project, user)
        IN  /\ loaded.error = LoadSettings(file)
            /\ loaded.rate = IF file.value["rate_limit_rps"] = "absent" THEN "fine"
                             ELSE file.value["rate_limit_rps"]
  BY DEF Loaded
<1>2. PICK file \in Configs :
        /\ LoadSettings(file) = "none"
        /\ loaded.rate = IF file.value["rate_limit_rps"] = "absent" THEN "fine"
                         ELSE file.value["rate_limit_rps"]
  BY <1>1 DEF FindConfigFile
<1> DEFINE checks == Checks(file)
           raised == {n \in DOMAIN checks : checks[n] # "none"}
<1>3. DOMAIN checks = 1..8 /\ checks[7] = RateLimit(file.value["rate_limit_rps"])
  BY DEF Checks
<1>4. raised # {} => checks[Min(raised)] = "none"
  BY <1>2 DEF LoadSettings
<1>5. raised = {}
  <2>1. raised \subseteq Nat /\ \A n \in raised : checks[n] # "none"
    BY <1>3
  <2> HIDE DEF checks, raised
  <2> QED BY <1>4, <2>1, LeastIsIn
<1>6. RateLimit(file.value["rate_limit_rps"]) = "none"
  <2> HIDE DEF checks
  <2> QED BY <1>3, <1>5
<1>7. file.value["rate_limit_rps"] \in
        {"fine", "absent", "wrong", "above", "infinite", "nan", "huge"}
  BY FilesAssumption DEF Keys, Classes
<1>8. file.value["rate_limit_rps"] \in {"fine", "absent", "nan"}
  BY <1>6, <1>7 DEF RateLimit, CoercePositiveNumber
<1> QED BY <1>2, <1>8

-----------------------------------------------------------------------------
(* Types, and what a run has loaded. *)

Stages == {"off", "configure", "prepare", "build", "exited"} \cup Fetches
Entry == [version : Nat, validated : Nat \ {0}, url : Urls]

\* a rate that is no number is found out before anything is asked of SEC, and a
\* run that ends well has loaded a mapping
Loads ==
  /\ run.stage \in Stages
  /\ run.rate \in {"none", "fine", "nan"} /\ (run.asked > 0 => run.rate # "nan")
  /\ run.mapping \in {"none", "usable", "slipped"}
  /\ At("exited") /\ run.cause = "nothing" => run.mapping # "none"

TypeInv ==
  /\ clock \in 1..MaxTime /\ runs \in 0..MaxRuns
  /\ \A u \in Urls : stored[u] \in {None, Damaged} \cup Entry
  /\ Loads

LEMMA RaiseLoads ==
  ASSUME IInv, Loads, NEW error, NEW cause, NEW clauses, Raise(error, cause, clauses),
         cause # "nothing"
  PROVE  Loads'
<1> DEFINE code == Code(clauses, error)
<1>1. run' = [run EXCEPT !.stage = "exited", !.exit = code, !.cause = cause, !.asked = 0]
  BY DEF Raise
<1> HIDE DEF code
<1>2. /\ run'.stage = "exited" /\ run'.asked = 0 /\ run'.cause = cause
      /\ run'.rate = run.rate /\ run'.mapping = run.mapping
  BY <1>1 DEF IInv, RunInv, RunTyped, Fields
<1> QED BY <1>2 DEF Loads, Stages

LEMMA ReceiveLoads ==
  ASSUME IInv, Loads, NEW version, NEW url, NEW now, Receive(version, url, now)
  PROVE  Loads'
<1> DEFINE got == [run.got EXCEPT ![run.stage] =
                     [version |-> version, url |-> url, now |-> now]]
           read == [run EXCEPT !.asked = 0, !.got = got]
           number == ResolveCik(Listings[version], run.named.spelling)
<1>1. \/ \E code, cause : /\ cause # "nothing"
                           /\ run' = [read EXCEPT !.stage = "exited", !.exit = code, !.cause = cause]
      \/ run' = [read EXCEPT !.stage = "submissions", !.cik = PadCik(Written(number, FALSE))]
      \/ run' = [read EXCEPT !.stage = "companyfacts"]
      \/ run' = [read EXCEPT !.stage = "build"]
  BY DEF Receive
<1> HIDE DEF got, number
<1>2. /\ DOMAIN read = Fields /\ read.asked = 0
      /\ read.rate = run.rate /\ read.mapping = run.mapping
  BY DEF IInv, RunInv, RunTyped, Fields
<1> HIDE DEF read
<1>3. /\ run'.stage \in {"exited", "submissions", "companyfacts", "build"}
      /\ run'.asked = 0 /\ run'.rate = run.rate /\ run'.mapping = run.mapping
      /\ run'.stage = "exited" => run'.cause # "nothing"
  BY <1>1, <1>2 DEF Fields
<1> QED BY <1>3 DEF Loads, Stages, Fetches, At

LEMMA OffLoads == ASSUME run = Off PROVE Loads
BY DEF Off, Loads, Stages, At

LEMMA InitType == Init => TypeInv
<1> SUFFICES ASSUME Init PROVE TypeInv
  OBVIOUS
<1>1. Loads
  BY OffLoads DEF Init
<1> QED BY <1>1, CliAssumption DEF Init, TypeInv

LEMMA BeginLoads == ASSUME Begin PROVE Loads'
<1>1. DOMAIN Off = Fields /\ Off.rate = "none" /\ Off.asked = 0 /\ Off.mapping = "none"
  BY DEF Off, Fields
<1>2. CASE \E named \in Named, use, force \in BOOLEAN :
             run' = [Off EXCEPT !.stage = "configure", !.named = named, !.use = use,
                                !.force = force, !.began = clock]
  <2>1. run'.stage = "configure" /\ run'.rate = "none" /\ run'.asked = 0 /\ run'.mapping = "none"
    BY <1>1, <1>2 DEF Fields
  <2> QED BY <2>1 DEF Loads, Stages, At
<1>3. CASE run' = [Off EXCEPT !.stage = "exited", !.exit = 2, !.cause = "usage"]
  <2>1. run'.stage = "exited" /\ run'.rate = "none" /\ run'.asked = 0 /\ run'.mapping = "none"
        /\ run'.cause = "usage"
    BY <1>1, <1>3 DEF Fields
  <2> QED BY <2>1 DEF Loads, Stages
<1> QED BY <1>2, <1>3 DEF Begin

LEMMA ConfigureLoads == ASSUME IInv, Loads, Configure PROVE Loads'
<1>1. PICK loaded \in Loaded :
        IF loaded.error # "none" THEN Raise(loaded.error, "config", ConfigClauses)
        ELSE \/ run' = [run EXCEPT !.stage = "prepare", !.rate = loaded.rate]
             \/ Raise("RuntimeError", "out", <<>>)
  BY DEF Configure
<1>2. CASE loaded.error = "none" /\ run' = [run EXCEPT !.stage = "prepare", !.rate = loaded.rate]
  <2>1. loaded.rate \in {"fine", "nan"}
    BY <1>2, LoadedRate
  <2>2. run.asked = 0
    BY DEF Configure, At, IInv, RunInv, RunTyped, RunRecent, AtFetch, Fetches
  <2>3. /\ run'.stage = "prepare" /\ run'.asked = 0 /\ run'.rate = loaded.rate
        /\ run'.mapping = run.mapping
    BY <1>2, <2>2 DEF IInv, RunInv, RunTyped, Fields
  <2> QED BY <2>1, <2>3 DEF Loads, Stages, At
<1> QED BY <1>1, <1>2, RaiseLoads

LEMMA PrepareLoads == ASSUME IInv, Loads, Prepare PROVE Loads'
<1> DEFINE cik == PadCik(run.named.cik)
<1>1. CASE \/ run' = [run EXCEPT !.stage = "submissions", !.cik = cik]
           \/ run' = [run EXCEPT !.stage = "company_tickers"]
  <2> HIDE DEF cik
  <2>1. /\ run'.stage \in {"submissions", "company_tickers"} /\ run'.asked = run.asked
        /\ run'.rate = run.rate /\ run'.mapping = run.mapping
    BY <1>1 DEF IInv, RunInv, RunTyped, Fields
  <2> QED BY <2>1 DEF Loads, Stages, Fetches, At
<1> QED BY <1>1, RaiseLoads DEF Prepare

LEMMA LookupLoads == ASSUME IInv, Loads, Lookup PROVE Loads'
<1>1. \/ \E error, cause, clauses : cause # "nothing" /\ Raise(error, cause, clauses)
      \/ \E version, url, now : Receive(version, url, now)
      \/ run.rate # "nan" /\ run' = [run EXCEPT !.asked = clock]
  BY Zenon DEF Lookup
<1>2. CASE run.rate # "nan" /\ run' = [run EXCEPT !.asked = clock]
  <2>1. run'.stage = run.stage /\ run'.rate = run.rate /\ run'.mapping = run.mapping
        /\ run'.cause = run.cause
    BY <1>2 DEF IInv, RunInv, RunTyped, Fields
  <2> QED BY <1>2, <2>1 DEF Loads, At
<1> QED BY <1>1, <1>2, RaiseLoads, ReceiveLoads

\* a mapping is used if it was accepted
LEMMA BuildLoads == ASSUME IInv, Loads, Build PROVE Loads'
<1>1. CASE \E loaded \in LoadedMappings :
             /\ loaded.error = "none"
             /\ run' = [run EXCEPT !.stage = "exited", !.mapping = loaded.quality]
  <2>1. PICK loaded \in LoadedMappings :
          /\ loaded.error = "none"
          /\ run' = [run EXCEPT !.stage = "exited", !.mapping = loaded.quality]
    BY <1>1
  <2>2. PICK file \in MappingFiles :
          loaded = [error |-> LoadMapping(file), quality |-> Quality(file.entries),
                    composed |-> \E n \in Anchors(file.entries) : file.entries[n].compose # "none"]
    BY Zenon DEF LoadedMappings
  <2>3. LoadMapping(file) = "none" /\ loaded.quality = Quality(file.entries)
    <3> DEFINE error == LoadMapping(file)
               quality == Quality(file.entries)
               composed == \E n \in Anchors(file.entries) : file.entries[n].compose # "none"
    <3>1. loaded = [error |-> error, quality |-> quality, composed |-> composed]
          /\ loaded.error = "none"
      BY <2>1, <2>2
    <3> HIDE DEF error, quality, composed
    <3>2. error = "none" /\ loaded.quality = quality
      BY <3>1
    <3> QED BY <3>2 DEF error, quality
  <2>4. loaded.quality \in {"usable", "slipped"}
    BY <2>3, LoadedIsPutRight, Zenon
  <2>5. /\ run'.stage = "exited" /\ run'.mapping \in {"usable", "slipped"}
        /\ run'.rate = run.rate /\ run'.asked = run.asked
    BY <2>1, <2>4 DEF IInv, RunInv, RunTyped, Fields
  <2> QED BY <2>5 DEF Loads, Stages
<1>2. CASE \E error, cause, clauses : cause # "nothing" /\ Raise(error, cause, clauses)
  BY <1>2, RaiseLoads
<1>3. \/ \E loaded \in LoadedMappings :
           /\ loaded.error = "none"
           /\ run' = [run EXCEPT !.stage = "exited", !.mapping = loaded.quality]
      \/ \E error, cause, clauses : cause # "nothing" /\ Raise(error, cause, clauses)
  BY Zenon DEF Build
<1> QED BY <1>1, <1>2, <1>3

\* what SEC sends is kept with the time it was asked for
LEMMA AnswerKeeps ==
  ASSUME IInv, TypeInv, Answer
  PROVE  \A u \in Urls : stored'[u] \in {None, Damaged} \cup Entry
<1>1. PICK v \in 1..Len(published[Wanted]) :
        stored' = IF run.use
                  THEN [stored EXCEPT ![CacheKey(Wanted)] = EntryFor(v, run.asked)]
                  ELSE stored
  BY DEF Answer
<1>2. Wanted \in Urls /\ run.asked \in Nat \ {0} /\ v \in Nat
  BY WantedIsUrl DEF Answer, IInv, TimesInv, RunInv, RunTyped, RunRecent
<1>3. EntryFor(v, run.asked) \in Entry
  BY <1>2 DEF EntryFor, Entry
<1> QED BY <1>1, <1>2, <1>3 DEF IInv, StoredInv, TypeInv, CacheKey

LEMMA NextType == ASSUME IInv, TypeInv, [Next]_vars PROVE TypeInv'
<1> Loads
  BY DEF TypeInv
<1>1. CASE Begin
  <2>1. UNCHANGED <<clock, stored>> /\ runs' = runs + 1 /\ runs < MaxRuns
    BY <1>1 DEF Begin
  <2>2. Loads'
    BY <1>1, BeginLoads
  <2> QED BY <2>1, <2>2, CliAssumption DEF TypeInv
<1>2. CASE Configure \/ Prepare \/ Lookup \/ StoreFails \/ SecFails \/ Build
  <2>1. RunOnly
    BY <1>2 DEF Configure, Prepare, Lookup, StoreFails, SecFails, Build
  <2>2. ASSUME StoreFails \/ SecFails PROVE Loads'
    <3>1. \E error, cause : cause # "nothing" /\ Raise(error, cause, SecClauses)
      BY <2>2, Zenon DEF StoreFails, SecFails
    <3> QED BY <3>1, RaiseLoads
  <2>3. ASSUME Configure \/ Prepare \/ Lookup \/ Build PROVE Loads'
    BY <2>3, ConfigureLoads, PrepareLoads, LookupLoads, BuildLoads
  <2>4. Loads'
    BY <1>2, <2>2, <2>3
  <2> QED BY <2>1, <2>4 DEF RunOnly, TypeInv
<1>3. CASE Answer
  <2>1. \E version, url, now : Receive(version, url, now)
    BY <1>3, Zenon DEF Answer
  <2>2. Loads'
    BY <2>1, ReceiveLoads
  <2> QED BY <1>3, <2>2, AnswerKeeps DEF TypeInv, Answer
<1>4. CASE Crash \/ Return
  <2>1. run' = Off /\ UNCHANGED <<clock, stored, runs>>
    BY <1>4 DEF Crash, Return, RunOnly
  <2>2. Loads'
    BY <2>1 DEF Off, Loads, Stages, At
  <2> QED BY <2>1, <2>2 DEF TypeInv
<1>5. CASE LoseEntry
  <2>1. UNCHANGED <<clock, run, runs>>
    BY <1>5 DEF LoseEntry
  <2>2. \A u \in Urls : stored'[u] \in {None, Damaged} \cup Entry
    BY <1>5 DEF LoseEntry, CacheKey, IInv, StoredInv, TypeInv
  <2> QED BY <2>1, <2>2 DEF TypeInv, Loads, At
<1>6. CASE Tick
  BY <1>6, CliAssumption DEF Tick, TypeInv, Loads, At
<1>7. CASE Publish \/ UNCHANGED vars
  BY <1>7 DEF Publish, vars, TypeInv, Loads, At
<1> QED BY <1>1, <1>2, <1>3, <1>4, <1>5, <1>6, <1>7 DEF Next, Step

LEMMA AlwaysTypeInv == Spec => [](IInv /\ TypeInv)
<1>1. Init => IInv /\ TypeInv
  BY InitIInv, InitType
<1>2. IInv /\ TypeInv /\ [Next]_vars => (IInv /\ TypeInv)'
  BY NextIInv, NextType
<1> QED BY <1>1, <1>2, PTL DEF Spec

\* Every variable of the runs keeps its type for any companies, ticker maps and
\* files: in particular a run with a rate that is no number never asks SEC.
THEOREM TypeCorrect == Spec => []TypeOK
<1>1. IInv /\ TypeInv => TypeOK
  <2> SUFFICES ASSUME IInv, TypeInv PROVE TypeOK
    OBVIOUS
  <2>1. ASSUME NEW u \in Urls
        PROVE  stored[u] \in {None, Damaged} \cup
                 [version : 1..Len(published[u]), validated : 1..clock, url : Urls]
    <3>1. CASE stored[u] \notin {None, Damaged}
      <4>1. stored[u] \in Entry
        BY <3>1 DEF TypeInv
      <4>2. stored[u].validated \in 1..clock /\ stored[u].version \in 1..Len(published[u])
        BY <3>1, <4>1 DEF IInv, StoredInv, TimesInv, Alive, Entry
      <4> QED BY <4>1, <4>2 DEF Entry
    <3> QED BY <3>1
  <2>2. run.asked > 0 => AtFetch /\ run.rate # "nan" /\ run.asked \in run.began..clock
    BY DEF IInv, TimesInv, RunInv, RunTyped, RunRecent, TypeInv, Loads
  <2>3. run.stage \in {"submissions", "companyfacts", "build"} => run.cik.padded
    BY DEF IInv, RunInv, RunAims, Padded
  <2> QED BY <2>1, <2>2, <2>3 DEF TypeInv, Loads, Stages, TypeOK
<1> QED BY <1>1, AlwaysTypeInv, PTL

\* Whatever the mapping files hold, a run that reports has built its report over
\* a mapping the builder can use, or that one of the two slips of PutRight keeps
\* from being one (load_mapping, statements.py:167-263).
THEOREM OnlySlipsAreEverReported == Spec => []OnlySlipsAreReported
<1>1. TypeInv /\ ExitInv => OnlySlipsAreReported
  BY DEF TypeInv, Loads, ExitInv, ExitTellsWhatHappened, Exited, OnlySlipsAreReported
<1> QED BY <1>1, AlwaysTypeInv, AlwaysExitInv, PTL

-----------------------------------------------------------------------------
(* Every document is read as module Document says.  A run holds at most one *)
(* document of each URL and holds none of the URL it is about to fetch, so  *)
(* its fetches appear in Document one after the other.                      *)

Fetching ==
  /\ run.use \in BOOLEAN /\ run.force \in BOOLEAN
  /\ AtFetch => run.got[run.stage] = None
  /\ At("submissions") => run.got["companyfacts"] = None

LEMMA RaiseIs ==
  ASSUME IInv, NEW error, NEW cause, NEW clauses, Raise(error, cause, clauses)
  PROVE  /\ run'.stage = "exited" /\ run'.asked = 0 /\ run'.got = run.got
         /\ run'.use = run.use /\ run'.force = run.force
<1> DEFINE code == Code(clauses, error)
<1>1. run' = [run EXCEPT !.stage = "exited", !.exit = code, !.cause = cause, !.asked = 0]
  BY DEF Raise
<1> HIDE DEF code
<1> QED BY <1>1 DEF IInv, RunInv, RunTyped, Fields

LEMMA ReceiveIs ==
  ASSUME IInv, AtFetch, NEW version, NEW url, NEW now, Receive(version, url, now)
  PROVE  /\ run'.got = [run.got EXCEPT ![run.stage] =
                          [version |-> version, url |-> url, now |-> now]]
         /\ run'.asked = 0 /\ run'.use = run.use /\ run'.force = run.force
         /\ \/ run'.stage = "exited"
            \/ At("company_tickers") /\ run'.stage = "submissions"
            \/ At("submissions") /\ run'.stage = "companyfacts"
            \/ At("companyfacts") /\ run'.stage = "build"
<1> DEFINE got == [run.got EXCEPT ![run.stage] =
                     [version |-> version, url |-> url, now |-> now]]
           read == [run EXCEPT !.asked = 0, !.got = got]
           number == ResolveCik(Listings[version], run.named.spelling)
<1>1. \/ \E code, cause : run' = [read EXCEPT !.stage = "exited", !.exit = code, !.cause = cause]
      \/ /\ At("company_tickers")
         /\ run' = [read EXCEPT !.stage = "submissions", !.cik = PadCik(Written(number, FALSE))]
      \/ At("submissions") /\ run' = [read EXCEPT !.stage = "companyfacts"]
      \/ At("companyfacts") /\ run' = [read EXCEPT !.stage = "build"]
  BY DEF Receive
<1> HIDE DEF got, number
<1>2. /\ DOMAIN read = Fields /\ read.asked = 0 /\ read.got = got
      /\ read.use = run.use /\ read.force = run.force
  BY DEF IInv, RunInv, RunTyped, Fields
<1> HIDE DEF read
<1>3. run'.got = got /\ run'.asked = 0 /\ run'.use = run.use /\ run'.force = run.force
      /\ \/ run'.stage = "exited"
         \/ At("company_tickers") /\ run'.stage = "submissions"
         \/ At("submissions") /\ run'.stage = "companyfacts"
         \/ At("companyfacts") /\ run'.stage = "build"
  BY <1>1, <1>2 DEF Fields
<1> QED BY <1>3 DEF got

\* the other steps of a run
LEMMA MovesIs ==
  ASSUME IInv, NEW stage, NEW rate, NEW cik, NEW quality,
         \/ run' = [run EXCEPT !.stage = stage, !.rate = rate]
         \/ run' = [run EXCEPT !.stage = stage, !.cik = cik]
         \/ run' = [run EXCEPT !.stage = stage]
         \/ run' = [run EXCEPT !.stage = stage, !.mapping = quality]
  PROVE  /\ run'.stage = stage /\ run'.asked = run.asked /\ run'.got = run.got
         /\ run'.use = run.use /\ run'.force = run.force
BY DEF IInv, RunInv, RunTyped, Fields

LEMMA ConfigureIs ==
  ASSUME IInv, Configure
  PROVE  /\ run'.stage \in {"prepare", "exited"} /\ run'.asked = 0 /\ run'.got = run.got
         /\ run'.use = run.use /\ run'.force = run.force
<1>1. run.asked = 0
  BY DEF Configure, At, IInv, RunInv, RunTyped, RunRecent, AtFetch, Fetches
<1>2. \/ \E error, cause, clauses : Raise(error, cause, clauses)
      \/ \E rate : run' = [run EXCEPT !.stage = "prepare", !.rate = rate]
  BY Zenon DEF Configure
<1>3. CASE \E rate : run' = [run EXCEPT !.stage = "prepare", !.rate = rate]
  BY <1>1, <1>3, MovesIs
<1> QED BY <1>2, <1>3, RaiseIs

LEMMA PrepareIs ==
  ASSUME IInv, Prepare
  PROVE  /\ run'.stage \in {"submissions", "company_tickers", "exited"}
         /\ run'.asked = 0 /\ run'.got = run.got
         /\ run'.use = run.use /\ run'.force = run.force
<1>1. run.asked = 0
  BY DEF Prepare, At, IInv, RunInv, RunTyped, RunRecent, AtFetch, Fetches
<1>2. \/ Raise("ConfigError", "directory", ConfigClauses)
      \/ \E cik : run' = [run EXCEPT !.stage = "submissions", !.cik = cik]
      \/ run' = [run EXCEPT !.stage = "company_tickers"]
  BY Zenon DEF Prepare
<1>3. CASE \E cik : run' = [run EXCEPT !.stage = "submissions", !.cik = cik]
  BY <1>1, <1>3, MovesIs
<1>4. CASE run' = [run EXCEPT !.stage = "company_tickers"]
  BY <1>1, <1>4, MovesIs
<1> QED BY <1>2, <1>3, <1>4, RaiseIs

LEMMA BuildIs ==
  ASSUME IInv, Build
  PROVE  /\ run'.stage = "exited" /\ run'.asked = 0 /\ run'.got = run.got
         /\ run'.use = run.use /\ run'.force = run.force
<1>1. run.asked = 0
  <2>1. run.stage = "build"
    BY DEF Build, At
  <2> QED BY <2>1 DEF IInv, RunInv, RunTyped, RunRecent, AtFetch, Fetches
<1>2. \/ \E error, cause, clauses : Raise(error, cause, clauses)
      \/ \E quality : run' = [run EXCEPT !.stage = "exited", !.mapping = quality]
  BY Zenon DEF Build
<1>3. CASE \E quality : run' = [run EXCEPT !.stage = "exited", !.mapping = quality]
  BY <1>1, <1>3, MovesIs
<1> QED BY <1>2, <1>3, RaiseIs

LEMMA BeginIs ==
  ASSUME Begin
  PROVE  /\ run'.stage \in {"configure", "exited"} /\ run'.asked = 0 /\ run'.got = Off.got
         /\ run'.use \in BOOLEAN /\ run'.force \in BOOLEAN
<1>1. DOMAIN Off = Fields /\ Off.asked = 0 /\ Off.use = FALSE /\ Off.force = FALSE
  BY DEF Off, Fields
<1>2. CASE \E named \in Named, use, force \in BOOLEAN :
             run' = [Off EXCEPT !.stage = "configure", !.named = named, !.use = use,
                                !.force = force, !.began = clock]
  BY <1>1, <1>2 DEF Fields
<1>3. CASE run' = [Off EXCEPT !.stage = "exited", !.exit = 2, !.cause = "usage"]
  BY <1>1, <1>3 DEF Fields
<1> QED BY <1>2, <1>3 DEF Begin

LEMMA OffFetching == ASSUME run = Off PROVE Fetching
BY DEF Off, Fetching, At, AtFetch, Fetches

LEMMA NextFetching == ASSUME IInv, Fetching, [Next]_vars PROVE Fetching'
<1>1. CASE Begin
  BY <1>1, BeginIs DEF Fetching, At, AtFetch, Fetches
<1>2. CASE Configure \/ Build \/ \E error, cause, clauses : Raise(error, cause, clauses)
  BY <1>2, ConfigureIs, BuildIs, RaiseIs DEF Fetching, At, AtFetch, Fetches
<1>3. CASE Prepare
  <2>1. \A f \in Fetches : run.got[f] = None
    BY <1>3 DEF Prepare, At, IInv, RunInv, RunAims
  <2> QED BY <1>3, <2>1, PrepareIs DEF Fetching, At, AtFetch, Fetches
<1>4. ASSUME AtFetch, NEW version, NEW url, NEW now, Receive(version, url, now)
      PROVE  Fetching'
  <2>1. At("company_tickers") => \A f \in Fetches : run.got[f] = None
    BY DEF At, IInv, RunInv, RunAims
  <2>2. DOMAIN run.got = Fetches
    BY DEF IInv, RunInv, RunTyped
  <2>3. \A f \in Fetches : f # run.stage => run'.got[f] = run.got[f]
    BY <1>4, <2>2, ReceiveIs
  <2> QED BY <1>4, <2>1, <2>3, ReceiveIs DEF Fetching, At, AtFetch, Fetches
<1>5. CASE run' = [run EXCEPT !.asked = clock]
  <2>1. /\ run'.stage = run.stage /\ run'.got = run.got
        /\ run'.use = run.use /\ run'.force = run.force
    BY <1>5 DEF IInv, RunInv, RunTyped, Fields
  <2> QED BY <2>1 DEF Fetching, At, AtFetch
<1>6. CASE Lookup
  <2>1. AtFetch /\ \/ \E error, cause, clauses : Raise(error, cause, clauses)
                   \/ \E version, url, now : Receive(version, url, now)
                   \/ run' = [run EXCEPT !.asked = clock]
    BY <1>6, Zenon DEF Lookup
  <2> QED BY <2>1, <1>2, <1>4, <1>5
<1>7. CASE Answer
  <2>1. AtFetch /\ \E version, url, now : Receive(version, url, now)
    BY <1>7, Zenon DEF Answer, IInv, RunInv, RunRecent
  <2> QED BY <2>1, <1>4
<1>8. CASE StoreFails \/ SecFails
  <2>1. \E error, cause, clauses : Raise(error, cause, clauses)
    BY <1>8, Zenon DEF StoreFails, SecFails
  <2> QED BY <2>1, <1>2
<1>9. CASE Crash \/ Return
  <2>1. run' = Off
    BY <1>9 DEF Crash, Return
  <2> QED BY <2>1 DEF Off, Fetching, At, AtFetch, Fetches
<1>10. CASE LoseEntry \/ Tick \/ Publish \/ UNCHANGED vars
  <2>1. run' = run
    BY <1>10 DEF LoseEntry, Tick, Publish, vars
  <2> QED BY <2>1 DEF Fetching, At, AtFetch
<1> QED BY <1>1, <1>2, <1>3, <1>6, <1>7, <1>8, <1>9, <1>10 DEF Next, Step

-----------------------------------------------------------------------------
(* What a step of Cli is in Document, for one URL. *)

DocStep(u) == UNCHANGED Doc(u)!vars \/ Doc(u)!Next

Around(u) == clock' = clock /\ published'[u] = published[u]

LEMMA DocStays ==
  ASSUME NEW u \in Urls, Around(u), Kept(u)' = Kept(u), Reading(u)' = Reading(u)
  PROVE  DocStep(u)
BY DEF DocStep, Around, Doc!vars

LEMMA DocLeaves ==
  ASSUME NEW u \in Urls, Around(u), Kept(u)' = Kept(u),
         Reading(u)' = Doc(u)!Idle, Reading(u) # Doc(u)!Idle
  PROVE  DocStep(u)
BY DEF DocStep, Around, Doc!Next, Doc!Leave

LEMMA DocServes ==
  ASSUME NEW u \in Urls, Around(u), Kept(u)' = Kept(u),
         Kept(u) # None, clock - Kept(u).validated < Ttl, Reading(u) = Doc(u)!Idle,
         Reading(u)' = Doc(u)!Has(Kept(u).version, clock, FALSE)
  PROVE  DocStep(u)
BY DEF DocStep, Around, Doc!Next, Doc!Serve, Doc!IsFresh

LEMMA DocAsks ==
  ASSUME NEW u \in Urls, Around(u), Kept(u)' = Kept(u), NEW insist \in BOOLEAN,
         insist \/ Kept(u) = None \/ ~(clock - Kept(u).validated < Ttl),
         Reading(u) = Doc(u)!Idle, Reading(u)' = Doc(u)!Asked(clock, insist)
  PROVE  DocStep(u)
BY DEF DocStep, Around, Doc!Next, Doc!Ask, Doc!IsFresh

LEMMA DocAnswers ==
  ASSUME NEW u \in Urls, Around(u), NEW t, NEW insist, NEW v \in 1..Len(published[u]),
         CurrentAtOrAfter(u, v, t), Reading(u) = Doc(u)!Asked(t, insist),
         Reading(u)' = Doc(u)!Has(v, t, insist),
         Kept(u)' \in {Kept(u), [version |-> v, validated |-> t]}
  PROVE  DocStep(u)
<1>1. Reading(u).stage = "asked" /\ Reading(u).now = t /\ Reading(u).insist = insist
  BY DEF Doc!Asked
<1>2. Doc(u)!CurrentAtOrAfter(v, t)
  BY DEF CurrentAtOrAfter, Doc!CurrentAtOrAfter
<1>3. Doc(u)!Answer("run")
  BY <1>1, <1>2 DEF Around, Doc!Answer
<1> QED BY <1>3 DEF DocStep, Doc!Next

LEMMA DocLoses ==
  ASSUME NEW u \in Urls, Around(u), Kept(u)' = None, Reading(u)' = Reading(u)
  PROVE  DocStep(u)
BY DEF DocStep, Around, Doc!Next, Doc!Lose

LEMMA DocTicks ==
  ASSUME NEW u \in Urls, clock' = clock + 1, published'[u] = published[u],
         Kept(u)' = Kept(u), Reading(u)' = Reading(u)
  PROVE  DocStep(u)
BY DEF DocStep, Doc!Next, Doc!Tick

LEMMA DocPublishes ==
  ASSUME NEW u \in Urls, clock' = clock, published'[u] = Append(published[u], clock),
         Kept(u)' = Kept(u), Reading(u)' = Reading(u)
  PROVE  DocStep(u)
BY DEF DocStep, Doc!Next, Doc!Publish

-----------------------------------------------------------------------------

\* a run holds at most one document of each kind, which its URL begins with
LEMMA UrlKind == ASSUME NEW u \in Urls PROVE u[1] \in Fetches
<1> DEFINE ciks == {Written(c, TRUE) : c \in Ciks}
<1>1. u = <<"company_tickers", None>> \/ u \in {"submissions", "companyfacts"} \X ciks
  BY DEF Urls, TickersUrl
<1> HIDE DEF ciks
<1> QED BY <1>1 DEF Fetches

LEMMA WantedKind == ASSUME AtFetch PROVE Wanted[1] = run.stage
BY DEF Wanted, TickersUrl, Url, At

LEMMA ReadingIdle ==
  ASSUME NEW u, ~(run.asked > 0 /\ Wanted = u), run.got[u[1]] = None
  PROVE  Reading(u) = Doc(u)!Idle
BY DEF Reading, Doc!Idle

\* a run that asks for nothing and changes neither what it holds nor its options
LEMMA ReadingStays ==
  ASSUME NEW u, ~(run.asked > 0 /\ Wanted = u), ~(run.asked > 0 /\ Wanted = u)',
         run'.got = run.got, Insists' = Insists
  PROVE  Reading(u)' = Reading(u)
BY DEF Reading

LEMMA KeptStays == ASSUME NEW u \in Urls, stored' = stored PROVE Kept(u)' = Kept(u)
BY DEF Kept

LEMMA RaiseDoc ==
  ASSUME IInv, Fetching, NEW u \in Urls, RunOnly, NEW error, NEW cause, NEW clauses,
         Raise(error, cause, clauses)
  PROVE  DocStep(u)
<1>1. Around(u) /\ Kept(u)' = Kept(u)
  BY KeptStays DEF Around, RunOnly
<1>2. run'.asked = 0 /\ run'.got = run.got /\ Insists' = Insists
  BY RaiseIs DEF Insists
<1>3. CASE run.asked > 0 /\ Wanted = u
  <2>1. run'.got[u[1]] = None
    BY <1>2, <1>3, WantedKind DEF Fetching, IInv, RunInv, RunRecent
  <2>2. Reading(u)' = Doc(u)!Idle
    BY <1>2, <2>1 DEF Reading, Doc!Idle
  <2>3. Reading(u).stage = "asked" /\ Doc(u)!Idle.stage = "idle"
    BY <1>3 DEF Reading, Doc!Idle
  <2> QED BY <1>1, <2>2, <2>3, DocLeaves
<1>4. CASE ~(run.asked > 0 /\ Wanted = u)
  <2>1. Reading(u)' = Reading(u)
    BY <1>2, <1>4, ReadingStays
  <2> QED BY <1>1, <2>1, DocStays
<1> QED BY <1>3, <1>4

\* a document that arrives
LEMMA ReceiveReading ==
  ASSUME IInv, Fetching, AtFetch, NEW u \in Urls, NEW version, NEW now,
         [version |-> version, url |-> Wanted, now |-> now] # None,
         Receive(version, Wanted, now)
  PROVE  /\ u = Wanted => Reading(u)' = Doc(u)!Has(version, now, Insists)
         /\ u # Wanted => Reading(u)' = Reading(u)
<1> DEFINE doc == [version |-> version, url |-> Wanted, now |-> now]
<1>1. /\ run'.got = [run.got EXCEPT ![run.stage] = doc] /\ run'.asked = 0
      /\ Insists' = Insists
  BY ReceiveIs DEF Insists
<1>2. /\ doc # None /\ doc.url = Wanted /\ doc.version = version /\ doc.now = now
      /\ DOMAIN run.got = Fetches /\ run.stage \in Fetches /\ run.got[run.stage] = None
  BY DEF IInv, RunInv, RunTyped, AtFetch, Fetching
<1> HIDE DEF doc
<1>3. run'.got[run.stage] = doc /\ \A f \in Fetches : f # run.stage => run'.got[f] = run.got[f]
  BY <1>1, <1>2
<1>4. CASE u = Wanted
  <2>1. run'.got[u[1]] = doc
    BY <1>3, <1>4, WantedKind
  <2>2. Reading(u)' = [stage |-> "has", version |-> version, now |-> now, insist |-> Insists]
    BY <1>1, <1>2, <1>4, <2>1 DEF Reading
  <2> QED BY <1>4, <2>2 DEF Doc!Has
<1>5. CASE u # Wanted
  <2>1. CASE u[1] # run.stage
    <3>1. u[1] \in Fetches
      BY UrlKind
    <3>2. run'.got[u[1]] = run.got[u[1]]
      BY <1>3, <2>1, <3>1
    <3> QED BY <1>1, <1>5, <3>2 DEF Reading
  <2>2. CASE u[1] = run.stage
    <3>1. run'.got[u[1]] = doc /\ run.got[u[1]] = None
      BY <1>2, <1>3, <2>2
    <3>2. Reading(u) = [stage |-> "idle"]
      BY <1>5, <3>1 DEF Reading
    <3>3. Reading(u)' = [stage |-> "idle"]
      BY <1>1, <1>2, <1>5, <3>1 DEF Reading
    <3> QED BY <1>5, <3>2, <3>3
  <2> QED BY <2>1, <2>2
<1> QED BY <1>4, <1>5

LEMMA LookupDoc ==
  ASSUME IInv, TypeInv, Fetching, NEW u \in Urls, Lookup
  PROVE  DocStep(u)
<1> DEFINE entry == IF run.use THEN stored[CacheKey(Wanted)] ELSE None
<1>1. /\ AtFetch /\ run.asked = 0 /\ RunOnly
      /\ \/ Raise("zlib_error", "cache", SecClauses)
         \/ IsServed(entry) /\ Receive(entry.version, entry.url, clock)
         \/ Raise("ValueError", "config", SecClauses)
         \/ ~IsServed(entry) /\ run' = [run EXCEPT !.asked = clock]
  BY DEF Lookup
<1>2. Around(u) /\ Kept(u)' = Kept(u)
  BY <1>1, KeptStays DEF Around, RunOnly
<1>3. Wanted \in Urls /\ run.got[Wanted[1]] = None
  BY <1>1, WantedIsUrl, WantedKind DEF IInv, Fetching
<1>4. Reading(Wanted) = Doc(Wanted)!Idle
  BY <1>1, <1>3, ReadingIdle
<1>5. CASE IsServed(entry) /\ Receive(entry.version, entry.url, clock)
  <2>1. run.use /\ entry = stored[Wanted] /\ entry \notin {None, Damaged} /\ ~run.force
        /\ clock - entry.validated < Ttl
    BY <1>5 DEF IsServed, CacheKey
  <2>2. entry.url = Wanted /\ entry.version \in Nat /\ entry.validated \in Nat /\ clock \in Nat
    BY <1>3, <2>1 DEF IInv, TimesInv, StoredInv, Alive
  <2> DEFINE doc == [version |-> entry.version, url |-> Wanted, now |-> clock]
  <2>3. doc # None
    BY <1>3, <2>2, NoneAssumption
  <2> HIDE DEF entry
  <2>4. /\ u = Wanted => Reading(u)' = Doc(u)!Has(entry.version, clock, Insists)
        /\ u # Wanted => Reading(u)' = Reading(u)
    BY <1>1, <1>5, <2>2, <2>3, ReceiveReading
  <2>5. CASE u = Wanted
    <3>1. Kept(u) = [version |-> entry.version, validated |-> entry.validated]
      BY <2>1, <2>5 DEF Kept
    <3>2. Kept(u) # None
      BY <2>2, <3>1, NoneAssumption
    <3>3. Insists = FALSE
      BY <2>1 DEF Insists, Fetching
    <3>4. Kept(u).version = entry.version /\ clock - Kept(u).validated < Ttl
      BY <2>1, <3>1
    <3> QED BY <1>2, <1>4, <2>4, <2>5, <3>2, <3>3, <3>4, DocServes
  <2>6. CASE u # Wanted
    BY <1>2, <2>4, <2>6, DocStays
  <2> QED BY <2>5, <2>6
<1>6. CASE ~IsServed(entry) /\ run' = [run EXCEPT !.asked = clock]
  <2>1. /\ run'.asked = clock /\ run'.stage = run.stage /\ run'.cik = run.cik
        /\ run'.got = run.got /\ run'.use = run.use /\ run'.force = run.force
    BY <1>6 DEF IInv, RunInv, RunTyped, Fields
  <2>2. Wanted' = Wanted /\ Insists' = Insists /\ Insists \in BOOLEAN
    BY <2>1 DEF Wanted, At, Insists, Fetching
  <2>3. CASE u = Wanted /\ clock > 0
    <3>1. Reading(u)' = Doc(u)!Asked(clock, Insists)
      BY <2>1, <2>2, <2>3 DEF Reading, Doc!Asked
    <3>2. Insists \/ Kept(u) = None \/ ~(clock - Kept(u).validated < Ttl)
      <4>1. CASE ~Insists
        <5>1. run.use /\ ~run.force /\ entry = stored[Wanted]
          BY <4>1 DEF Insists, CacheKey
        <5>2. entry \in {None, Damaged} \/ ~(clock - entry.validated < Ttl)
          BY <1>6, <5>1 DEF IsServed
        <5>3. Kept(u) = IF entry \in {None, Damaged} THEN None
                        ELSE [version |-> entry.version, validated |-> entry.validated]
          BY <2>3, <5>1 DEF Kept
        <5> QED BY <5>2, <5>3
      <4> QED BY <4>1
    <3> QED BY <1>2, <1>4, <2>2, <2>3, <3>1, <3>2, DocAsks
  <2>4. CASE u # Wanted
    <3>1. Reading(u)' = Reading(u)
      BY <2>1, <2>2, <2>4, ReadingStays
    <3> QED BY <1>2, <3>1, DocStays
  <2>5. clock > 0
    BY CliAssumption DEF TypeInv
  <2> QED BY <2>3, <2>4, <2>5
<1> QED BY <1>1, <1>5, <1>6, RaiseDoc

LEMMA AnswerDoc ==
  ASSUME IInv, Fetching, NEW u \in Urls, Answer
  PROVE  DocStep(u)
<1>1. PICK v \in 1..Len(published[Wanted]) :
        /\ CurrentAtOrAfter(Wanted, v, run.asked)
        /\ Receive(v, Wanted, run.asked)
        /\ stored' = IF run.use
                     THEN [stored EXCEPT ![CacheKey(Wanted)] = EntryFor(v, run.asked)]
                     ELSE stored
  BY DEF Answer
<1>2. /\ run.asked > 0 /\ AtFetch /\ Wanted \in Urls /\ run.asked \in Nat /\ v \in Nat
      /\ UNCHANGED <<clock, published>>
  BY WantedIsUrl DEF Answer, IInv, TimesInv, RunInv, RunTyped, RunRecent
<1>3. Around(u)
  BY <1>2 DEF Around
<1> DEFINE doc == [version |-> v, url |-> Wanted, now |-> run.asked]
<1>4. doc # None
  BY <1>2, NoneAssumption
<1> HIDE DEF doc
<1>5. /\ u = Wanted => Reading(u)' = Doc(u)!Has(v, run.asked, Insists)
      /\ u # Wanted => Reading(u)' = Reading(u)
  BY <1>1, <1>2, <1>4, ReceiveReading DEF doc
<1>6. CASE u = Wanted
  <2>1. Reading(u) = Doc(u)!Asked(run.asked, Insists)
    BY <1>2, <1>6 DEF Reading, Doc!Asked
  <2>2. Kept(u)' \in {Kept(u), [version |-> v, validated |-> run.asked]}
    <3>1. CASE stored' = stored
      BY <3>1, KeptStays
    <3>2. CASE stored' = [stored EXCEPT ![Wanted] = EntryFor(v, run.asked)]
      <4>1. stored'[u] = [version |-> v, validated |-> run.asked, url |-> Wanted]
        BY <1>2, <1>6, <3>2 DEF EntryFor, IInv, StoredInv
      <4>2. stored'[u] \notin {None, Damaged}
        BY <1>2, <4>1, NoneAssumption
      <4>3. Kept(u)' = [version |-> v, validated |-> run.asked]
        BY <4>1, <4>2 DEF Kept
      <4> QED BY <4>3
    <3> QED BY <1>1, <3>1, <3>2 DEF CacheKey
  <2> DEFINE t == run.asked
             insist == Insists
  <2>3. /\ v \in 1..Len(published[u]) /\ CurrentAtOrAfter(u, v, t)
        /\ Reading(u) = Doc(u)!Asked(t, insist) /\ Reading(u)' = Doc(u)!Has(v, t, insist)
        /\ Kept(u)' \in {Kept(u), [version |-> v, validated |-> t]}
    BY <1>1, <1>5, <1>6, <2>1, <2>2
  <2> HIDE DEF t, insist
  <2> QED BY <1>3, <2>3, DocAnswers
<1>7. CASE u # Wanted
  <2>1. Kept(u)' = Kept(u)
    <3>1. stored'[u] = stored[u]
      BY <1>1, <1>7 DEF CacheKey, IInv, StoredInv
    <3> QED BY <3>1 DEF Kept
  <2> QED BY <1>3, <1>5, <1>7, <2>1, DocStays
<1> QED BY <1>6, <1>7

\* a step of a run that has asked for nothing, and does not ask
LEMMA QuietDoc ==
  ASSUME IInv, NEW u \in Urls, RunOnly, run.asked = 0, run'.asked = 0, run'.got = run.got,
         run'.use = run.use, run'.force = run.force
  PROVE  DocStep(u)
<1>1. Reading(u)' = Reading(u)
  BY ReadingStays DEF Insists
<1>2. Around(u) /\ Kept(u)' = Kept(u)
  BY KeptStays DEF Around, RunOnly
<1> QED BY <1>1, <1>2, DocStays

\* a run that begins, and one that is over
LEMMA FreshRunDoc ==
  ASSUME IInv, NEW u \in Urls, UNCHANGED <<clock, published, stored>>, run'.asked = 0,
         run'.got = Off.got
  PROVE  DocStep(u)
<1>1. Around(u) /\ Kept(u)' = Kept(u)
  BY KeptStays DEF Around
<1>2. run'.got[u[1]] = None
  <2>1. u[1] \in Fetches
    BY UrlKind
  <2> QED BY <2>1, OffIs
<1>3. Reading(u)' = Doc(u)!Idle
  BY <1>2 DEF Reading, Doc!Idle
<1> QED BY <1>1, <1>3, DocStays, DocLeaves

LEMMA SurroundingsDoc ==
  ASSUME IInv, NEW u \in Urls, LoseEntry \/ Tick \/ Publish \/ UNCHANGED vars
  PROVE  DocStep(u)
<1>1. run' = run
  BY DEF LoseEntry, Tick, Publish, vars
<1>2. Reading(u)' = Reading(u)
  <2>1. Wanted' = Wanted /\ Insists' = Insists
    BY <1>1 DEF Wanted, At, Insists
  <2> QED BY <1>1, <2>1 DEF Reading
<1>3. CASE LoseEntry
  <2>1. Around(u) /\ (stored'[u] = stored[u] \/ stored'[u] \in {None, Damaged})
    BY <1>3 DEF LoseEntry, Around, CacheKey, IInv, StoredInv
  <2>2. Kept(u)' = Kept(u) \/ Kept(u)' = None
    BY <2>1 DEF Kept
  <2> QED BY <1>2, <2>1, <2>2, DocStays, DocLoses
<1>4. CASE Tick
  <2>1. clock' = clock + 1 /\ published'[u] = published[u] /\ stored' = stored
    BY <1>4 DEF Tick
  <2> QED BY <1>2, <2>1, KeptStays, DocTicks
<1>5. CASE Publish
  <2>1. clock' = clock /\ stored' = stored
    BY <1>5 DEF Publish
  <2>2. PICK w \in Urls : published' = [published EXCEPT ![w] = Append(@, clock)]
    BY <1>5 DEF Publish
  <2>3. CASE u = w
    <3>1. published'[u] = Append(published[u], clock)
      BY <2>2, <2>3 DEF IInv, TimesInv
    <3> QED BY <1>2, <2>1, <3>1, KeptStays, DocPublishes
  <2>4. CASE u # w
    <3>1. Around(u)
      BY <2>1, <2>2, <2>4 DEF Around, IInv, TimesInv
    <3> QED BY <1>2, <2>1, <3>1, KeptStays, DocStays
  <2> QED BY <2>3, <2>4
<1>6. CASE UNCHANGED vars
  <2>1. Around(u) /\ stored' = stored
    BY <1>6 DEF vars, Around
  <2> QED BY <1>2, <2>1, KeptStays, DocStays
<1> QED BY <1>3, <1>4, <1>5, <1>6

LEMMA NextDoc ==
  ASSUME IInv, TypeInv, Fetching, [Next]_vars, NEW u \in Urls
  PROVE  DocStep(u)
<1>1. CASE Begin
  <2>1. UNCHANGED <<clock, published, stored>>
    BY <1>1 DEF Begin
  <2> QED BY <1>1, <2>1, BeginIs, FreshRunDoc
<1>2. CASE Configure \/ Prepare \/ Build
  <2>1. RunOnly /\ run.stage \in {"configure", "prepare", "build"}
    BY <1>2 DEF Configure, Prepare, Build, At
  <2>2. run.asked = 0
    BY <2>1 DEF IInv, RunInv, RunTyped, RunRecent, AtFetch, Fetches
  <2> QED BY <1>2, <2>1, <2>2, ConfigureIs, PrepareIs, BuildIs, QuietDoc
<1>3. CASE StoreFails \/ SecFails
  <2>1. RunOnly /\ \E error, cause : Raise(error, cause, SecClauses)
    BY <1>3, Zenon DEF StoreFails, SecFails
  <2> QED BY <2>1, RaiseDoc
<1>4. CASE Crash \/ Return
  <2>1. run' = Off /\ UNCHANGED <<clock, published, stored>>
    BY <1>4 DEF Crash, Return, RunOnly
  <2>2. run'.asked = 0 /\ run'.got = Off.got
    BY <2>1, OffIs
  <2> QED BY <2>1, <2>2, FreshRunDoc
<1> QED BY <1>1, <1>2, <1>3, <1>4, LookupDoc, AnswerDoc, SurroundingsDoc DEF Next, Step

LEMMA InitDoc == ASSUME Init, NEW u \in Urls PROVE Doc(u)!Init
<1>1. run.got[u[1]] = None /\ run.asked = 0
  <2>1. u[1] \in Fetches
    BY UrlKind
  <2> QED BY <2>1, OffIs DEF Init
<1>2. Reading(u) = Doc(u)!Idle
  BY <1>1, ReadingIdle
<1>3. Kept(u) = None
  BY DEF Init, Kept
<1> QED BY <1>2, <1>3 DEF Init, Doc!Init

\* For any companies, ticker maps, files and runs over one cache, every document
\* is read as module Document says, which is what SecClient is proved to provide.
THEOREM RunsImplementDocuments == Spec => ImplementsDocuments
<1>1. Init => \A u \in Urls : Doc(u)!Init
  BY InitDoc
<1>2. Init => Fetching
  BY OffFetching DEF Init
<1>3. IInv /\ TypeInv /\ Fetching /\ [Next]_vars
        => [\A u \in Urls : UNCHANGED Doc(u)!vars \/ Doc(u)!Next]_vars
  BY NextDoc DEF DocStep
<1>4. IInv /\ Fetching /\ [Next]_vars => Fetching'
  BY NextFetching
<1> QED BY <1>1, <1>2, <1>3, <1>4, AlwaysTypeInv, PTL DEF Spec, ImplementsDocuments
=============================================================================
