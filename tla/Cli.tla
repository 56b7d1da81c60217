-------------------------------- MODULE Cli --------------------------------
(***************************************************************************)
(* main() of src/fsa/cli.py and the endpoints of src/fsa/sec/endpoints.py: *)
(* one run after the other, each for a company named by its ticker or its  *)
(* CIK, each killed at any point or failing at any stage, over one cache.  *)
(* SEC replaces its documents meanwhile, the ticker map included.          *)
(*                                                                         *)
(* Every fetch is a read of module Document, which SecClient implements:   *)
(* a lookup that serves or asks, and an answer or an error at any time     *)
(* later.  Building the model is one step here (module Statements), whose  *)
(* mapping file is one of Mapping and whose settings come from Config.     *)
(***************************************************************************)
EXTENDS Integers, Sequences, Config, Mapping

CONSTANTS
  None,
  Damaged,       \* a cache file that cannot be read
  Ciks,          \* companies
  Listings,      \* Listings[v]: version v of the ticker map, spelling -> CIK or None
  Ttl,           \* cache_ttl_hours
  Configs,       \* configuration files, as Config describes them
  MappingFiles,  \* mapping files, as Mapping describes them
  Named,         \* what --ticker or --cik names
  Changing,      \* kinds of documents that SEC replaces
  MaxTime, MaxVersions, MaxRuns   \* bounds of the model

ASSUME CliAssumption ==
  /\ {MaxTime, MaxVersions} \subseteq Nat \ {0} /\ {Ttl, MaxRuns} \subseteq Nat
  /\ None \notin Ciks
  /\ Listings \in [1..MaxVersions -> [{"plain", "dot", "hyphen"} -> Ciks \cup {None}]]
ASSUME NamedAssumption ==
  \A named \in Named :
    \/ named.by = "ticker" /\ named.spelling \in {"plain", "dot", "hyphen"}
    \/ named.by = "cik" /\ named.cik \in [number : Ciks, padded : BOOLEAN]
ASSUME FilesAssumption ==
  /\ \A file \in Configs : \A key \in Keys : file.value[key] \in Classes(key)
  /\ \A file \in MappingFiles : file.entries \in Seq(Entries)

VARIABLES
  clock,
  published,  \* published[u][v]: when version v of the document at u came out
  stored,     \* the cache: key -> entry, None, or Damaged
  run,        \* the process
  runs        \* runs begun, bounded by MaxRuns

vars == <<clock, published, stored, run, runs>>

-----------------------------------------------------------------------------
(* Companies, documents and exit codes. *)

\* A CIK as it is written; _cik_type and _pad_cik add the zeros.
Written(number, padded) == [number |-> number, padded |-> padded]
PadCik(cik) == Written(cik.number, TRUE)

Url(kind, cik) == <<kind, PadCik(cik)>>
TickersUrl == <<"company_tickers", None>>
Urls == {TickersUrl} \cup
        ({"submissions", "companyfacts"} \X {Written(c, TRUE) : c \in Ciks})
ASSUME NoneAssumption ==
  /\ None \notin [version : Nat, url : Urls, now : Nat]
  /\ None \notin [version : Nat, validated : Nat]
  /\ \A nothing \in {None, Damaged} : nothing \notin [version : Nat, validated : Nat, url : Urls]

\* the cache key of the document at a URL
\* mutant: one key for the submissions of all companies
CacheKeyOfKind(url) ==
  IF url[1] = "submissions" THEN CHOOSE u \in Urls : u[1] = "submissions" ELSE url
CacheKey(url) == url

\* resolve_cik: the spelling as given, then with the hyphen for the dot or the
\* dot for the hyphen; of a ticker and its variants, a listing has some
Spellings == {"plain", "dot", "hyphen"}
Variant(spelling) ==
  CASE spelling = "dot" -> "hyphen"
    [] spelling = "hyphen" -> "dot"
    [] OTHER -> spelling
\* mutant: the variant is tried first
ResolveCikVariantFirst(listing, spelling) ==
  IF listing[Variant(spelling)] # None THEN listing[Variant(spelling)] ELSE listing[spelling]
ResolveCik(listing, spelling) ==
  IF listing[spelling] # None THEN listing[spelling] ELSE listing[Variant(spelling)]

\* exception classes and their bases
Bases == [TickerNotFound |-> {"SecError"}, SecHttpError |-> {"SecError"},
          SecRateLimited |-> {"SecHttpError", "SecError"},
          SecUnavailable |-> {"SecHttpError", "SecError"}]
IsA(error, class) ==
  error = class \/ (error \in DOMAIN Bases /\ class \in Bases[error])

\* the exit code of the first clause that catches error; 1 if none does
Code(clauses, error) ==
  LET Catches(n) == IsA(error, clauses[n][1])
      IsFirst(n) == Catches(n) /\ \A m \in 1..(n - 1) : ~Catches(m)
  IN  IF \E n \in DOMAIN clauses : Catches(n)
      THEN clauses[CHOOSE n \in DOMAIN clauses : IsFirst(n)][2] ELSE 1
ConfigClauses == <<<<"ConfigError", 2>>>>
\* mutant: the base class is caught first
SecClausesBaseFirst == <<<<"SecError", 3>>, <<"TickerNotFound", 2>>>>
SecClauses == <<<<"TickerNotFound", 2>>, <<"SecError", 3>>>>
BuildClauses == <<<<"MappingError", 4>>, <<"SchemaError", 4>>>>

-----------------------------------------------------------------------------
(* A run. *)

Fetches == {"company_tickers", "submissions", "companyfacts"}
Off == [stage |-> "off", named |-> None, use |-> FALSE, force |-> FALSE, began |-> 0,
        rate |-> "none", cik |-> None, asked |-> 0, got |-> [f \in Fetches |-> None],
        mapping |-> "none", exit |-> 0, cause |-> "nothing"]

Init ==
  /\ clock = 1
  /\ published = [u \in Urls |-> <<1>>]
  /\ stored = [u \in Urls |-> None]
  /\ run = Off
  /\ runs = 0

At(stage) == run.stage = stage
RunOnly == UNCHANGED <<clock, published, stored, runs>>

\* the process ends with an exception that some clause catches, or none does
Raise(error, cause, clauses) ==
  run' = [run EXCEPT !.stage = "exited", !.exit = Code(clauses, error), !.cause = cause,
                     !.asked = 0]

\* arguments that argparse accepts, and others
Begin ==
  /\ At("off") /\ runs < MaxRuns
  /\ runs' = runs + 1
  /\ \/ \E named \in Named, use, force \in BOOLEAN :
          /\ force => use  \* without the cache, --refresh changes nothing
          /\ run' = [Off EXCEPT !.stage = "configure", !.named = named, !.use = use,
                                !.force = force, !.began = clock]
     \/ run' = [Off EXCEPT !.stage = "exited", !.exit = 2, !.cause = "usage"]
  /\ UNCHANGED <<clock, published, stored>>

\* load_settings on the file it finds: what it raises, and the rate in Settings
Loaded ==
  LET RateIn(value) == IF value["rate_limit_rps"] = "absent" THEN "fine"
                       ELSE value["rate_limit_rps"]
  IN  {[error |-> LoadSettings(file), rate |-> RateIn(file.value)] :
         file \in {FindConfigFile(project, user) : project, user \in Configs}}

\* load_settings; then --out, which may name the home of nobody
Configure ==
  /\ At("configure")
  /\ \E loaded \in Loaded :
       IF loaded.error # "none" THEN Raise(loaded.error, "config", ConfigClauses)
       ELSE \/ run' = [run EXCEPT !.stage = "prepare", !.rate = loaded.rate]
            \/ Raise("RuntimeError", "out", <<>>)
  /\ RunOnly

\* ensure_output_dir, and the choice between --cik and --ticker
Prepare ==
  /\ At("prepare")
  /\ \/ run.named.by = "cik" /\ run' = [run EXCEPT !.stage = "submissions",
                                                    !.cik = PadCik(run.named.cik)]
     \/ run.named.by = "ticker" /\ run' = [run EXCEPT !.stage = "company_tickers"]
     \/ Raise("ConfigError", "directory", ConfigClauses)
  /\ RunOnly

\* the document the run is fetching
AtFetch == run.stage \in Fetches
Wanted == IF At("company_tickers") THEN TickersUrl ELSE Url(run.stage, run.cik)

\* What a run does with the document it wanted: it fails if the document has
\* not the shape expected; the ticker map yields the CIK or nothing; after
\* the facts comes the model.
Receive(version, url, now) ==
  LET read == [run EXCEPT !.asked = 0,
                 !.got = [@ EXCEPT ![run.stage] = [version |-> version, url |-> url, now |-> now]]]
      Ends(error, cause) == [read EXCEPT !.stage = "exited", !.exit = Code(SecClauses, error),
                                         !.cause = cause]
      number == ResolveCik(Listings[version], run.named.spelling)
  IN  \/ run' = Ends("KeyError", "document")
      \/ /\ At("company_tickers")
         /\ run' = IF number = None THEN Ends("TickerNotFound", "unlisted")
                   ELSE [read EXCEPT !.stage = "submissions",
                                     !.cik = PadCik(Written(number, FALSE))]
      \/ At("submissions") /\ run' = [read EXCEPT !.stage = "companyfacts"]
      \/ At("companyfacts") /\ run' = [read EXCEPT !.stage = "build"]

Insists == run.force \/ ~run.use

\* mutant: --refresh serves from the cache
IsServedDespiteRefresh(entry) == entry \notin {None, Damaged} /\ clock - entry.validated < Ttl
IsServed(entry) == /\ entry \notin {None, Damaged}
                   /\ ~run.force /\ clock - entry.validated < Ttl

\* mutant: the entry is dated when it is written
EntryForAtStoring(version, asked) ==
  [version |-> version, validated |-> clock, url |-> Wanted]
EntryFor(version, asked) == [version |-> version, validated |-> asked, url |-> Wanted]

\* get_json: the cache serves, or SEC is asked; a rate that is no number makes
\* the limiter sleep for nan seconds, which raises ValueError
Lookup ==
  /\ AtFetch /\ run.asked = 0
  /\ LET entry == IF run.use THEN stored[CacheKey(Wanted)] ELSE None
     IN  \/ entry = Damaged /\ Raise("zlib_error", "cache", SecClauses)
         \/ IsServed(entry) /\ Receive(entry.version, entry.url, clock)
         \/ /\ ~IsServed(entry)
            /\ IF run.rate = "nan" THEN Raise("ValueError", "config", SecClauses)
               ELSE run' = [run EXCEPT !.asked = clock]
  /\ RunOnly

CurrentAtOrAfter(url, v, t) == v = Len(published[url]) \/ published[url][v + 1] >= t

\* SEC answers, the entry is kept
Answer ==
  /\ run.asked > 0
  /\ \E v \in {n \in 1..Len(published[Wanted]) : CurrentAtOrAfter(Wanted, n, run.asked)} :
       /\ Receive(v, Wanted, run.asked)
       /\ stored' = IF run.use
                    THEN [stored EXCEPT ![CacheKey(Wanted)] = EntryFor(v, run.asked)]
                    ELSE stored
  /\ UNCHANGED <<clock, published, runs>>

\* put raises OSError, which no clause catches
StoreFails == run.asked > 0 /\ run.use /\ Raise("OSError", "disk", SecClauses) /\ RunOnly

SecFails ==
  /\ run.asked > 0
  /\ \E error \in {"SecHttpError", "SecRateLimited", "SecUnavailable"} :
       Raise(error, "sec", SecClauses)
  /\ RunOnly

LoadedMappings ==
  {[error |-> LoadMapping(file), quality |-> Quality(file.entries),
    composed |-> \E n \in Anchors(file.entries) : file.entries[n].compose # "none"] :
     file \in MappingFiles}

\* build_financial_model: the mapping is loaded, the statements are built, and
\* the report is printed.  With components of an anchor, next() finds no tag
\* where only a component has a fact of a year, and raises StopIteration.
Build ==
  /\ At("build")
  /\ \/ \E loaded \in LoadedMappings :
          \/ loaded.error # "none" /\ Raise(loaded.error, "mapping", BuildClauses)
          \/ loaded.error = "none" /\ run' = [run EXCEPT !.stage = "exited", !.mapping = loaded.quality]
          \/ /\ loaded.error = "none" /\ loaded.composed
             /\ Raise("StopIteration", "mapping", BuildClauses)
     \/ Raise("SchemaError", "schema", BuildClauses)
  /\ RunOnly

Step == Configure \/ Prepare \/ Lookup \/ Answer \/ StoreFails \/ SecFails \/ Build

\* the process is killed, or the caller has read its exit code
Crash == run.stage \notin {"off", "exited"} /\ run' = Off /\ RunOnly
Return == At("exited") /\ run' = Off /\ RunOnly

-----------------------------------------------------------------------------
(* The surroundings, between the runs and while a run fetches: no other     *)
(* stage looks at any of it, nor does anybody before the first run or       *)
(* after the last.                                                          *)

Going == AtFetch \/ (At("off") /\ runs \in 1..(MaxRuns - 1))

Tick == Going /\ clock < MaxTime /\ clock' = clock + 1 /\ UNCHANGED <<published, stored, run, runs>>

\* SEC replaces a document; one of them, MaxVersions - 1 times
Publish ==
  /\ Going /\ \A u \in Urls : Len(published[u]) < MaxVersions
  /\ \E u \in {w \in Urls : w[1] \in Changing} :
       published' = [published EXCEPT ![u] = Append(@, clock)]
  /\ UNCHANGED <<clock, stored, run, runs>>

\* the entry a run is about to read has been cleared, or damaged
LoseEntry ==
  /\ AtFetch /\ run.asked = 0 /\ stored[CacheKey(Wanted)] # None
  /\ \E left \in {None, Damaged} : stored' = [stored EXCEPT ![CacheKey(Wanted)] = left]
  /\ UNCHANGED <<clock, published, run, runs>>

Next == Begin \/ Step \/ Crash \/ Return \/ LoseEntry \/ Tick \/ Publish

Spec == Init /\ [][Next]_vars

-----------------------------------------------------------------------------

TypeOK ==
  /\ clock \in 1..MaxTime /\ runs \in 0..MaxRuns
  /\ \A u \in Urls :
       stored[u] \in {None, Damaged} \cup
                     [version : 1..Len(published[u]), validated : 1..clock, url : Urls]
  /\ run.stage \in {"off", "configure", "prepare", "build", "exited"} \cup Fetches
  /\ run.rate \in {"none", "fine", "nan"}
  /\ run.mapping \in {"none", "usable", "slipped", "unusable"}
  /\ run.asked > 0 => AtFetch /\ run.rate # "nan" /\ run.asked \in run.began..clock
  /\ run.stage \in {"submissions", "companyfacts", "build"} => run.cik.padded

Exited == At("exited")

\* PLANNING.md:605-607 and the handlers of main(), cli.py:338-433: what a
\* caller reads in the exit code is what went wrong.  In particular an
\* unlisted ticker is bad input and not a failure of SEC's, though its class
\* is a SecError, and a run that was refused for its input or its
\* configuration has asked nothing of SEC but the ticker map.  A failure of
\* SEC's, of the schema or of the input never ends in a traceback (code 1); a
\* document or a cache file of the wrong shape, a full disk and --out below
\* the home of nobody do.
ExitTellsWhatHappened ==
  Exited =>
    /\ run.exit = 0 <=> run.cause = "nothing"
    /\ run.exit = 3 <=> run.cause = "sec"
    /\ run.exit = 4 => /\ run.cause \in {"mapping", "schema"}
                       /\ {run.got[f] : f \in {"submissions", "companyfacts"}} \cap {None} = {}
    /\ run.exit = 2 => run.got["submissions"] = None
    /\ run.cause \in {"document", "cache", "disk", "out"} => run.exit = 1
    /\ run.exit = 1 => run.cause \in {"document", "cache", "disk", "out", "config", "mapping"}
    /\ run.cause = "unlisted" =>
         /\ run.exit = 2
         /\ \A s \in Spellings : (s = "plain" <=> run.named.spelling = "plain")
                                   => Listings[run.got["company_tickers"].version][s] = None

\* resolve_cik, fetch_submissions, fetch_company_facts: every document a run
\* uses is the one of the company it was started for, also when the cache has
\* been filled by runs for other companies and SEC gives the ticker to
\* another company in between.  The company is the one of the CIK, or the one
\* that the ticker map lists under the very spelling; only if it lists none,
\* one that it lists under another spelling of the same ticker.  The cache
\* keeps each document under its own key.
DocumentsAreOfTheCompany ==
  /\ \A u \in Urls : stored[u] \notin {None, Damaged} => stored[u].url = u
  /\ \A f \in Fetches : run.got[f] # None =>
       IF f = "company_tickers" THEN run.got[f].url = TickersUrl
       ELSE /\ run.got[f].url = Url(f, run.cik)
            /\ run.named.by = "cik" => run.cik.number = run.named.cik.number
            /\ run.named.by = "ticker" =>
                 LET listing == Listings[run.got["company_tickers"].version]
                     exact == listing[run.named.spelling]
                 IN  \/ exact # None /\ run.cik.number = exact
                     \/ /\ exact = None
                        /\ \E s \in Spellings : /\ s = "plain" <=> run.named.spelling = "plain"
                                                /\ listing[s] # None /\ run.cik.number = listing[s]

\* --refresh and --no-cache, cli.py:174-183, and cache_ttl_hours: what a
\* report rests on, the ticker map included, was current at some moment since
\* the run began, or, for a run that may use the cache, less than Ttl before.
ReportIsRecent ==
  Exited /\ run.exit = 0 =>
    \A f \in Fetches : run.got[f] # None =>
      CurrentAtOrAfter(run.got[f].url, run.got[f].version,
                       IF Insists THEN run.began ELSE run.began - Ttl)

\* The document at u as module Document sees it: what the cache keeps of it,
\* and what the run is doing with it.
Kept(u) == IF stored[u] \in {None, Damaged} THEN None
           ELSE [version |-> stored[u].version, validated |-> stored[u].validated]
Reading(u) ==
  LET got == run.got[u[1]]
  IN  IF run.asked > 0 /\ Wanted = u THEN [stage |-> "asked", now |-> run.asked, insist |-> Insists]
      ELSE IF got = None THEN [stage |-> "idle"]
      ELSE IF got.url # u THEN [stage |-> "idle"]
      ELSE [stage |-> "has", version |-> got.version, now |-> got.now, insist |-> Insists]

\* Every run reads every document as module Document says.
Doc(u) == INSTANCE Document WITH
  Readers <- {"run"}, published <- published[u], stored <- Kept(u),
  reading <- [r \in {"run"} |-> Reading(u)]
ImplementsDocuments ==
  /\ \A u \in Urls : Doc(u)!Init
  /\ [][\A u \in Urls : UNCHANGED Doc(u)!vars \/ Doc(u)!Next]_vars

\* load_mapping's docstring, statements.py:167-175: a report is never built
\* over a mapping that the builder cannot use, with no or two anchors, a row
\* nobody can resolve or an anchor that has no spans, whichever field of a
\* good file was changed, but for the two slips of PutRight.
OnlySlipsAreReported == Exited /\ run.exit = 0 => run.mapping \in {"usable", "slipped"}

\* The same docstring without the exception ("Raises MappingError on anything
\* that would silently produce a wrong or empty model").
ReportsRestOnUsableMappings == Exited /\ run.exit = 0 => run.mapping = "usable"
=============================================================================
