# Fundamental_Equity_FSA: TLA+ models and proofs

This directory specifies and verifies the Python package `fsa` (`src/fsa/`): the
program that fetches a company's XBRL facts from SEC EDGAR and normalizes them
into annual financial statements. Paths below are relative to the repository
root; `client.py:229` is a line of `src/fsa/sec/client.py`, and so on.

Every module checks with TLC from this directory, for example

    tlc -config MCTokenBucket.cfg MCTokenBucket.tla
    tlapm TokenBucket_proofs.tla

Contents: [1 The system](#1-the-system) -
[2 Modules](#2-modules-and-their-correspondence-with-the-code) -
[3 Runs](#3-runs-bounds-and-what-they-show) - [4 Fairness](#4-fairness) -
[5 Proofs](#5-proofs) - [6 Divergences found](#6-divergences-found) -
[7 What is not modelled](#7-what-is-not-modelled) - [8 Plan](#8-plan)

## 1 The system

A run of the command line (`cli.py`) resolves a ticker, fetches three JSON
documents through one `SecClient`, and hands them to
`build_financial_model`, which returns a `FinancialModel` or raises.

    cli.main -> endpoints -> SecClient.get_json -> ResponseCache (files)
                                   |         `---> TokenBucketLimiter.acquire
                                   `-- requests.Session -> SEC
    cli.main -> build_financial_model -> dedupe_facts, ltm.*, schema.*

| Component | State it keeps | Operations | What is hard | What makes it correct |
|---|---|---|---|---|
| Rate limiter, `sec/ratelimit.py` | tokens, time of the last refill, a lock | `acquire` | threads preempted anywhere, sleeping outside the lock, floats that round, a rate below one | no window of time holds more than a full bucket and its refill; a call returns |
| Response cache, `sec/cache.py` | one gzip file per key, a temporary file | `get`, `put` | the writer killed or failing between two file operations, readers at the same time, leftovers of a dead writer | an entry is replaced whole or not at all; a reader sees one entry |
| SEC client, `sec/client.py` | counters of one call; the cache entry outlives it | `get_json`, `_request_with_retries` | the document changes while a call is waiting; two processes on one entry; mixed failures against two nested budgets; a crash before the entry is stored | nothing older than promised is served; dates say where a body comes from; budgets hold; the call ends |
| Fact extraction, `normalize/facts.py` | the best fact so far of each period | `extract_raw_facts`, `dedupe_facts`, date classification | restatements in any order, ties | the canonical fact of every period survives; the result is ordered |
| LTM, `normalize/ltm.py` | none | proposal of the LTM spans, fallback, flow arithmetic | tolerances on dates and lengths | the LTM column is twelve months, or is labelled a fallback |
| Statement builder, `normalize/statements.py` | axis, cells, warnings, built in stages | `build_financial_model` and its helpers | a fixed axis that every item must be aligned with; backfill and derived items after their inputs, twice; warnings exactly when due | columns coherent, sheet balanced, short history explained, model accepted by the schema |
| Schema, `normalize/schema.py` | none (frozen records) | constructors that check | written apart from the builder | never rejects what the builder makes |
| Endpoints, `sec/endpoints.py` | none; each document is cached under its own key | ticker lookup, three fetches | spelling variants, a ticker that changes hands, a cache filled by runs for other companies | every document is the named company's, and as recent as the options ask |
| Command line, `cli.py` | the cache outlives a run | one run, stage by stage | an exception that no clause catches, or the wrong one | every outcome has the documented exit code |
| Configuration, `config.py` | none | reads one TOML file, makes the output directory | `inf`, `nan`, huge integers, homes of nobody | values in range or a `ConfigError` |
| Mapping, `load_mapping` in `normalize/statements.py` | none | reads one YAML file | combinations of fields that slip through | what is accepted the builder can use |
| Excel writers, DCF reference | none | stubs | - | - |
| Excel launch prototype, `spike/` | the macro's activations, the children, the result file | start a child, poll for its file | activations inside one another's sleeps, children of several launches at once, an old file, one that the sandbox hides, a half-written file, the timeout, `Timer` at midnight | a file that is opened was made since the old one was removed, none that can be seen in time is missed, the macro ends |

The components interact through calls; the only state shared between threads is
the bucket, and the only state shared between processes is the cache directory.
Every hazard met in the code is listed at its line in `PROJECT.json`
(`hazards`), with the properties that would catch it.

## 2 Modules and their correspondence with the code

`PROJECT.json` (`map`) gives for each definition the lines it stands for.

### TokenBucket, RateCap, MCTokenBucket, TokenBucket_proofs

`TokenBucket` is `TokenBucketLimiter.acquire` with several threads in it.

| Model | Code |
|---|---|
| `tokens`, `lastRefill`, `lock` | `_tokens`, `_last_refill`, `_lock` |
| `nowRead[t]`, `wakeAt[t]`, `pc[t]` | the local `now`, the end of `sleep(wait)`, the program counter |
| `Call`, `Enter`, `ReadClock`, `Refill`, `Grant`, `Defer`, `Wake` | call, `with self._lock`, `now = clock()`, the refill, return with a token, leave the lock to sleep, next turn of `while True` |
| `Tick` | time |
| `log`, `loops`, `mark` | history variables, read by no action |

Floats become integers: a token is `One` units, a tick gains `Rate` units, and
the division `deficit / rate` is a choice between the two whole numbers of ticks
around the quotient. That choice is what makes `_epsilon` (`Eps`) necessary in the model
as it is in the code. The block under the lock is split where a thread can be
preempted, so that what the lock is for is visible: dropping the lock breaks
the refinement.

`RateCap` is the promise without bucket, lock or thread: a request may be let
through only if every window that ends with it is within budget.
`ImplementsRateCap` is the refinement, with `Burst <- Capacity`, `Cost <- One - Eps`,
and `clock` and `log` mapped to themselves.

### CacheFiles, CacheStore, MCCacheFiles, CacheFiles_proofs

`CacheFiles` is one key of `ResponseCache`, one action per file operation:
`Put`, `OpenTmp`, `WriteTmp`, `Replace`, `Unlink` for `put`, `OpenPath` and
`ReadAll` for `get`. Names point to inodes, so a reader keeps the file it has
opened when the name is replaced, and `OpenTmp` truncates whatever a killed
writer left under the fixed temporary name. `WriteFails` is an operation that raises
(`finally` is next), `Crash` a kill between any two operations, `Delete`
somebody emptying the directory. There is one writer because the code says so
(`cache.py:14-15`).

`CacheStore` is the register a caller imagines: `Put`, `Lose`, `Get`, one step
each. The refinement maps `stored` to the content under the cache's name and
`got[r]` to what the reader is bound to find.

### Document, SecClient, MCSecClient, SecClient_proofs

`Document` is what `get_json` promises about one document, without requests,
retries, validators or cache files: a reader is served (`Serve`) from what is
kept if that was known to be current less than `Ttl` ago and the reader does not
insist; otherwise it asks (`Ask`) and gets a version that was current at that
time or later (`Answer`), or an error (`Fail`). What is kept is dated to the
question, never to the answer. `SecClient` implements it
(`ImplementsDocument`): a call is `idle` until its lookup, `asked` while it is
sending or storing, and `has` its result; the entry is mapped to its version
and validation time. `Cli` uses `Document` for every document of a run.

`get_json` and `_request_with_retries` for one cache key, by several processes that share
the cache entry, while SEC replaces the document (`Publish`). A document is a
version number. `Lookup` reads the cache, then the time, and serves a fresh
entry; `Succeed` is a 200 or a 304; `Retry` a failed attempt with another after
it, `GiveUp` one without; `Garbled` a 200 that is no JSON; `Deliver` stores the
entry and returns; `StoreFails` is the `OSError` of `put`; `Crash` kills the
process anywhere before it has its answer; `LoseEntry` removes or damages the
cache file. Every wait (back-off, `Retry-After`, limiter, network) is
any time: `Tick` comes between any two steps. `sent`, `sent403`, `hopeless` and
`retrieved` are history: they count what was really sent or retrieved, and no
action depends on them. Cache reads and writes are single steps here because
`CacheFiles` implements `CacheStore`, as long as no two processes write the key at
the same moment (`cache.py:14-15`).

The clock only goes forward. A wall clock set back would make an old entry
young (`client.py:160`), and nothing in the code prevents that; the hazard is listed.

### Config, Mapping

Two modules of operators. `Config` is `load_settings`: a file is a class of
bytes (text, none, unreadable, no TOML, not UTF-8) and gives each key a class of
values (absent, fine, wrong, above ten, infinite, nan, too large for a float,
below the home of nobody); `Checks` is the sequence of checks in the code's order with the
exception each raises (`none` for a check that passes), and `LoadSettings` the first of them. `Mapping` is
`load_mapping`: an entry is the fields its checks look at, `EntryError` what
they raise for it, `LoadMapping` what the file does. Tags and components are nothing, a
list, one plain string or no sequence: `tuple()` at `statements.py:202-203` raises for the
last and makes a string its letters, which no check can tell from a list. `Usable` is
written from what `build_financial_model` takes for granted, not from the checks.
`Quality` tells what is `usable` from what is `slipped`, usable but for a plain string
or an anchor's components (`PutRight`), and from the rest.

### Cli, MCCli, Cli_proofs

`main()` of `cli.py` with `endpoints.py`, one run after another over one cache:

    Begin, Configure, Prepare, (Lookup, Answer)*, Build, Return

with `StoreFails`, `SecFails` and `Crash` in between. A run fetches the ticker
map if it was given a ticker, then the two documents of its company. `Lookup` is
the part of `get_json` before the request, `Answer` the one after it: between them
SEC may publish (`Publish`), time passes (`Tick`) and the entry of the
document to be read next may be cleared or damaged (`LoseEntry`).

| Model | Code |
|---|---|
| `stored[CacheKey(url)]` | the cache file of `company_tickers`, `submissions:<cik>`, `companyfacts:<cik>` |
| `published[url]` | when each version of the document at SEC came out; `Listings[v]` is version `v` of the ticker map |
| `run.stage`, `run.cik`, `run.got` | where `main()` is, the CIK it has, and which version of which document it has been given |
| `Raise(error, cause, clauses)` | an exception that meets the `except` clauses of its stage, in their order, with the classes of `errors.py`; the exit code is 1 if none of them catches it |
| `Receive` | what `resolve_cik`, `fetch_submissions` and `fetch_company_facts` do with the document, a `KeyError` for one of another shape included |
| `Build` | `build_financial_model` with the mapping file it finds; what it computes is `Statements`. Over a mapping whose anchor has components it may raise `StopIteration` (`statements.py:465`) |

CIKs are written with or without their zeros (`Written`), so that a padding forgotten
would show in the URLs and the keys. A listing gives each spelling of a ticker a company
or none, so that two spellings of one ticker can be two companies, and the order in
which `resolve_cik` tries them shows in `DocumentsAreOfTheCompany`.

`ImplementsDocuments` says that each URL of the cache behaves as `Document`
does. `Kept(u)` is the entry under the key of `u`, `Reading(u)` what the run
appears to be doing with `u`: nothing, waiting for SEC's answer (`asked`), or
holding a version.

### Shell, MCShell, Shell_proofs

The macro `RunSpike` of `spike/vba/SpikeShell.bas` and the processes it has started,
each `spike/spike_target.py`. `Shell()` does not wait, so a child of an earlier
launch may create the file, or write into it, while the macro polls for the
next one's. `DoEvents` in `Sleep` lets the user start the macro again while one
activation sleeps; the later one runs to its end before the earlier one goes on.

| Model | Code |
|---|---|
| `frames` | the activations of `RunSpike`, the innermost one last, each with its stage, `startTime` and the target of its `Sleep` |
| `Run` | lines 71-84: the start, by the user or in a `DoEvents`; the macro ends at once if a cell is empty or in error |
| `Clear`, `Launch`, `Start` | `Kill` of the file that `FileExists` sees (90-92), `Shell` (101), `startTime = Timer` (104): a late child may create the file between any two of them |
| `Look`, `Check`, `Wake` | the loop (106-116): the file, then the time, then the sleep until its target |
| `Open` | access and `Workbooks.Open` (130-145) |
| `FileExists`, `shown`, `Toggle` | `FileExists` (153-157) answers no where `Dir` raises an error; whether it does is `shown`, which the sandbox changes at any time (`spike/README.md:126-139`) |
| `Create`, `Close`, `Fail` | a child creates the file or empties the one that is there, completes it, or fails |
| `file.writers`, `file.whole` | the children that have the file open or have written it, and whether it is a whole workbook |
| `timer`, `Tick` | Excel's `Timer`, which starts again at midnight; a poll interval is one tick |
| `owed`, `makers` | history variables, read by no action: which activations have had the file in time and ever since, and whose children may have made the file each of them finds |

The loop's own steps take no time (`Tick` waits for them), since they are instructions
and a poll interval is half a second; every other stage may last.

### Dedupe, MCDedupe, Dedupe_proofs, SetLemmas

`dedupe_facts` as the loop it is: `First`, `Replace` and `Keep` are the branches
of its body, `Return` the sort. A raw fact is what the tie-break can tell apart:
period, filing date, and whether it has a frame.

### Calendar, Statements, MCStatements, Statements_proofs, SetLemmas

`Calendar` has the date rules (annual and stub lengths, fiscal year end match,
year label, one year back) over a calendar of equal years whose length and
tolerances are constants. `Statements` is `build_financial_model`, one action
per stage, one step of `FillItem` and `FillLtm` per line item:

    ResolveAnchor, Classify, BuildAxis, FillItem*, Derive,
    ProposeLtm, FillLtm*, FinishLtm, CheckDebt, Assemble

| Model | Code |
|---|---|
| `company` | the facts after `dedupe_facts`, and what the submissions document says |
| `series`, `periods`, `cells`, `spans` | `annual_series`, the axis, `cells_by_key`, `(this_span, prior_span)` |
| `warnings` | codes appended to `warnings`, with key and label |
| `src` of a cell | the facts it comes from, standing for accession and filing date |
| `WellFormed` | the checks of `FinancialModel`, `FiscalPeriod`, `Provenance` and `DataWarning` |

The mapping (`mappings/us_gaap.yaml`) is a constant; `MCStatements` gives a
miniature with one item for every kind of resolution: alternatives, stitching,
composition, negated sign, cover page, balance sheet backfill, derived item and
unsplit debt.

## 3 Runs, bounds and what they show

Bounds are named constants: `Quota`, `MaxTime` (limiter), `MaxTime`,
`MaxVersion`, `MaxCalls` (client), `Inodes` (files), `MaxFacts` (dedupe),
`MaxTime`, `MaxVersions`, `MaxRuns`, `Changing` (command line), `MaxLaunches`
(macro).

| Run | Configuration | Bounds | Shows |
|---|---|---|---|
| `limiter` | `MCTokenBucket.cfg` | 2 threads, 2 calls each, capacity of one and a third tokens, tokens of 3 units, 2 gained per tick | `WindowCap`, `WallClockCap`, `ConvergesInOneExtraLoop`, refinement of `RateCap`, and that every call returns |
| `cache_files` | `MCCacheFiles.cfg` | 2 readers, 2 entries, 4 inodes | the file is always whole, the files implement a register, nothing deadlocks |
| `two_clients` | `MCSecClient.cfg` | 2 processes, 1 attempt, 3 calls, 2 versions, clock to 3 | `FreshAsPromised` and `ProvenanceKept` of results that overlap, and the refinement of `Document` |
| `one_client` | `OneClient.cfg` | 1 process, the code's own budgets of 5 and 2, 2 calls | budgets for every mixture of failures, and that a call ends |
| `dedupe` | `MCDedupe.cfg` | any 3 facts of 4 periods, 2 filing days | the canonical fact at every turn of the loop, and an ordered result |
| `statements` | `MCStatements.cfg` | six families of filers, calendar of 12 days a year, axis of 3 years | the ten promises of the finished model |
| `slow_rate` | `SlowRate.cfg` | a rate of half a token a second | violation: section 6 |
| `turn_of_year`, `ltm_stitching` | same names | one family each | violations: section 6 |
| `cli` | `MCCli.cfg` | 2 runs, 2 companies, 2 versions, one document replaced once, clock to 4, time to live 2 | exit codes, whose documents, how old, mapping validation but for two slips, every document read as `Document` says |
| `mapping_slip` | `MappingSlip.cfg` | the same | violation: section 6 |
| `shell` | `MCShell.cfg` | 2 launches, a day of 5 ticks, timeout 2 | which files are opened, which are missed, and that the macro ends |

Why the bounds are enough for the interesting cases:

- *limiter.* Three units to a token and two per tick is the smallest ratio at
  which a wait rounds to a value that is too short; the capacity is the default
  (one second's refill). Two threads are the fewest that can be
  interleaved inside the block, and with four calls the bucket runs dry so that
  both sleep and compete for the same token. `MaxTime` stops idle time only: the
  clock still runs for a sleeper, so the bound hides no deadline. The
  general statements are proved for all values.
- *cache_files.* Two names and two open files can hold four inodes at most, so
  the bound excludes nothing. Two readers are enough because readers do not
  influence one another; two entries, to tell old from new.
- *two_clients.* Two processes that overlap, one more call to read what they
  left, and a version that changes in between. One attempt is enough: how often a
  request is repeated changes neither an entry nor a date, time passes
  anyway, and `one_client` has the code's own budgets. A time to live of one tick makes
  entries fresh and stale within the clock's range. Symmetry is over the
  processes, in which the invariants and `Document` are symmetric; the run has no liveness.
- *cli.* Two runs are the fewest for one to read what another left, and two
  companies the fewest to be mixed up; the second version of the ticker map gives a
  spelling that was unlisted to the other company. One document is replaced
  (the ticker map or a company's facts: the submissions are read in the same
  way), once. Files are every configuration and every mapping that is one field
  away from a good one, so each check is met alone and in its order. The
  surroundings move between the runs and while a run fetches: no other stage
  looks at them. `--refresh` is not combined with `--no-cache`, which makes it
  meaningless.
- *shell.* Two launches let the child of the first work on the file of the second,
  whether the first activation has ended or sleeps below the second; the
  path is hidden and shown at any time. The timeout fits on either side of
  midnight and across it. The bound in `MacroEnds` is tight: with one second more
  TLC finds the macro asleep for ever. Deeper nesting and longer days are covered by the proofs
  of the two safety properties.
- *dedupe.* Three facts of one period are the fewest for which the tie-break
  could fail to be transitive. The periods include two that share an end and an
  instant on that end.
- *statements.* Each family varies one part of a filer's history over all its
  combinations: `Histories` the years two anchor tags report, and by how much they differ
  (the tolerance or just more), `Undeclared` a filer with annual facts of two calendars,
  `Turning` years that end around the turn of the calendar year, `Stubbed` lengths and drifts of the year-to-date
  stubs, `Flows` the ways one flow is reported in the three LTM spans, `Sheets`
  the balance sheet lines that are tagged. Families are not combined: the
  stages they exercise share no state except the axis. Lengths and tolerances are
  scaled with the year so that each has values inside, on and outside it.

Properties say what could go wrong over several steps. Examples:
`FreshAsPromised` relates a result to what SEC had published since the call
began, through an entry that another process may have stored, revalidated or
lost meanwhile; `NwcTelescopes` relates all columns of the finished axis;
`WindowCap` every pair of requests ever let through. Each property has a
plausible bug of the code beside the definition it changes (an operator marked
`mutant:`) that makes its run fail; mutants are used by no specification.

`CHECK_DEADLOCK FALSE` is set where the system really stops: the limiter, the
clients and the command line are at rest when the bounded callers have made
their calls. The other runs check for deadlock.

## 4 Fairness

- *Limiter.* Time passes (`WF(Tick)`) and a thread inside `acquire` that can go
  on does (`WF` of `Enter`, `ReadClock`, `Refill`, `Grant`, `Defer`, `Wake`).
  Nothing makes a program call `acquire`: `Call` has no fairness. `threading.Lock`
  is not fair, and weak fairness of `Enter` does not assume it is: the lock is
  taken away again and again, and a thread may lose the race. Termination
  holds because each caller makes finitely many calls (`Quota`); with callers
  that go on for ever the code promises no caller anything.
- *Client.* `WF(Step(c))`: every request has a timeout
  (`_REQUEST_TIMEOUT_SECONDS`), and sleeps and the limiter end. It does not force
  success, for every failure is a step too; `CallEnds` says that the call ends
  in a result, an error or a crash, not that it succeeds. The next call is
  forced by the same `WF`, which the property does not use.
- *Macro.* Excel goes on with the macro (`WF` of `Clear`, `Launch`, `Start`, `Look`,
  `Check`, `Wake`) and time passes (`WF(Tick)`). Neither the user, the sandbox nor a child owes
  anything: `Run`, `Toggle`, `Open` (which may ask the user for access), `Create`, `Close`
  and `Fail` have no fairness. An activation below another one waits for it, and
  `MacroEnds` promises nothing of it meanwhile.

## 5 Proofs

TLAPS proves, for every value of the constants, every invariant and every
refinement the passing runs check. The assumptions are those of the modules, and
TLC evaluates them in every run of the module:

| Assumption | What it says, and why the code justifies it |
|---|---|
| `ConstantsAssumption` (TokenBucket), `ClientAssumption`, `CliAssumption`, `ShellAssumption`, `MaxFactsAssumption`, `PeriodsAssumption`, `DatesAssumption` | types of the constants; budgets are at least one; the timeout of the macro fits in a day |
| `FilesAssumption` (CacheFiles), `NoneAssumption` (SecClient, Cli, Shell) | the model's null values are not members of the sets they stand beside |
| `NamedAssumption`, `FilesAssumption` (Cli) | what a user can name, and what configuration and mapping files can contain, are among the classes `Config` and `Mapping` tell apart |
| `CalendarAssumption` (Calendar) | the constants of `facts.py` and `ltm.py` fit one another: a year of the calendar is an annual length, a stub is shorter than an annual length, a stub with its tolerance is shorter than a year (350-380, 60-300, 10 and 365 days in the code) |
| `MappingAssumption`, `BalanceSheetAssumption` (Statements) | what `load_mapping` and `us_gaap.yaml` guarantee: every item has a tag and one of three kinds, the anchor is a duration without components and not among the other items, `change_in_nwc` is derived only, the items the derivations read are balance sheet lines |
| `CompanyAssumption` (Statements) | the declared year end is a day of the calendar, or there is none; facts are finitely many, and a tag has one fact per period, which is what `KeptIsAlwaysCanonical` and `AlwaysReturnedInOrder` of Dedupe_proofs establish of `dedupe_facts` |

**TokenBucket_proofs.** `TypeCorrect`, `WindowCapHolds`, `WallClockCapHolds`,
`RefinesRateCap`, `NothingBelowOneToken`, `AlwaysConverges`. `WindowCap` is not inductive: it says nothing about
the bucket. The invariant `IInv` adds `BudgetInv`, the accounting (what is in the
bucket and what was taken since the i-th request is covered by a full bucket and the
refill since), `ReadingInv` (clock readings only go forward), `LogInv` (a token is
accounted after every earlier one was consumed) and `LockInv` (who is in the
block holds the lock, without which no reading could be tied to a refill).
`WallClockCap` follows: a preempted holder can shift one request into a window, and never two,
since the next reading comes after that request. The refinement maps `Grant` to
`LetThrough`, `Tick` to `Tick`, the rest to stuttering.

`AlwaysConverges` is `ConvergesInOneExtraLoop` under `Tolerant`: a token fits in the
bucket, and the refill of one tick, by which a rounded wait may be short, is
within `Eps`. Neither holds by itself in the code, and `slow_rate` (section 6) shows
what happens without the first. The invariant `LoopInv` says of a
thread that has used all the loops it is entitled to (`Last`: one, and one per
token another thread took since its call) that a token is `Provided`: it is in the bucket, or will
be when the thread's sleep ends. A sleep provides it (`DeferProvides`), a refill
by anybody keeps it provided (`RefillProvides`), and who takes it gives
the others a loop more.

**CacheFiles_proofs.** `FilesTypeCorrect`, `PathAlwaysWhole`,
`FilesImplementStore`. The strengthening is `TmpApart`: the file under the
temporary name, which the next `put` truncates even when a dead writer left it, is never the
file under the cache's name and never open in a reader. With `WriterInv`
(what is renamed is whole) and `WholeIsPut` each operation is a register step or invisible:
`Replace` is `Put`, `Delete` is `Lose`, `OpenPath` is `Get`.

**SecClient_proofs.** `ClientTypeCorrect`, `AlwaysFreshAsPromised`,
`ProvenanceAlwaysKept`, `RetriesAlwaysBounded`. Entry, pending answer and result
are each tied to a moment since which their version has been current (`Alive`):
an entry since its validation, an answer since the call began, a result since
the moment it promises. Publishing a version keeps every such tie because the
version it replaces was current until now; storing an entry late keeps it
because the entry is dated to the start of the call. That is the argument for
why two processes that store out of order do no harm. The budget follows from
`BudgetOk`: the code's counters are those of the requests really sent.

`ClientImplementsDocument`, in the same module: every step of any number
of clients is a step of `Document` or shows nothing. Starting, answering and
retrying are invisible, the lookup is `Serve` or `Ask`, `Deliver` is `Answer`. Only for
`Deliver` is the invariant needed: the answer that was received
some time ago is still one that was current when SEC was asked.

**Cli_proofs.** `DocumentsAlwaysOfTheCompany` and `ReportAlwaysRecent`, for any
companies, ticker maps, number of runs and time to live, from `CliAssumption` and
`NamedAssumption`. The company of a ticker is the one listed under the very spelling,
and only where none is, one listed under another spelling (`ResolvedIsListed`). Neither property is inductive, since both speak of what a run has been given
and not of what it is about to be given. `StoredInv` ties every entry to its key and to
the time since which its version has been current; `RunAims` ties the CIK to the
company named, from the moment it is known, and says that nothing has been fetched
before; `RunRecent` ties each document held to the start of the run, less the
time to live if the cache may be used. Publishing and time keep the ties
(`AliveAfterPublish`, `AliveEarlier`). `ExitAlwaysTellsWhatHappened` also uses
`NoneAssumption`. Its invariant `ExitInv` adds what a run that goes on must have
fetched by each stage, since code 4 speaks of two documents and only the stage
`build` knows of them. `CodeOfOne` and `CodeOfTwo` say what a list of `except`
clauses makes of an exception, `ClausesCatch` which classes each handler of
`main()` lets through.

`TypeCorrect` and `OnlySlipsAreEverReported` follow the checks of `Config`
and `Mapping`. `LoadedIsPutRight`: a file that passes every check of `load_mapping`
has, with its two slips put right, each of the properties `Usable` asks for, for any
number of entries (`NoneRejected`, `EntryIsPutRight`, `OneAnchor`). `LoadedRate`: the rate that comes out of
`load_settings` is good or `nan`, and `Loads` that a run with `nan` never asks
SEC, since the limiter's sleep raises.

`RunsImplementDocuments` is `ImplementsDocuments`: any number of runs, over any
cache, show at each URL a behaviour of `Document`. The invariant `Fetching`
says that a run about to fetch a document holds none of that URL yet, so that its
reads of one URL come one after the other. There is one lemma for each action
of `Document` (`DocServes`, `DocAsks`, `DocAnswers`, ...); `NextDoc` has one
step for each action of `Cli`, and what a run does with another URL
is invisible at this one.

**Shell_proofs.** `ShellTypeOK`, `ShellNoOldFileIsTaken`, `ShellNoFileIsMissed`, for every
day, timeout, number of launches and depth of activations, from `ShellAssumption` and
`NoneAssumption`. Neither promise is inductive. `MakersAreKnown` says of every
activation that has removed the old file, and not only of one that is about to open: whoever
may still create the file counts among its possible makers, and so does whoever has
written what is there. `NothingIsOwed` says that after a look in vain, at a time that is
over, the file cannot have been there in time and ever since, which is where the
order of the two questions in the loop matters. The steps are first reduced to what they do to the stack of
activations (`Moves`, `Ends`, `Starts`).

**Dedupe_proofs.** `KeptIsAlwaysCanonical`: for payloads of any length, by induction on the
loop (an invariant of the state machine, `StaysCanonical`, `BecomesCanonical`,
`FirstIsCanonical` per branch). `TypeCorrect` and `AlwaysReturnedInOrder` add
`ListExact`, that what was returned is the list of the facts kept in the order of the sort
key. That such a list exists is `Listing` of SetLemmas, for which the key must
be a strict order on the facts kept (`OrderIsStrict`): no two of them
are of one period.

**Statements_proofs.** `TypeCorrect`, `Returns` (`NeverRejected`), `CoherentColumns`,
`LatestYears`, `ShortAxisExplained`, `DisagreementsAreFlagged`,
`BalanceSheetAlwaysCloses`, `NwcAlwaysTelescopes`, `GenuineLtmIsTwelveMonths`,
`FallbackMirrors`, for any mapping, any facts, any calendar and any number of
years asked for. None of these is inductive: each speaks of the finished model,
and the pipeline has no loop that would keep it up. `IInv` (theorem `Invariant`)
says instead at every stage what has been computed so far:

- `Control`: the series is what the anchor's annual facts say (`SeriesExact`);
- `ColumnsExact`: the columns are the axis, and then one more, which is that of
  a stub with a matching stub of the year before (`Genuine`) or the fallback;
- `RowsExact`: a row has cells for the columns its stage has reached, and no others;
- `CellsExact`, `NwcExact`: every cell is a function of the company's facts, before
  and after the balance sheet is closed, and a change in working capital one of
  the finished column before it;
- `WarningsExact`: the disagreements met so far are exactly those warned of, and
  the warnings about the history are those its length calls for.

There is one lemma per stage (`FillItemKeeps`, `DeriveKeeps`, ...). The promises
then need no more steps of the pipeline, only what its operators pick. `YearFits`
and `GenuineFits` show that a cell's facts report the dates of its column,
of a year and of the LTM column; `Circular` that the three calendar years in which
`fiscal_year_end_matches` looks for the declared day are enough; `TwelveMonths` does the arithmetic of the two
stubs, which is where `CalendarAssumption` rules out a stub of the year before that
reaches the end of the latest fiscal year. `AlwaysWellFormed` rebuilds the checks of the schema
from `CellsGood` and `WellFormedColumns`. `DisagreementsFlagged` holds
because two values of one span that are further apart than the tolerance make
the fill warn, whichever of them is shown (`FarIsDisagreement`, `Flagged`). The anchor is
resolved before the axis, so its warnings are a second invariant beside `IInv`
(`AnchorExact`), which every later stage keeps since none adds one of the anchor's.

**SetLemmas.** A finite set has a listing in any strict order of its elements
(`Listing`), and whatever runs through it in order is that listing (`Increasing`);
least and greatest elements; the latest H members of a set of years are H, or all of them
(`Latest`); a sum over a finite set by the fold of `Statements` exists
(`SumExists`), does not depend on the order of the elements (`SumIs`), and
telescopes (`Telescope`). The inductions are on a least counterexample, for
the induction theorems of the library take an operator the provers cannot be given.

Only model-checked:

- liveness (`AcquireReturns`, `CallEnds`, `MacroEnds`) and anything under `ENABLED`, which
  the prover does not handle;
- that the four divergences of section 6 happen, for which TLC's traces are the proof.

## 6 Divergences found

Each is a run that TLC must find violated. The properties quote the line.

1. `slow_rate`. The capacity defaults to the rate (`ratelimit.py:39`), and
   `config.py:223-225` accepts any positive rate. Below one request a second the
   bucket never holds a token and `acquire` never returns, where the comment at
   `ratelimit.py:45-48` says it converges in one extra loop.
   `NothingBelowOneToken` is the general form.
2. `turn_of_year`. Two fiscal years of 52 or 53 weeks may end in one calendar
   year. The value is then the last one's and the column's dates are the first
   one's (`statements.py:461`, `:808`).
3. `ltm_stitching`. Tags that disagree on a year-to-date span change an LTM flow
   without a warning (`statements.py:952`, `PLANNING.md:236`).
4. `mapping_slip`. `tags: Revenues`, where a list is meant, becomes the tuple of its
   letters (`statements.py:202`), passes every check of `load_mapping`, and the run reports
   a model whose anchor has no facts with exit code 0. The docstring
   at `statements.py:169-172` says "Raises :class:`MappingError` on anything that would silently
   produce a wrong or empty model". Components of an anchor are the other slip: the builder
   raises `StopIteration` where only a component has a fact of a year (`statements.py:465`).
   `OnlySlipsAreReported` is what does hold, and `OnlySlipsAreEverReported` proves it.

More facts have no run of their own, because the documentation admits another
reading or states the choice, or because the run would only reach one raise of many:

- A bucket that filled up while idle and the refill of the same second leave
  together, nearly twice `rate_limit_rps` requests in one second. `client.py:6` and
  `PLANNING.md:512` read as if the cap were the rate; `ratelimit.py:37-38` mentions the
  burst. `WindowCap` is the bound that holds.
- `fetched_at` is the time read before the first attempt (`client.py:229`), so after
  retries a body may be younger than its date (`client.py:64-65`). It errs on
  the safe side for freshness, and `AlwaysFreshAsPromised` depends on it.
- A run can end in a traceback and exit code 1, which the table of `PLANNING.md:605-606` does
  not have: `--out ~nobody/x` (`cli.py:352`); `historical_years = inf` (`config.py:160`), an integer
  too large for a float (`config.py:172`), a configuration file that is not UTF-8
  (`config.py:208`) or with a path below the home of nobody (`config.py:185`), all against
  `config.py:14` ("never a bare traceback"); `rate_limit_rps = nan`, which passes every
  check and makes `time.sleep` raise; a truncated cache file (`zlib.error` is not in the
  tuple at `cache.py:94`, against `cache.py:76-77`); a `put` on a full disk (`cache.py:134`); a document of
  SEC's without the fields expected (`endpoints.py:137`); `tags: 5` in the mapping
  (`statements.py:202`). All of them are in `Cli`, and `ExitTellsWhatHappened` says which causes
  end in code 1, and that no failure of SEC's and none of the input does.
- The macro removes the old file "so we don't mistake an old file for evidence that THIS
  run succeeded" (`SpikeShell.bas:88-89`). It can still take the file of a late child of
  an earlier launch, and an old file that `Dir` did not see when it was to be removed
  (`SpikeShell.bas:154-156`) and sees later. `NoOldFileIsTaken` says that nothing else is taken.
- The macro waits for the file to exist, where `SpikeShell.bas:49-50` has it wait for
  `spike_target.py` "to finish writing": a half-written file is opened, and the launch reported as failed.
- It times out with the file there if the sandbox hides the file from `Dir`, or lets it be seen
  again too late; `spike/README.md:174-177` lists only a child that never started and a write
  that was blocked.
- The LTM column's change in working capital covers the months since the fiscal
  year end only (`statements.py:993`, explained at `:989-992`; compare `PLANNING.md:323`).

## 7 What is not modelled

- Text: what argparse accepts, logging, rendering, the fields of a good JSON
  document, gzip. A file of the cache is whole, absent or damaged.
- The parsing of a fact (`_to_decimal`, `fromisoformat`): a fact is what it yields.
- Numbers that are no numbers where they only make a wait or an age odd:
  `cache_ttl_hours = nan` or `inf`, `Retry-After: inf`.
- What the names in a list of tags are: a list of strings is taken to be names, in
  `Mapping` and in `Statements`. An anchor with components is in `Mapping` and `Cli` only;
  `Statements` takes it to have none, as in `us_gaap.yaml`.
- A declared year end that is no day of the calendar (`"9999"`), for which `date()` raises
  (`facts.py:210`).
- Damage of a cache file whose exception `cache.py:94` does not name (`zlib.error`,
  `TypeError`) is in `Cli` only; for `SecClient` and `CacheFiles` a damaged file is a miss.
- In the macro, steps of the loop that take as long as a poll interval.
- A clock that is set back, and two processes that write one key: sections 2 and
  8. Two runs at a time over different stages are `SecClient`'s subject, not `Cli`'s.
- Decimal arithmetic: values are integers, and agreement is the same ratio.
- The real calendar: years have equal length. Leap days move an end by one
  day, which the tolerances' drift covers in the model's scale.
- Checks of single fields in the schema: empty labels, units and currency.
- Excel writers and DCF reference: stubs that raise `NotImplementedError`.

## 8 Plan

Done, in this order: TokenBucket with RateCap, CacheFiles with CacheStore,
SecClient, Dedupe, Calendar and Statements; Document, Config, Mapping and Cli;
Shell; the proofs of every invariant and refinement.

Next:

1. Two writers of one key in `CacheFiles`: what `cache.py:14-15` excludes, and
   what would go wrong.
2. A lemma that a mapping `Usable` in the sense of `Mapping` satisfies
   `MappingAssumption`, and one that `Calendar`'s rules agree with those of a
   calendar with leap days up to the drift of one day.

New questions first merge the runs that share an instance.
