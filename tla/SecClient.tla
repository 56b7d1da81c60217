----------------------------- MODULE SecClient -----------------------------
(***************************************************************************)
(* SecClient.get_json of src/fsa/sec/client.py with the response cache of  *)
(* src/fsa/sec/cache.py, for one cache key: SEC replaces the document now  *)
(* and then, clients fetch it, serve it from the cache while it is fresh,  *)
(* revalidate it when it is not, retry what may be transient, and may be   *)
(* killed at any point.  Every run of the command line makes a client of   *)
(* its own and asks for a key once.                                        *)
(*                                                                         *)
(* The document is a version number.  A wait (back-off, Retry-After, the   *)
(* rate limiter, the network) takes any time: the clock ticks between any  *)
(* two steps.  Reading and writing the cache are single steps here; module *)
(* CacheFiles shows what they are made of.                                 *)
(***************************************************************************)
EXTENDS Integers, Sequences

CONSTANTS
  Clients,
  None,            \* no cache entry, no response, no result
  MaxAttempts,     \* _MAX_ATTEMPTS
  Max403Attempts,  \* _MAX_403_ATTEMPTS
  Ttl,             \* cache_ttl_hours
  MaxTime, MaxVersion, MaxCalls   \* bounds of the model

ASSUME ClientAssumption ==
  /\ {MaxAttempts, Max403Attempts, MaxTime, MaxVersion} \subseteq Nat \ {0}
  /\ {Ttl, MaxCalls} \subseteq Nat
\* nothing is not an entry
ASSUME NoneAssumption ==
  /\ None \notin [version : Nat, validated : Nat]
  /\ None \notin [version : Nat, fetched : Nat, validated : Nat, etag : BOOLEAN]

VARIABLES
  clock,      \* datetime.now(timezone.utc)
  published,  \* published[v]: when version v replaced the one before
  tagged,     \* whether SEC sends an ETag with this document
  disk,       \* the cache entry
  call,       \* call[c]: the call client c is in
  calls,      \* calls made, bounded by MaxCalls
  retrieved   \* history: [version, fetched] of every response with a body

vars == <<clock, published, tagged, disk, call, calls, retrieved>>

Entry(version, fetched, validated, etag) ==
  [version |-> version, fetched |-> fetched, validated |-> validated, etag |-> etag]
\* FetchResult
Result(version, fetched, cached, revalidated) ==
  [version |-> version, fetched |-> fetched, cached |-> cached, revalidated |-> revalidated]

Idle == [stage |-> "idle", use |-> FALSE, force |-> FALSE, entry |-> None, now |-> 0,
         attempt |-> 0, denied |-> 0, response |-> None, result |-> None, error |-> "",
         sent |-> 0, sent403 |-> 0, hopeless |-> FALSE]

Current == Len(published)

Init ==
  /\ clock = 1
  /\ published = <<1>>
  /\ tagged \in BOOLEAN
  /\ disk = None
  /\ call = [c \in Clients |-> Idle]
  /\ calls = 0
  /\ retrieved = {}

-----------------------------------------------------------------------------

At(c, stage) == call[c].stage = stage
Unchanged == UNCHANGED <<clock, published, tagged, calls, retrieved>>
\* what is left of a call that has ended
Ended(read, stage) == [Idle EXCEPT !.stage = stage, !.use = read.use, !.force = read.force,
                                   !.now = read.now]
Fail(c, error) ==
  /\ call' = [call EXCEPT ![c] = [Ended(call[c], "failed") EXCEPT !.error = error]]
  /\ disk' = disk

\* a new process: --no-cache and --refresh are its options, and the first
\* of them makes the second one meaningless
Start(c) ==
  /\ At(c, "idle") /\ calls < MaxCalls
  /\ calls' = calls + 1
  /\ \E use, force \in BOOLEAN :
       /\ force => use
       /\ call' = [call EXCEPT ![c] = [Idle EXCEPT !.stage = "lookup", !.use = use, !.force = force]]
  /\ UNCHANGED <<clock, published, tagged, disk, retrieved>>

\* whether an entry is served without asking SEC
\* mutant: --refresh is not looked at
IsHitDespiteRefresh(c, entry) == entry # None /\ clock - entry.validated < Ttl
IsHit(c, entry) ==
  /\ entry # None /\ ~call[c].force
  /\ clock - entry.validated < Ttl

\* the cache is read, then the time
Lookup(c) ==
  LET entry == IF call[c].use THEN disk ELSE None
      read == [call[c] EXCEPT !.entry = entry, !.now = clock]
  IN  /\ At(c, "lookup")
      /\ call' = [call EXCEPT ![c] =
           IF IsHit(c, entry)
           THEN [Ended(read, "returned") EXCEPT
                   !.result = Result(entry.version, entry.fetched, TRUE, FALSE)]
           ELSE [read EXCEPT !.stage = "send", !.attempt = 1]]
      /\ disk' = disk /\ Unchanged

Failures == {"error", "403", "404", "429", "5xx", "other"}
Response(status, version) == [status |-> status, version |-> version]
Conditional(c) == call[c].entry # None /\ call[c].entry.etag
\* an answer with something in it: the current version or, to a conditional
\* request for just that version, a 304
Answers(c) ==
  {Response("200", Current)}
    \cup {r \in {Response("304", Current)} : Conditional(c) /\ call[c].entry.version = Current}

Succeed(c) ==
  /\ At(c, "send")
  /\ \E r \in Answers(c) :
       call' = [call EXCEPT ![c].stage = "answered", ![c].response = r]
  /\ disk' = disk /\ Unchanged

\* whether an attempt that failed is followed by another: 429, 5xx and network
\* errors within one budget, a 403 within a budget of its own as well
\* mutant: the budgets are spent apart from each other
MayRetryApart(c, status) ==
  \/ status \in {"error", "429", "5xx"} /\ call[c].attempt # MaxAttempts
  \/ status = "403" /\ call[c].denied + 1 < Max403Attempts
MayRetry(c, status) ==
  /\ call[c].attempt # MaxAttempts
  /\ \/ status \in {"error", "429", "5xx"}
     \/ status = "403" /\ call[c].denied + 1 < Max403Attempts

\* the counters of the code, and those of the requests really sent, which the
\* code does not look at (sent goes no further than one too many)
Again(c, status) ==
  [call[c] EXCEPT !.attempt = @ + 1,
                  !.denied = IF status = "403" THEN @ + 1 ELSE @,
                  !.sent = IF @ > MaxAttempts THEN @ - 1 ELSE @ + 1,
                  !.sent403 = IF status = "403" THEN @ + 1 ELSE @,
                  !.hopeless = @ \/ status \in {"404", "other"}]

\* a failed attempt of _request_with_retries that is followed by another
\* mutant: the attempt is not counted
RetryUncounted(c) ==
  /\ At(c, "send")
  /\ \E status \in Failures :
       /\ MayRetry(c, status)
       /\ call' = [call EXCEPT ![c] = [Again(c, status) EXCEPT !.attempt = call[c].attempt]]
  /\ disk' = disk /\ Unchanged
Retry(c) ==
  /\ At(c, "send")
  /\ \E status \in Failures :
       MayRetry(c, status) /\ call' = [call EXCEPT ![c] = Again(c, status)]
  /\ disk' = disk /\ Unchanged

ErrorFor(status) ==
  CASE status = "429" -> "SecRateLimited"
    [] status \in {"5xx", "error"} -> "SecUnavailable"
    [] OTHER -> "SecHttpError"

\* ... and one that is not
GiveUp(c) ==
  /\ At(c, "send")
  /\ \E status \in Failures : ~MayRetry(c, status) /\ Fail(c, ErrorFor(status))
  /\ Unchanged

\* a 200 whose body is no JSON
Garbled(c) ==
  /\ At(c, "send")
  /\ Fail(c, "SecHttpError") /\ Unchanged

\* what a 200 and a 304 leave in the cache; both are dated to the time the
\* call read before it sent anything
\* mutant: validated when it is stored
EntryForAtStoring(c) ==
  IF call[c].response.status = "304"
  THEN [call[c].entry EXCEPT !.validated = clock]
  ELSE Entry(call[c].response.version, call[c].now, clock, tagged)
\* mutant: a 304 moves the wrong date
EntryForRefetched(c) ==
  IF call[c].response.status = "304"
  THEN [call[c].entry EXCEPT !.fetched = call[c].now]
  ELSE Entry(call[c].response.version, call[c].now, call[c].now, tagged)
EntryFor(c) ==
  IF call[c].response.status = "304"
  THEN [call[c].entry EXCEPT !.validated = call[c].now]
  ELSE Entry(call[c].response.version, call[c].now, call[c].now, tagged)

Deliver(c) ==
  LET r == call[c].response
      entry == EntryFor(c)
  IN  /\ At(c, "answered")
      /\ call' = [call EXCEPT ![c] = [Ended(@, "returned") EXCEPT
                    !.result = Result(entry.version, entry.fetched,
                                      r.status = "304", r.status = "304")]]
      /\ disk' = IF call[c].use THEN entry ELSE disk
      /\ retrieved' = IF r.status = "304" THEN retrieved
                      ELSE retrieved \cup {[version |-> r.version, fetched |-> call[c].now]}
      /\ UNCHANGED <<clock, published, tagged, calls>>

\* ResponseCache.put raises OSError, which get_json does not catch
StoreFails(c) ==
  /\ At(c, "answered") /\ call[c].use
  /\ Fail(c, "OSError") /\ Unchanged

\* the caller has its result or error; or the process dies somewhere
Finish(c) ==
  /\ call[c].stage \in {"returned", "failed"}
  /\ call' = [call EXCEPT ![c] = Idle] /\ disk' = disk /\ Unchanged
Crash(c) ==
  /\ call[c].stage \in {"lookup", "send", "answered"}
  /\ call' = [call EXCEPT ![c] = Idle] /\ disk' = disk /\ Unchanged

\* The cache file is deleted or damaged: ResponseCache.get reports a miss.  (The
\* damage whose exceptions cache.py:94 does not name ends the run: Lookup of Cli.)
LoseEntry == disk # None /\ disk' = None /\ call' = call /\ Unchanged

Tick ==
  /\ clock < MaxTime /\ clock' = clock + 1
  /\ UNCHANGED <<published, tagged, disk, call, calls, retrieved>>

Publish ==
  /\ Current < MaxVersion /\ published' = Append(published, clock)
  /\ UNCHANGED <<clock, tagged, disk, call, calls, retrieved>>

Step(c) == Start(c) \/ Lookup(c) \/ Succeed(c) \/ Retry(c) \/ GiveUp(c) \/ Garbled(c)
             \/ Deliver(c) \/ StoreFails(c) \/ Finish(c)

Next == (\E c \in Clients : Step(c) \/ Crash(c)) \/ LoseEntry \/ Tick \/ Publish

Spec == Init /\ [][Next]_vars

\* A client that is not killed goes on: the requests have a timeout, sleeps
\* and the limiter end.
FairSpec == Spec /\ \A c \in Clients : WF_vars(Step(c))

-----------------------------------------------------------------------------

Stages == {"idle", "lookup", "send", "answered", "returned", "failed"}
Entries == [version : 1..MaxVersion, fetched : 1..MaxTime, validated : 1..MaxTime, etag : BOOLEAN]

\* The state is well typed; an entry was validated no earlier than fetched.
TypeOK ==
  /\ clock \in 1..MaxTime
  /\ Current \in 1..MaxVersion
  /\ tagged \in BOOLEAN
  /\ disk = None \/ (disk \in Entries /\ disk.fetched <= disk.validated)
  /\ \A c \in Clients :
       /\ call[c].stage \in Stages
       /\ call[c].attempt \in 0..MaxAttempts
       /\ At(c, "returned") => call[c].result.version \in 1..Current
       /\ At(c, "failed") => call[c].error # ""
  /\ calls \in 0..MaxCalls

\* whether version v was still the current one at time t or later
CurrentAtOrAfter(v, t) == v = Current \/ published[v + 1] >= t

\* get_json's freshness policy, client.py:140-155: a result was the current
\* document at some moment since the call began if the cache was bypassed or
\* a refresh was asked for, and within the last Ttl before it otherwise,
\* whatever else happened between the request and the answer.
FreshAsPromised ==
  \A c \in Clients : At(c, "returned") =>
    LET since == IF call[c].force \/ ~call[c].use THEN call[c].now ELSE call[c].now - Ttl
    IN  CurrentAtOrAfter(call[c].result.version, since)

\* FetchResult.fetched_at, client.py:64-68: neither a cache hit nor a 304
\* changes it; a result and the cache carry the date of the call that brought
\* this body, whoever made it.
ProvenanceKept ==
  LET Known(e) == [version |-> e.version, fetched |-> e.fetched] \in retrieved
  IN  /\ disk # None => Known(disk)
      /\ \A c \in Clients : At(c, "returned") => Known(call[c].result)

\* client.py:24-31: a call sends at most MaxAttempts requests, at most
\* Max403Attempts that are answered 403, and none after a 404, whatever the
\* mixture of failures.
RetriesBounded ==
  \A c \in Clients : At(c, "send") =>
    /\ call[c].sent < MaxAttempts
    /\ call[c].sent403 < Max403Attempts
    /\ ~call[c].hopeless

\* A call ends, with a result or an error.
CallEnds == \A c \in Clients : At(c, "lookup") ~> At(c, "idle")

\* The client keeps the promise of module Document, the versions and dates of
\* every result and of the entry included, whatever the clients do to each
\* other's entry and however often they are refused.
Insists(k) == k.force \/ ~k.use
Kept(entry) ==
  IF entry = None THEN None ELSE [version |-> entry.version, validated |-> entry.validated]
Seen(k) ==
  CASE k.stage \in {"idle", "lookup"} -> [stage |-> "idle"]
    [] k.stage \in {"send", "answered"} ->
         [stage |-> "asked", now |-> k.now, insist |-> Insists(k)]
    [] k.stage = "returned" ->
         [stage |-> "has", version |-> k.result.version, now |-> k.now, insist |-> Insists(k)]
    [] k.stage = "failed" -> [stage |-> "failed"]
Promised == INSTANCE Document WITH
  Readers <- Clients, stored <- Kept(disk), reading <- [c \in Clients |-> Seen(call[c])]
ImplementsDocument == Promised!Spec
=============================================================================
