-------------------------- MODULE SecClient_proofs --------------------------
(***************************************************************************)
(* Freshness, provenance and the retry budget of SecClient, for every      *)
(* number of clients that share the entry, every TTL, budget and bound.    *)
(* Entries, pending answers and results are each tied to the moment since  *)
(* which their version has been current; publishing a version keeps every  *)
(* such tie, and so does time.  The ties are stated for a given clock,     *)
(* publication history and set of retrievals, so that their lemmas are     *)
(* about values rather than states.  The second part shows that SecClient  *)
(* implements Document.                                                    *)
(***************************************************************************)
EXTENDS SecClient, TLAPS

Responses == [status : {"200", "304"}, version : 1..MaxVersion]
Results == [version : 1..MaxVersion, fetched : 1..MaxTime, cached : BOOLEAN, revalidated : BOOLEAN]
Errors == {"", "SecRateLimited", "SecUnavailable", "SecHttpError", "OSError"}
Calls == [stage : Stages, use : BOOLEAN, force : BOOLEAN, entry : Entries \cup {None},
          now : 0..MaxTime, attempt : 0..MaxAttempts, denied : Nat,
          response : Responses \cup {None}, result : Results \cup {None}, error : Errors,
          sent : Nat, sent403 : Nat, hopeless : BOOLEAN]

TypeInv ==
  /\ clock \in 1..MaxTime
  /\ published \in Seq(1..MaxTime) /\ Len(published) \in 1..MaxVersion
  /\ tagged \in BOOLEAN
  /\ disk \in Entries \cup {None}
  /\ call \in [Clients -> Calls]
  /\ calls \in 0..MaxCalls

\* versions came out in the past
PublishedInv == \A v \in 1..Len(published) : published[v] <= clock

\* version v is out, and was current at time t or later
Alive(v, t, pub) == v \in 1..Len(pub) /\ (v = Len(pub) \/ pub[v + 1] >= t)

\* an entry was current when, or after, it was last validated
EntryOk(e, clk, pub, ret) ==
  e # None => /\ e.validated <= clk /\ e.fetched <= e.validated
              /\ Alive(e.version, e.validated, pub)
              /\ [version |-> e.version, fetched |-> e.fetched] \in ret

\* a pending answer has been current since the call began
AnswerOk(k, pub) ==
  k.stage = "answered" =>
    /\ k.response \in Responses /\ Alive(k.response.version, k.now, pub)
    /\ k.response.status = "304" => k.entry # None /\ k.entry.version = k.response.version

Since(k) == IF k.force \/ ~k.use THEN k.now ELSE k.now - Ttl
ResultOk(k, pub, ret) ==
  k.stage = "returned" =>
    /\ k.result \in Results /\ Alive(k.result.version, Since(k), pub)
    /\ [version |-> k.result.version, fetched |-> k.result.fetched] \in ret

\* the code's counters tell what was sent
BudgetOk(k) ==
  /\ k.stage = "lookup" => k.sent = 0 /\ k.sent403 = 0 /\ k.denied = 0 /\ ~k.hopeless
  /\ k.stage = "send" =>
       /\ k.attempt \in 1..MaxAttempts /\ k.sent = k.attempt - 1
       /\ k.sent403 = k.denied /\ k.denied < Max403Attempts
       /\ ~k.hopeless

CallOk(k, clk, pub, ret) ==
  /\ EntryOk(k.entry, clk, pub, ret)
  /\ k.now <= clk
  /\ k.stage \in {"send", "answered"} =>
       1 <= k.now /\ (k.entry # None => k.entry.validated <= k.now)
  /\ AnswerOk(k, pub) /\ ResultOk(k, pub, ret) /\ BudgetOk(k)
  /\ k.stage = "failed" => k.error # ""

IInv == /\ TypeInv /\ PublishedInv
        /\ EntryOk(disk, clock, published, retrieved)
        /\ \A c \in Clients : CallOk(call[c], clock, published, retrieved)

-----------------------------------------------------------------------------
(* About values. *)

LEMMA IdleIsACall ==
  ASSUME NEW clk \in Nat, NEW pub, NEW ret
  PROVE  Idle \in Calls /\ CallOk(Idle, clk, pub, ret)
<1>1. Idle \in Calls
  <2>1. 0 \in 0..MaxAttempts /\ 0 \in 0..MaxTime
    BY ClientAssumption
  <2>2. None \in Entries \cup {None} /\ None \in Responses \cup {None} /\ None \in Results \cup {None}
    OBVIOUS
  <2>3. "" \in Errors
    BY DEF Errors
  <2> QED BY <2>1, <2>2, <2>3 DEF Idle, Calls, Stages
<1>2. /\ Idle.stage = "idle" /\ Idle.entry = None /\ Idle.now = 0
  BY DEF Idle
<1>3. CallOk(Idle, clk, pub, ret)
  BY <1>2 DEF CallOk, EntryOk, AnswerOk, ResultOk, BudgetOk
<1> QED BY <1>1, <1>3

LEMMA CallFields ==
  ASSUME NEW k \in Calls
  PROVE  k.entry \in Entries \cup {None} /\ k.now \in Nat
<1>1. k.entry \in Entries \cup {None} /\ k.now \in 0..MaxTime
  BY DEF Calls
<1> QED BY <1>1, ClientAssumption

\* a call that has ended
LEMMA EndedIsACall ==
  ASSUME NEW k \in Calls, NEW stage \in Stages
  PROVE  /\ Ended(k, stage) \in Calls
         /\ Ended(k, stage).stage = stage /\ Ended(k, stage).entry = None
         /\ Ended(k, stage).use = k.use /\ Ended(k, stage).force = k.force
         /\ Ended(k, stage).now = k.now
<1>1. Idle \in Calls /\ Idle.entry = None
  BY IdleIsACall DEF Idle
<1>2. k.use \in BOOLEAN /\ k.force \in BOOLEAN /\ k.now \in 0..MaxTime
  BY DEF Calls
<1> DEFINE m == [Idle EXCEPT !.stage = stage, !.use = k.use, !.force = k.force, !.now = k.now]
<1>3. m \in Calls
  BY <1>1, <1>2 DEF Calls
<1>4. m.stage = stage /\ m.entry = None /\ m.use = k.use /\ m.force = k.force /\ m.now = k.now
  BY <1>1 DEF Calls
<1>5. m = Ended(k, stage)
  BY DEF Ended
<1> HIDE DEF m
<1> QED BY <1>3, <1>4, <1>5

Returned(k, r) == [Ended(k, "returned") EXCEPT !.result = r]
LEMMA ReturnedIsACall ==
  ASSUME NEW k \in Calls, NEW r \in Results
  PROVE  /\ Returned(k, r) \in Calls
         /\ Returned(k, r).stage = "returned" /\ Returned(k, r).entry = None
         /\ Returned(k, r).result = r
         /\ Returned(k, r).use = k.use /\ Returned(k, r).force = k.force
         /\ Returned(k, r).now = k.now
<1> DEFINE e == Ended(k, "returned")
<1>1. /\ e \in Calls /\ e.stage = "returned" /\ e.entry = None
      /\ e.use = k.use /\ e.force = k.force /\ e.now = k.now
  BY EndedIsACall DEF Stages
<1>2. Returned(k, r) = [e EXCEPT !.result = r]
  BY DEF Returned
<1> HIDE DEF e
<1> QED BY <1>1, <1>2 DEF Calls

Failed(k, error) == [Ended(k, "failed") EXCEPT !.error = error]
LEMMA FailedIsACall ==
  ASSUME NEW k \in Calls, NEW error \in Errors, error # ""
  PROVE  /\ Failed(k, error) \in Calls
         /\ Failed(k, error).stage = "failed" /\ Failed(k, error).entry = None
         /\ Failed(k, error).now = k.now /\ Failed(k, error).error # ""
<1> DEFINE e == Ended(k, "failed")
<1>1. /\ e \in Calls /\ e.stage = "failed" /\ e.entry = None /\ e.now = k.now
  BY EndedIsACall DEF Stages
<1>2. Failed(k, error) = [e EXCEPT !.error = error]
  BY DEF Failed
<1> HIDE DEF e
<1> QED BY <1>1, <1>2 DEF Calls

\* time passes, bodies are retrieved
LEMMA EntryLater ==
  ASSUME NEW e \in Entries \cup {None}, NEW clk \in Nat, NEW later \in Nat, clk <= later,
         NEW pub, NEW ret, NEW more, ret \subseteq more, EntryOk(e, clk, pub, ret)
  PROVE  EntryOk(e, later, pub, more)
BY DEF EntryOk, Entries

LEMMA CallLater ==
  ASSUME NEW k \in Calls, NEW clk \in Nat, NEW later \in Nat, clk <= later,
         NEW pub, NEW ret, NEW more, ret \subseteq more, CallOk(k, clk, pub, ret)
  PROVE  CallOk(k, later, pub, more)
<1>1. k.entry \in Entries \cup {None} /\ k.now \in Nat
  BY CallFields
<1>2. EntryOk(k.entry, later, pub, more)
  BY <1>1, EntryLater DEF CallOk
<1>3. k.now <= later
  <2>1. k.now <= clk
    BY DEF CallOk
  <2> QED BY <1>1, <2>1
<1>4. ResultOk(k, pub, more)
  BY DEF CallOk, ResultOk
<1> QED BY <1>2, <1>3, <1>4 DEF CallOk

LEMMA SeqElement ==
  ASSUME NEW S, NEW q \in Seq(S), NEW n \in 1..Len(q)
  PROVE  q[n] \in S
OBVIOUS

\* what was current at some time was so at an earlier one, or later
LEMMA AliveSooner ==
  ASSUME NEW pub \in Seq(1..MaxTime), NEW v, NEW t \in Int, NEW u \in Int, u <= t,
         Alive(v, t, pub)
  PROVE  Alive(v, u, pub)
<1>1. CASE v = Len(pub)
  BY <1>1 DEF Alive
<1>2. CASE v # Len(pub)
  <2>1. v + 1 \in 1..Len(pub) /\ pub[v + 1] >= t
    BY <1>2 DEF Alive
  <2>2. pub[v + 1] \in 1..MaxTime
    BY <2>1, SeqElement
  <2> QED BY <2>1, <2>2 DEF Alive
<1> QED BY <1>1, <1>2

\* a version that is replaced was current until then
LEMMA AliveAfter ==
  ASSUME NEW pub \in Seq(1..MaxTime), NEW v, NEW t \in Int, NEW clk \in 1..MaxTime, t <= clk,
         Alive(v, t, pub)
  PROVE  Alive(v, t, Append(pub, clk))
<1>1. /\ Len(Append(pub, clk)) = Len(pub) + 1
      /\ \A n \in 1..Len(pub) : Append(pub, clk)[n] = pub[n]
      /\ Append(pub, clk)[Len(pub) + 1] = clk
  OBVIOUS
<1>2. CASE v = Len(pub)
  BY <1>1, <1>2 DEF Alive
<1>3. CASE v # Len(pub)
  BY <1>1, <1>3 DEF Alive
<1> QED BY <1>2, <1>3

LEMMA EntryAfter ==
  ASSUME NEW e \in Entries \cup {None}, NEW clk \in 1..MaxTime, NEW pub \in Seq(1..MaxTime),
         NEW ret, EntryOk(e, clk, pub, ret)
  PROVE  EntryOk(e, clk, Append(pub, clk), ret)
<1> SUFFICES ASSUME e # None PROVE Alive(e.version, e.validated, Append(pub, clk))
  BY DEF EntryOk
<1>1. e.validated \in Int /\ e.validated <= clk /\ Alive(e.version, e.validated, pub)
  BY ClientAssumption DEF EntryOk, Entries
<1> QED BY <1>1, AliveAfter

LEMMA CallAfter ==
  ASSUME NEW k \in Calls, NEW clk \in 1..MaxTime, NEW pub \in Seq(1..MaxTime), NEW ret,
         CallOk(k, clk, pub, ret)
  PROVE  CallOk(k, clk, Append(pub, clk), ret)
<1>1. k.entry \in Entries \cup {None} /\ k.now \in Int /\ k.now <= clk
  <2>1. k.entry \in Entries \cup {None} /\ k.now \in Nat
    BY CallFields
  <2>2. k.now <= clk
    BY DEF CallOk
  <2> QED BY <2>1, <2>2
<1>2. EntryOk(k.entry, clk, Append(pub, clk), ret)
  BY <1>1, EntryAfter DEF CallOk
<1>3. AnswerOk(k, Append(pub, clk))
  BY <1>1, AliveAfter DEF CallOk, AnswerOk
<1>4. Since(k) \in Int /\ Since(k) <= clk
  BY <1>1, ClientAssumption DEF Since
<1>5. ResultOk(k, Append(pub, clk), ret)
  BY <1>4, AliveAfter DEF CallOk, ResultOk
<1> QED BY <1>2, <1>3, <1>5 DEF CallOk

-----------------------------------------------------------------------------
(* Steps. *)

LEMMA InitIInv == Init => IInv
<1> SUFFICES ASSUME Init PROVE IInv
  OBVIOUS
<1>1. clock = 1 /\ published = <<1>> /\ disk = None /\ calls = 0
  BY DEF Init
<1>2. Idle \in Calls /\ CallOk(Idle, clock, published, retrieved)
  BY <1>1, IdleIsACall
<1>3. TypeInv
  BY <1>2, ClientAssumption DEF Init, TypeInv
<1>4. PublishedInv
  BY <1>1 DEF PublishedInv
<1>5. EntryOk(disk, clock, published, retrieved)
  BY <1>1 DEF EntryOk
<1> QED BY <1>2, <1>3, <1>4, <1>5 DEF IInv, Init

\* a step of one client
LEMMA ClientStep ==
  ASSUME IInv, NEW c \in Clients, NEW k \in Calls,
         call' = [call EXCEPT ![c] = k],
         UNCHANGED <<clock, published, tagged>>, calls' \in 0..MaxCalls,
         retrieved \subseteq retrieved',
         disk' \in Entries \cup {None}, EntryOk(disk', clock, published, retrieved'),
         CallOk(k, clock, published, retrieved')
  PROVE  IInv'
<1>1. TypeInv'
  BY DEF IInv, TypeInv
<1>2. PublishedInv'
  BY DEF IInv, PublishedInv
<1>3. EntryOk(disk', clock', published', retrieved')
  OBVIOUS
<1>4. ASSUME NEW d \in Clients PROVE CallOk(call'[d], clock', published', retrieved')
  <2>1. CASE d = c
    BY <2>1 DEF IInv, TypeInv
  <2>2. CASE d # c
    <3>1. call'[d] = call[d] /\ call[d] \in Calls /\ clock \in Nat /\ clock <= clock
      BY <2>2, ClientAssumption DEF IInv, TypeInv
    <3>2. CallOk(call[d], clock, published, retrieved)
      BY DEF IInv
    <3>3. CallOk(call[d], clock, published, retrieved')
      BY <3>1, <3>2, CallLater
    <3> QED BY <3>1, <3>3
  <2> QED BY <2>1, <2>2
<1> QED BY <1>1, <1>2, <1>3, <1>4 DEF IInv

\* ... that leaves everything but the call alone
LEMMA QuietStep ==
  ASSUME IInv, NEW c \in Clients, NEW k \in Calls,
         call' = [call EXCEPT ![c] = k],
         UNCHANGED <<clock, published, tagged, disk, retrieved>>, calls' \in 0..MaxCalls,
         CallOk(k, clock, published, retrieved)
  PROVE  IInv'
<1>1. disk' \in Entries \cup {None} /\ EntryOk(disk', clock, published, retrieved')
  BY DEF IInv, TypeInv
<1>2. retrieved \subseteq retrieved' /\ CallOk(k, clock, published, retrieved')
  OBVIOUS
<1> QED BY <1>1, <1>2, ClientStep

LEMMA StartIInv ==
  ASSUME IInv, NEW c \in Clients, Start(c) PROVE IInv'
<1>1. PICK use \in BOOLEAN, force \in BOOLEAN :
        call' = [call EXCEPT ![c] = [Idle EXCEPT !.stage = "lookup", !.use = use, !.force = force]]
  BY DEF Start
<1> DEFINE k == [Idle EXCEPT !.stage = "lookup", !.use = use, !.force = force]
<1>2. clock \in Nat /\ calls' \in 0..MaxCalls
  BY ClientAssumption DEF Start, IInv, TypeInv
<1>3. Idle \in Calls /\ CallOk(Idle, clock, published, retrieved)
  BY <1>2, IdleIsACall
<1>4. /\ k \in Calls
      /\ k.stage = "lookup" /\ k.entry = Idle.entry /\ k.now = Idle.now
      /\ k.sent = Idle.sent /\ k.sent403 = Idle.sent403 /\ k.denied = Idle.denied
      /\ k.hopeless = Idle.hopeless
  BY <1>3 DEF Calls, Stages
<1> HIDE DEF k
<1>a. BudgetOk(k)
  BY <1>4 DEF BudgetOk, Idle
<1>5. CallOk(k, clock, published, retrieved)
  BY <1>3, <1>4, <1>a DEF CallOk, AnswerOk, ResultOk
<1> QED BY <1>1, <1>2, <1>4, <1>5, QuietStep DEF Start, k

LEMMA LookupIInv ==
  ASSUME IInv, NEW c \in Clients, Lookup(c) PROVE IInv'
<1> DEFINE e == IF call[c].use THEN disk ELSE None
           read == [call[c] EXCEPT !.entry = e, !.now = clock]
           hit == Returned(read, Result(e.version, e.fetched, TRUE, FALSE))
           miss == [read EXCEPT !.stage = "send", !.attempt = 1]
<1>1. /\ call' = [call EXCEPT ![c] = IF IsHit(c, e) THEN hit ELSE miss]
      /\ UNCHANGED <<clock, published, tagged, disk, retrieved, calls>>
  BY DEF Lookup, Unchanged, Returned
<1>2. /\ clock \in 1..MaxTime /\ call[c] \in Calls /\ e \in Entries \cup {None}
      /\ calls \in 0..MaxCalls /\ clock \in Nat /\ clock \in 0..MaxTime
  BY ClientAssumption DEF IInv, TypeInv
<1>3. EntryOk(e, clock, published, retrieved)
  BY DEF IInv, EntryOk
<1>4. /\ read \in Calls /\ read.use = call[c].use /\ read.force = call[c].force
      /\ read.now = clock /\ read.entry = e
  <2> HIDE DEF e
  <2> QED BY <1>2 DEF Calls
<1>5. CASE IsHit(c, e)
  <2>1. /\ e \in Entries /\ e # None /\ ~call[c].force /\ clock - e.validated < Ttl
        /\ call[c].use
    BY <1>2, <1>5 DEF IsHit
  <2>2. Result(e.version, e.fetched, TRUE, FALSE) \in Results
    <3> HIDE DEF e
    <3> QED BY <2>1 DEF Entries, Results, Result
  <2>4. /\ hit \in Calls
        /\ hit.stage = "returned" /\ hit.entry = None /\ hit.now = clock
        /\ hit.use = call[c].use /\ hit.force = call[c].force
        /\ hit.result = Result(e.version, e.fetched, TRUE, FALSE)
    <3> HIDE DEF read, e
    <3> QED BY <1>4, <2>2, ReturnedIsACall
  <2>6. Alive(e.version, clock - Ttl, published)
    <3> HIDE DEF e
    <3>1. e.validated \in Int /\ e.version \in Int /\ clock - Ttl <= e.validated /\ Ttl \in Int
      BY <1>2, <2>1, ClientAssumption DEF Entries
    <3>2. Alive(e.version, e.validated, published)
      BY <1>3, <2>1 DEF EntryOk
    <3>3. published \in Seq(1..MaxTime)
      BY DEF IInv, TypeInv
    <3> QED BY <1>2, <3>1, <3>2, <3>3, AliveSooner
  <2> HIDE DEF hit, read, e
  <2>7. ResultOk(hit, published, retrieved)
    <3>1. [version |-> e.version, fetched |-> e.fetched] \in retrieved
      BY <1>3, <2>1 DEF EntryOk
    <3>2. Since(hit) = clock - Ttl
      BY <2>1, <2>4 DEF Since
    <3>3. hit.result \in Results /\ hit.result.version = e.version /\ hit.result.fetched = e.fetched
      BY <2>2, <2>4 DEF Result
    <3> QED BY <2>4, <2>6, <3>1, <3>2, <3>3 DEF ResultOk
  <2>8. CallOk(hit, clock, published, retrieved)
    BY <1>2, <2>4, <2>7 DEF CallOk, EntryOk, AnswerOk, BudgetOk
  <2>9. call' = [call EXCEPT ![c] = hit]
    BY <1>1, <1>5
  <2> QED BY <1>1, <1>2, <2>4, <2>8, <2>9, QuietStep
<1>6. CASE ~IsHit(c, e)
  <2> HIDE DEF read, e
  <2>1. /\ miss \in Calls /\ miss.stage = "send" /\ miss.entry = e /\ miss.now = clock
        /\ miss.attempt = 1
    <3>1. 1 \in 0..MaxAttempts
      BY ClientAssumption
    <3> QED BY <1>4, <3>1 DEF Calls, Stages
  <2>2. miss.sent = 0 /\ miss.sent403 = 0 /\ miss.denied = 0 /\ ~miss.hopeless
    <3>1. /\ call[c].stage = "lookup" /\ BudgetOk(call[c])
      BY DEF Lookup, At, IInv, CallOk
    <3>2. /\ call[c].sent = 0 /\ call[c].sent403 = 0 /\ call[c].denied = 0
          /\ ~call[c].hopeless
      BY <3>1 DEF BudgetOk
    <3>3. /\ read.sent = 0 /\ read.sent403 = 0 /\ read.denied = 0 /\ ~read.hopeless
      BY <1>2, <3>2 DEF read, Calls
    <3> QED BY <1>4, <3>3 DEF Calls
  <2> HIDE DEF miss
  <2>3. BudgetOk(miss)
    BY <2>1, <2>2, ClientAssumption DEF BudgetOk
  <2>4. CallOk(miss, clock, published, retrieved)
    BY <1>2, <1>3, <2>1, <2>3 DEF CallOk, EntryOk, AnswerOk, ResultOk
  <2> QED BY <1>1, <1>2, <1>6, <2>1, <2>4, QuietStep
<1> QED BY <1>5, <1>6

LEMMA SucceedIInv ==
  ASSUME IInv, NEW c \in Clients, Succeed(c) PROVE IInv'
<1>1. PICK r \in Answers(c) :
        call' = [call EXCEPT ![c].stage = "answered", ![c].response = r]
  BY DEF Succeed
<1>2. /\ UNCHANGED <<clock, published, tagged, disk, retrieved, calls>>
      /\ call[c].stage = "send"
  BY DEF Succeed, Unchanged, At
<1>3. /\ call \in [Clients -> Calls] /\ call[c] \in Calls /\ calls \in 0..MaxCalls
      /\ CallOk(call[c], clock, published, retrieved)
      /\ published \in Seq(1..MaxTime) /\ Len(published) \in 1..MaxVersion
  BY DEF IInv, TypeInv
<1>4. /\ r \in Responses /\ r.version = Len(published)
      /\ r.status = "304" => call[c].entry # None /\ call[c].entry.version = r.version
  <2>1. CASE r = Response("200", Current)
    BY <1>3, <2>1 DEF Response, Responses, Current
  <2>2. CASE r = Response("304", Current) /\ Conditional(c) /\ call[c].entry.version = Current
    BY <1>3, <2>2 DEF Response, Responses, Current, Conditional
  <2> QED BY <2>1, <2>2 DEF Answers
<1> DEFINE k == [call[c] EXCEPT !.stage = "answered", !.response = r]
<1>5. call' = [call EXCEPT ![c] = k]
  BY <1>1, <1>3
<1>6. /\ k \in Calls /\ k.stage = "answered" /\ k.response = r
      /\ k.entry = call[c].entry /\ k.now = call[c].now
  BY <1>3, <1>4 DEF Calls, Stages
<1> HIDE DEF k
<1>7. AnswerOk(k, published)
  BY <1>3, <1>4, <1>6 DEF AnswerOk, Alive
<1>8. CallOk(k, clock, published, retrieved)
  BY <1>2, <1>3, <1>6, <1>7 DEF CallOk, ResultOk, BudgetOk
<1> QED BY <1>2, <1>3, <1>5, <1>6, <1>8, QuietStep

LEMMA RetryIInv ==
  ASSUME IInv, NEW c \in Clients, Retry(c) PROVE IInv'
<1>1. PICK status \in Failures :
        MayRetry(c, status) /\ call' = [call EXCEPT ![c] = Again(c, status)]
  BY DEF Retry
<1>2. /\ UNCHANGED <<clock, published, tagged, disk, retrieved, calls>>
      /\ call[c].stage = "send"
  BY DEF Retry, Unchanged, At
<1>3. /\ call[c] \in Calls /\ calls \in 0..MaxCalls
      /\ CallOk(call[c], clock, published, retrieved)
  BY DEF IInv, TypeInv
<1> DEFINE b == call[c]
           k == Again(c, status)
           denied == IF status = "403" THEN b.denied + 1 ELSE b.denied
           denied2 == IF status = "403" THEN b.sent403 + 1 ELSE b.sent403
<1>4. /\ b.attempt \in 1..MaxAttempts /\ b.sent = b.attempt - 1
      /\ b.sent403 = b.denied /\ b.denied < Max403Attempts /\ ~b.hopeless
      /\ b.denied \in Nat /\ b.sent \in Nat /\ b.sent403 \in Nat
  BY <1>2, <1>3 DEF CallOk, BudgetOk, Calls
<1>5. /\ b.attempt # MaxAttempts
      /\ status = "403" => b.denied + 1 < Max403Attempts
      /\ ~(status \in {"404", "other"})
  BY <1>1 DEF MayRetry
<1>6. /\ b.attempt + 1 \in 1..MaxAttempts /\ b.attempt + 1 \in 0..MaxAttempts
      /\ b.sent + 1 \in Nat /\ b.sent + 1 = b.attempt + 1 - 1
      /\ ~(b.sent > MaxAttempts)
  BY <1>4, <1>5, ClientAssumption
<1>7. k = [b EXCEPT !.attempt = b.attempt + 1, !.denied = denied, !.sent = b.sent + 1,
                    !.sent403 = denied2, !.hopeless = FALSE]
  <2>1. (b.hopeless \/ status \in {"404", "other"}) = FALSE
    BY <1>3, <1>4, <1>5
  <2> QED BY <1>6, <2>1 DEF Again
<1> HIDE DEF k
<1>8. b \in Calls
  BY <1>3
<1>a. /\ denied \in Nat /\ denied2 = denied
      /\ denied < Max403Attempts
  BY <1>4, <1>5, ClientAssumption
<1> HIDE DEF b, denied, denied2
<1>9. k \in Calls
  BY <1>6, <1>7, <1>8, <1>a DEF Calls
<1>10. /\ k.stage = b.stage /\ k.entry = b.entry /\ k.now = b.now
       /\ k.attempt = b.attempt + 1 /\ k.sent = b.sent + 1 /\ k.hopeless = FALSE
       /\ k.denied = denied /\ k.sent403 = denied2
  BY <1>7, <1>8 DEF Calls
<1>11. BudgetOk(k)
  <2>1. k.stage = "send"
    BY <1>2, <1>10 DEF b
  <2>2. k.attempt \in 1..MaxAttempts
    BY <1>6, <1>10
  <2>4. k.sent = k.attempt - 1
    BY <1>4, <1>10
  <2>3. k.sent403 = k.denied /\ k.denied < Max403Attempts /\ ~k.hopeless
    BY <1>10, <1>a
  <2> QED BY <2>1, <2>2, <2>3, <2>4 DEF BudgetOk
<1>12. CallOk(k, clock, published, retrieved)
  BY <1>2, <1>3, <1>10, <1>11 DEF CallOk, AnswerOk, ResultOk, b
<1> QED BY <1>1, <1>2, <1>3, <1>9, <1>12, QuietStep DEF k

LEMMA FailIInv ==
  ASSUME IInv, NEW c \in Clients, NEW error \in Errors, error # "",
         Fail(c, error), Unchanged
  PROVE  IInv'
<1>1. call[c] \in Calls /\ calls \in 0..MaxCalls /\ call[c].now <= clock
  BY DEF IInv, TypeInv, CallOk
<1> DEFINE k == Failed(call[c], error)
<1>2. call' = [call EXCEPT ![c] = k] /\ UNCHANGED <<clock, published, tagged, disk, retrieved, calls>>
  BY DEF Fail, Failed, Unchanged
<1>3. /\ k \in Calls /\ k.stage = "failed" /\ k.entry = None /\ k.now = call[c].now
      /\ k.error # ""
  BY <1>1, FailedIsACall
<1> HIDE DEF k
<1>4. CallOk(k, clock, published, retrieved)
  BY <1>1, <1>3 DEF CallOk, EntryOk, AnswerOk, ResultOk, BudgetOk
<1> QED BY <1>1, <1>2, <1>3, <1>4, QuietStep

LEMMA GiveUpIInv ==
  ASSUME IInv, NEW c \in Clients, GiveUp(c) \/ Garbled(c) \/ StoreFails(c) PROVE IInv'
<1>1. CASE GiveUp(c)
  <2>1. PICK status \in Failures : Fail(c, ErrorFor(status))
    BY <1>1 DEF GiveUp
  <2>2. ErrorFor(status) \in Errors /\ ErrorFor(status) # ""
    BY DEF ErrorFor, Errors, Failures
  <2> QED BY <1>1, <2>1, <2>2, FailIInv DEF GiveUp
<1>2. CASE Garbled(c)
  <2>1. "SecHttpError" \in Errors /\ "SecHttpError" # ""
    BY DEF Errors
  <2> QED BY <1>2, <2>1, FailIInv DEF Garbled
<1>3. CASE StoreFails(c)
  <2>1. "OSError" \in Errors /\ "OSError" # ""
    BY DEF Errors
  <2> QED BY <1>3, <2>1, FailIInv DEF StoreFails
<1> QED BY <1>1, <1>2, <1>3

LEMMA DeliverIInv ==
  ASSUME IInv, NEW c \in Clients, Deliver(c) PROVE IInv'
<1> DEFINE k == call[c]
           r == k.response
           e == EntryFor(c)
           body == [version |-> r.version, fetched |-> k.now]
           result == Result(e.version, e.fetched, r.status = "304", r.status = "304")
           m == Returned(k, result)
<1>1. /\ call \in [Clients -> Calls] /\ k \in Calls /\ calls \in 0..MaxCalls
      /\ CallOk(k, clock, published, retrieved) /\ k.stage = "answered"
      /\ clock \in 1..MaxTime /\ clock \in Nat /\ tagged \in BOOLEAN
      /\ published \in Seq(1..MaxTime)
      /\ disk \in Entries \cup {None} /\ EntryOk(disk, clock, published, retrieved)
  BY ClientAssumption DEF IInv, TypeInv, Deliver, At
<1>2. /\ call' = [call EXCEPT ![c] = m]
      /\ disk' = IF k.use THEN e ELSE disk
      /\ retrieved' = IF r.status = "304" THEN retrieved ELSE retrieved \cup {body}
      /\ UNCHANGED <<clock, published, tagged, calls>>
  BY <1>1 DEF Deliver, Returned
<1>3. /\ k.now \in 1..MaxTime /\ k.now <= clock
      /\ r \in Responses /\ Alive(r.version, k.now, published)
      /\ r.status = "304" => k.entry # None /\ k.entry.version = r.version
      /\ k.entry # None => k.entry.validated <= k.now
      /\ EntryOk(k.entry, clock, published, retrieved)
      /\ k.entry \in Entries \cup {None}
  <2>1. k.now \in 0..MaxTime /\ 1 <= k.now /\ k.entry \in Entries \cup {None}
    BY <1>1 DEF Calls, CallOk
  <2>2. k.now \in 1..MaxTime
    BY <2>1, ClientAssumption
  <2> QED BY <1>1, <2>1, <2>2 DEF CallOk, AnswerOk
<1>4. /\ e \in Entries /\ e.version = r.version /\ e.validated = k.now
      /\ e.fetched <= e.validated
      /\ [version |-> e.version, fetched |-> e.fetched] \in retrieved'
  <2>1. CASE r.status = "304"
    <3>1. /\ k.entry \in Entries /\ k.entry.fetched <= k.entry.validated
          /\ [version |-> k.entry.version, fetched |-> k.entry.fetched] \in retrieved
      BY <1>3, <2>1 DEF EntryOk
    <3>2. e = [k.entry EXCEPT !.validated = k.now]
      BY <2>1 DEF EntryFor
    <3> HIDE DEF e
    <3>3. /\ e \in Entries /\ e.version = k.entry.version /\ e.validated = k.now
          /\ e.fetched = k.entry.fetched
      BY <1>3, <3>1, <3>2 DEF Entries
    <3>4. k.entry.fetched <= k.now
      <4>1. /\ k.entry.fetched \in Int /\ k.entry.validated \in Int /\ k.now \in Int
        BY <1>3, <3>1 DEF Entries
      <4>2. k.entry.validated <= k.now
        BY <1>3, <2>1
      <4> QED BY <3>1, <4>1, <4>2
    <3> QED BY <1>2, <1>3, <2>1, <3>1, <3>3, <3>4
  <2>2. CASE r.status # "304"
    <3>1. e = Entry(r.version, k.now, k.now, tagged)
      BY <2>2 DEF EntryFor
    <3> HIDE DEF e
    <3>2. /\ e \in Entries /\ e.version = r.version /\ e.validated = k.now /\ e.fetched = k.now
      BY <1>1, <1>3, <3>1 DEF Entry, Entries, Responses
    <3> QED BY <1>2, <1>3, <2>2, <3>2
  <2> QED BY <2>1, <2>2
<1> HIDE DEF e
<1>5. retrieved \subseteq retrieved'
  BY <1>2
<1>6. EntryOk(e, clock, published, retrieved')
  BY <1>3, <1>4 DEF EntryOk
<1>7. disk' \in Entries \cup {None} /\ EntryOk(disk', clock, published, retrieved')
  <2>1. EntryOk(disk, clock, published, retrieved')
    BY <1>1, <1>5, EntryLater
  <2> QED BY <1>1, <1>2, <1>4, <1>6, <2>1
<1>8. result \in Results /\ result.version = e.version /\ result.fetched = e.fetched
  BY <1>4 DEF Result, Results, Entries
<1> HIDE DEF result
<1>9. /\ m \in Calls /\ m.stage = "returned" /\ m.entry = None /\ m.result = result
      /\ m.use = k.use /\ m.force = k.force /\ m.now = k.now
  BY <1>1, <1>8, ReturnedIsACall
<1> HIDE DEF m
<1>10. ResultOk(m, published, retrieved')
  <2>1. Since(m) \in Int /\ Since(m) <= k.now
    BY <1>3, <1>9, ClientAssumption DEF Since
  <2>2. Alive(e.version, Since(m), published)
    BY <1>1, <1>3, <1>4, <2>1, AliveSooner
  <2> QED BY <1>4, <1>8, <1>9, <2>2 DEF ResultOk
<1>11. CallOk(m, clock, published, retrieved')
  BY <1>3, <1>9, <1>10 DEF CallOk, EntryOk, AnswerOk, BudgetOk
<1> HIDE DEF k
<1> QED BY <1>1, <1>2, <1>5, <1>7, <1>9, <1>11, ClientStep

LEMMA LeaveIInv ==
  ASSUME IInv, NEW c \in Clients, Finish(c) \/ Crash(c) PROVE IInv'
<1>1. /\ call' = [call EXCEPT ![c] = Idle]
      /\ UNCHANGED <<clock, published, tagged, disk, retrieved, calls>>
  BY DEF Finish, Crash, Unchanged
<1>2. clock \in Nat /\ calls \in 0..MaxCalls
  BY ClientAssumption DEF IInv, TypeInv
<1>3. Idle \in Calls /\ CallOk(Idle, clock, published, retrieved)
  BY <1>2, IdleIsACall
<1> QED BY <1>1, <1>2, <1>3, QuietStep

LEMMA EnvironmentIInv ==
  ASSUME IInv, LoseEntry \/ Tick \/ Publish PROVE IInv'
<1>1. /\ clock \in 1..MaxTime /\ clock \in Nat /\ call \in [Clients -> Calls]
      /\ published \in Seq(1..MaxTime) /\ Len(published) \in 1..MaxVersion
      /\ disk \in Entries \cup {None} /\ EntryOk(disk, clock, published, retrieved)
      /\ \A n \in 1..Len(published) : published[n] <= clock
      /\ \A c \in Clients : CallOk(call[c], clock, published, retrieved)
  BY ClientAssumption DEF IInv, TypeInv, PublishedInv
<1>2. CASE LoseEntry
  <2>1. disk' = None /\ UNCHANGED <<clock, published, tagged, call, calls, retrieved>>
    BY <1>2 DEF LoseEntry, Unchanged
  <2>2. TypeInv' /\ PublishedInv'
    BY <2>1 DEF IInv, TypeInv, PublishedInv
  <2> QED BY <1>1, <2>1, <2>2 DEF IInv, EntryOk
<1>3. CASE Tick
  <2>1. clock' = clock + 1 /\ UNCHANGED <<published, tagged, disk, call, calls, retrieved>>
    BY <1>3 DEF Tick
  <2>2. clock' \in 1..MaxTime /\ clock' \in Nat /\ clock <= clock'
    BY <1>1, <1>3, <2>1, ClientAssumption DEF Tick
  <2>3. TypeInv'
    BY <2>1, <2>2 DEF IInv, TypeInv
  <2>4. PublishedInv'
    <3>1. ASSUME NEW n \in 1..Len(published) PROVE published[n] <= clock'
      <4>1. published[n] \in 1..MaxTime /\ published[n] <= clock
        BY <1>1, SeqElement
      <4> QED BY <1>1, <2>2, <4>1
    <3> QED BY <2>1, <3>1 DEF PublishedInv
  <2>5. EntryOk(disk, clock', published, retrieved)
    BY <1>1, <2>2, EntryLater
  <2>6. ASSUME NEW c \in Clients PROVE CallOk(call[c], clock', published, retrieved)
    BY <1>1, <2>2, CallLater
  <2> QED BY <2>1, <2>3, <2>4, <2>5, <2>6 DEF IInv
<1>4. CASE Publish
  <2>1. /\ Len(published) < MaxVersion /\ published' = Append(published, clock)
        /\ UNCHANGED <<clock, tagged, disk, call, calls, retrieved>>
    BY <1>4 DEF Publish, Current
  <2>2. /\ published' \in Seq(1..MaxTime) /\ Len(published') = Len(published) + 1
        /\ \A n \in 1..Len(published) : published'[n] = published[n]
        /\ published'[Len(published) + 1] = clock
    BY <1>1, <2>1
  <2>3. TypeInv'
    <3>1. Len(published') \in 1..MaxVersion
      BY <1>1, <2>1, <2>2, ClientAssumption
    <3> QED BY <2>1, <2>2, <3>1 DEF IInv, TypeInv
  <2>4. PublishedInv'
    BY <1>1, <2>1, <2>2 DEF PublishedInv
  <2>5. EntryOk(disk, clock, Append(published, clock), retrieved)
    BY <1>1, EntryAfter
  <2>6. ASSUME NEW c \in Clients
        PROVE  CallOk(call[c], clock, Append(published, clock), retrieved)
    BY <1>1, CallAfter
  <2> QED BY <2>1, <2>3, <2>4, <2>5, <2>6 DEF IInv
<1> QED BY <1>2, <1>3, <1>4

LEMMA NextIInv == IInv /\ [Next]_vars => IInv'
<1> SUFFICES ASSUME IInv, [Next]_vars PROVE IInv'
  OBVIOUS
<1>1. ASSUME NEW c \in Clients, Step(c) \/ Crash(c) PROVE IInv'
  BY <1>1, StartIInv, LookupIInv, SucceedIInv, RetryIInv, GiveUpIInv, DeliverIInv, LeaveIInv
     DEF Step
<1>2. CASE UNCHANGED vars
  BY <1>2 DEF vars, IInv, TypeInv, PublishedInv
<1> QED BY <1>1, <1>2, EnvironmentIInv DEF Next

-----------------------------------------------------------------------------
(* Theorems. *)

\* The inductive invariant holds throughout.
THEOREM ClientInvariance == Spec => []IInv
BY InitIInv, NextIInv, PTL DEF Spec

\* TypeOK of the runs: the state is well typed, and an entry is never
\* validated before it was fetched.
THEOREM ClientTypeCorrect == Spec => []TypeOK
<1>1. IInv => TypeOK
  <2> SUFFICES ASSUME IInv PROVE TypeOK
    OBVIOUS
  <2>1. disk = None \/ (disk \in Entries /\ disk.fetched <= disk.validated)
    BY DEF IInv, TypeInv, EntryOk
  <2>2. ASSUME NEW c \in Clients
        PROVE  /\ call[c].stage \in Stages
               /\ call[c].attempt \in 0..MaxAttempts
               /\ At(c, "returned") => call[c].result.version \in 1..Current
               /\ At(c, "failed") => call[c].error # ""
    <3>1. call[c] \in Calls /\ CallOk(call[c], clock, published, retrieved)
      BY DEF IInv, TypeInv
    <3>2. call[c].stage \in Stages /\ call[c].attempt \in 0..MaxAttempts
      BY <3>1 DEF Calls
    <3> QED BY <3>1, <3>2 DEF CallOk, ResultOk, Alive, At, Current
  <2> QED BY <2>1, <2>2 DEF TypeOK, IInv, TypeInv, Current
<1> QED BY <1>1, ClientInvariance, PTL

\* get_json's freshness policy (client.py:140-155) for any number of clients
\* and any TTL: nothing older than promised is ever returned.
THEOREM AlwaysFreshAsPromised == Spec => []FreshAsPromised
<1>1. IInv => FreshAsPromised
  <2> SUFFICES ASSUME IInv, NEW c \in Clients, At(c, "returned")
               PROVE  CurrentAtOrAfter(call[c].result.version, Since(call[c]))
    BY DEF FreshAsPromised, Since
  <2> QED BY DEF IInv, CallOk, ResultOk, Alive, At, CurrentAtOrAfter, Current
<1> QED BY <1>1, ClientInvariance, PTL

\* FetchResult.fetched_at (client.py:64-68): every result and the cache carry
\* the date of the call that brought the body.
THEOREM ProvenanceAlwaysKept == Spec => []ProvenanceKept
<1>1. IInv => ProvenanceKept
  BY DEF IInv, EntryOk, CallOk, ResultOk, At, ProvenanceKept
<1> QED BY <1>1, ClientInvariance, PTL

\* The retry budgets (client.py:24-31), whatever their sizes and whatever
\* mixture of failures SEC answers with.
THEOREM RetriesAlwaysBounded == Spec => []RetriesBounded
<1>1. IInv => RetriesBounded
  <2> SUFFICES ASSUME IInv, NEW c \in Clients, At(c, "send")
               PROVE  /\ call[c].sent < MaxAttempts
                      /\ call[c].sent403 < Max403Attempts
                      /\ ~call[c].hopeless
    BY DEF RetriesBounded
  <2>1. BudgetOk(call[c]) /\ call[c].stage = "send"
    BY DEF IInv, CallOk, At
  <2> QED BY <2>1, ClientAssumption DEF BudgetOk
<1> QED BY <1>1, ClientInvariance, PTL

-----------------------------------------------------------------------------
(* SecClient implements Document: starting, answering and retrying are       *)
(* invisible, the lookup serves or asks, and the delivery is the answer.     *)
(* The invariant is needed for the delivery only: the answer it hands on is  *)
(* still one that was current when SEC was asked.                            *)

Reading == [c \in Clients |-> Seen(call[c])]
AbstractVars == <<clock, published, Kept(disk), Reading>>

\* nothing but the call of one client has changed in what the clients see
LEMMA ReadingStep ==
  ASSUME call \in [Clients -> Calls], NEW c \in Clients, NEW k,
         call' = [call EXCEPT ![c] = k]
  PROVE  Reading' = [Reading EXCEPT ![c] = Seen(k)]
<1>1. ASSUME NEW d \in Clients PROVE Seen(call'[d]) = [Reading EXCEPT ![c] = Seen(k)][d]
  BY DEF Reading
<1> QED BY <1>1 DEF Reading

LEMMA ReadingSame ==
  ASSUME call \in [Clients -> Calls], NEW c \in Clients, NEW k,
         call' = [call EXCEPT ![c] = k], Seen(k) = Seen(call[c])
  PROVE  Reading' = Reading
BY ReadingStep DEF Reading

\* what an outsider sees of a call, by its stage
LEMMA SeenByStage ==
  ASSUME NEW k
  PROVE  /\ k.stage \in {"idle", "lookup"} => Seen(k) = Promised!Idle
         /\ k.stage \in {"send", "answered"} => Seen(k) = Promised!Asked(k.now, Insists(k))
         /\ k.stage = "returned" =>
              Seen(k) = Promised!Has(k.result.version, k.now, Insists(k))
         /\ k.stage = "failed" => Seen(k) = Promised!Failed
BY DEF Seen, Promised!Idle, Promised!Asked, Promised!Has, Promised!Failed

LEMMA StagesDiffer ==
  /\ \A now, insist : Promised!Asked(now, insist) # Promised!Idle
  /\ \A now, insist : /\ Promised!Asked(now, insist).stage = "asked"
                      /\ Promised!Asked(now, insist).now = now
                      /\ Promised!Asked(now, insist).insist = insist
  /\ \A v, now, insist : Promised!Has(v, now, insist) # Promised!Idle
  /\ Promised!Failed # Promised!Idle
<1>1. /\ Promised!Idle.stage = "idle" /\ Promised!Failed.stage = "failed"
      /\ \A now, insist : Promised!Asked(now, insist).stage = "asked"
      /\ \A v, now, insist : Promised!Has(v, now, insist).stage = "has"
  BY DEF Promised!Idle, Promised!Asked, Promised!Has, Promised!Failed
<1>2. \A now, insist : /\ Promised!Asked(now, insist).now = now
                       /\ Promised!Asked(now, insist).insist = insist
  BY DEF Promised!Asked
<1> QED BY <1>1, <1>2

LEMMA KeptIsSome ==
  ASSUME NEW e \in Entries \cup {None}, e # None
  PROVE  /\ Kept(e) = [version |-> e.version, validated |-> e.validated]
         /\ Kept(e).version = e.version /\ Kept(e).validated = e.validated
         /\ Kept(e) # None
<1>1. e.version \in Nat /\ e.validated \in Nat
  BY ClientAssumption DEF Entries
<1>2. Kept(e) = [version |-> e.version, validated |-> e.validated]
  BY DEF Kept
<1> QED BY <1>1, <1>2, NoneAssumption

-----------------------------------------------------------------------------

LEMMA InitImplements == Init => Promised!Init
<1> SUFFICES ASSUME Init PROVE Promised!Init
  OBVIOUS
<1>1. Kept(disk) = None
  BY DEF Init, Kept
<1>2. Reading = [c \in Clients |-> Promised!Idle]
  BY SeenByStage DEF Init, Reading, Idle
<1> QED BY <1>1, <1>2 DEF Init, Promised!Init, Reading

\* Start, Succeed and Retry do not show
LEMMA SilentStep ==
  ASSUME IInv, NEW c \in Clients, Start(c) \/ Succeed(c) \/ Retry(c)
  PROVE  UNCHANGED AbstractVars
<1>1. /\ call \in [Clients -> Calls] /\ call[c] \in Calls
      /\ UNCHANGED <<clock, published, disk>>
  BY DEF IInv, TypeInv, Start, Succeed, Retry, Unchanged
<1>2. Reading' = Reading
  <2>1. CASE Start(c)
    <3>1. PICK use \in BOOLEAN, force \in BOOLEAN :
            call' = [call EXCEPT ![c] =
                       [Idle EXCEPT !.stage = "lookup", !.use = use, !.force = force]]
      BY <2>1 DEF Start
    <3>2. call[c].stage = "idle"
      BY <2>1 DEF Start, At
    <3>3. [Idle EXCEPT !.stage = "lookup", !.use = use, !.force = force].stage = "lookup"
      BY DEF Idle
    <3> QED BY <1>1, <3>1, <3>2, <3>3, SeenByStage, ReadingSame
  <2>2. CASE Succeed(c)
    <3>1. PICK r \in Answers(c) :
            call' = [call EXCEPT ![c].stage = "answered", ![c].response = r]
      BY <2>2 DEF Succeed
    <3> DEFINE k == [call[c] EXCEPT !.stage = "answered", !.response = r]
    <3>2. call' = [call EXCEPT ![c] = k]
      BY <1>1, <3>1
    <3>3. /\ k.stage = "answered" /\ k.now = call[c].now
          /\ k.force = call[c].force /\ k.use = call[c].use
      BY <1>1 DEF Calls
    <3>4. call[c].stage = "send"
      BY <2>2 DEF Succeed, At
    <3> HIDE DEF k
    <3>5. Insists(k) = Insists(call[c])
      BY <3>3 DEF Insists
    <3>6. Seen(k) = Promised!Asked(k.now, Insists(k))
      BY <3>3, SeenByStage
    <3>7. Seen(call[c]) = Promised!Asked(call[c].now, Insists(call[c]))
      BY <3>4, SeenByStage
    <3> QED BY <1>1, <3>2, <3>3, <3>5, <3>6, <3>7, ReadingSame
  <2>3. CASE Retry(c)
    <3>1. PICK status \in Failures : call' = [call EXCEPT ![c] = Again(c, status)]
      BY <2>3 DEF Retry
    <3>2. call[c].stage = "send"
      BY <2>3 DEF Retry, At
    <3>3. /\ Again(c, status).stage = "send" /\ Again(c, status).now = call[c].now
          /\ Again(c, status).force = call[c].force /\ Again(c, status).use = call[c].use
      BY <1>1, <3>2 DEF Again, Calls
    <3>4. Insists(Again(c, status)) = Insists(call[c])
      BY <3>3 DEF Insists
    <3> QED BY <1>1, <3>1, <3>2, <3>3, <3>4, SeenByStage, ReadingSame
  <2> QED BY <2>1, <2>2, <2>3
<1> QED BY <1>1, <1>2 DEF AbstractVars

\* the lookup serves a fresh entry, or asks
LEMMA LookupImplements ==
  ASSUME IInv, NEW c \in Clients, Lookup(c)
  PROVE  Promised!Serve(c) \/ Promised!Ask(c)
<1> DEFINE e == IF call[c].use THEN disk ELSE None
           read == [call[c] EXCEPT !.entry = e, !.now = clock]
           hit == Returned(read, Result(e.version, e.fetched, TRUE, FALSE))
           miss == [read EXCEPT !.stage = "send", !.attempt = 1]
<1>1. /\ call' = [call EXCEPT ![c] = IF IsHit(c, e) THEN hit ELSE miss]
      /\ UNCHANGED <<clock, published, disk>>
  BY DEF Lookup, Unchanged, Returned
<1>2. /\ call \in [Clients -> Calls] /\ call[c] \in Calls /\ clock \in 0..MaxTime
      /\ e \in Entries \cup {None} /\ call[c].use \in BOOLEAN /\ call[c].force \in BOOLEAN
  <2>1. call \in [Clients -> Calls] /\ call[c] \in Calls /\ disk \in Entries \cup {None}
    BY DEF IInv, TypeInv
  <2>2. clock \in 0..MaxTime
    BY ClientAssumption DEF IInv, TypeInv
  <2>3. call[c].use \in BOOLEAN /\ call[c].force \in BOOLEAN
    BY <2>1 DEF Calls
  <2> QED BY <2>1, <2>2, <2>3
<1>3. Reading[c] = Promised!Idle
  BY SeenByStage DEF Lookup, At, Reading
<1>4. /\ read \in Calls /\ read.use = call[c].use /\ read.force = call[c].force
      /\ read.now = clock
  <2> HIDE DEF e
  <2> QED BY <1>2 DEF Calls
<1>5. CASE IsHit(c, e)
  <2>1. /\ e = disk /\ disk \in Entries /\ disk # None /\ ~call[c].force /\ call[c].use
        /\ clock - disk.validated < Ttl
    BY <1>2, <1>5 DEF IsHit
  <2>2. Result(e.version, e.fetched, TRUE, FALSE) \in Results
    <3> HIDE DEF e
    <3> QED BY <2>1 DEF Entries, Results, Result
  <2>3. /\ hit.stage = "returned" /\ hit.now = clock
        /\ hit.use = call[c].use /\ hit.force = call[c].force
        /\ hit.result = Result(e.version, e.fetched, TRUE, FALSE)
    <3> HIDE DEF read, e
    <3> QED BY <1>4, <2>2, ReturnedIsACall
  <2>4. call' = [call EXCEPT ![c] = hit]
    BY <1>1, <1>5
  <2> HIDE DEF hit, read
  <2>5. Insists(hit) = FALSE /\ hit.result.version = disk.version
    BY <2>1, <2>3 DEF Insists, Result
  <2>6. Seen(hit) = Promised!Has(disk.version, clock, FALSE)
    BY <2>3, <2>5, SeenByStage
  <2>7. Reading' = [Reading EXCEPT ![c] = Promised!Has(disk.version, clock, FALSE)]
    BY <1>2, <2>4, <2>6, ReadingStep
  <2>8. Kept(disk) # None /\ Kept(disk).version = disk.version
        /\ Kept(disk).validated = disk.validated
    BY <2>1, KeptIsSome
  <2> QED BY <1>1, <1>3, <2>1, <2>7, <2>8 DEF Promised!Serve, Promised!IsFresh, Reading
<1>6. CASE ~IsHit(c, e)
  <2>1. call' = [call EXCEPT ![c] = miss]
    BY <1>1, <1>6
  <2>2. /\ miss.stage = "send" /\ miss.now = clock
        /\ miss.use = call[c].use /\ miss.force = call[c].force
    <3> HIDE DEF read
    <3> QED BY <1>4 DEF Calls
  <2> HIDE DEF miss, read
  <2>3. Insists(miss) \in BOOLEAN /\ Insists(miss) = Insists(call[c])
    BY <1>2, <2>2 DEF Insists
  <2>4. Seen(miss) = Promised!Asked(clock, Insists(miss))
    BY <2>2, SeenByStage
  <2>5. Reading' = [Reading EXCEPT ![c] = Promised!Asked(clock, Insists(miss))]
    BY <1>2, <2>1, <2>4, ReadingStep
  <2>6. Insists(miss) \/ ~(Kept(disk) # None /\ clock - Kept(disk).validated < Ttl)
    <3> SUFFICES ASSUME ~Insists(miss), Kept(disk) # None PROVE ~(clock - Kept(disk).validated < Ttl)
      OBVIOUS
    <3>1. e = disk /\ ~call[c].force /\ disk # None /\ Kept(disk).validated = disk.validated
      BY <2>3, KeptIsSome DEF Insists, Kept
    <3> QED BY <1>6, <3>1 DEF IsHit
  <2> QED BY <1>1, <1>3, <2>3, <2>5, <2>6 DEF Promised!Ask, Promised!IsFresh, Reading
<1> QED BY <1>5, <1>6

\* a call that fails
LEMMA FailImplements ==
  ASSUME IInv, NEW c \in Clients, GiveUp(c) \/ Garbled(c) \/ StoreFails(c)
  PROVE  Promised!Fail(c)
<1>1. /\ call \in [Clients -> Calls] /\ call[c] \in Calls
      /\ UNCHANGED <<clock, published, disk>> /\ call[c].stage \in {"send", "answered"}
  BY DEF IInv, TypeInv, GiveUp, Garbled, StoreFails, Fail, Unchanged, At
<1>2. PICK error \in Errors :
        error # "" /\ call' = [call EXCEPT ![c] = Failed(call[c], error)]
  BY DEF GiveUp, Garbled, StoreFails, Fail, Failed, ErrorFor, Errors
<1>3. Failed(call[c], error).stage = "failed"
  BY <1>1, <1>2, FailedIsACall
<1>4. Reading' = [Reading EXCEPT ![c] = Promised!Failed]
  <2>1. Seen(Failed(call[c], error)) = Promised!Failed
    BY <1>3, SeenByStage
  <2> QED BY <1>1, <1>2, <2>1, ReadingStep
<1>5. Reading[c].stage = "asked"
  BY <1>1, SeenByStage, StagesDiffer DEF Reading
<1> QED BY <1>1, <1>4, <1>5 DEF Promised!Fail, Reading

\* what an answer leaves in the cache: the version it is about, dated to the question
LEMMA AnsweredEntry ==
  ASSUME IInv, NEW c \in Clients, call[c].stage = "answered"
  PROVE  /\ EntryFor(c) \in Entries
         /\ EntryFor(c).version = call[c].response.version
         /\ EntryFor(c).validated = call[c].now
         /\ Alive(call[c].response.version, call[c].now, published)
<1> DEFINE k == call[c]
           r == k.response
           e == EntryFor(c)
<1>1. k \in Calls /\ tagged \in BOOLEAN /\ CallOk(k, clock, published, retrieved)
  BY DEF IInv, TypeInv
<1>2. /\ r \in Responses /\ Alive(r.version, k.now, published)
      /\ r.status = "304" => k.entry # None /\ k.entry.version = r.version
  BY <1>1 DEF CallOk, AnswerOk
<1>3. k.entry \in Entries \cup {None} /\ k.now \in 1..MaxTime
  <2>1. k.now \in 0..MaxTime /\ 1 <= k.now /\ k.entry \in Entries \cup {None}
    BY <1>1 DEF Calls, CallOk
  <2> QED BY <2>1, ClientAssumption
<1>4. e \in Entries /\ e.version = r.version /\ e.validated = k.now
  <2>1. CASE r.status = "304"
    <3>1. k.entry \in Entries /\ e = [k.entry EXCEPT !.validated = k.now]
      BY <1>2, <1>3, <2>1 DEF EntryFor
    <3> HIDE DEF e
    <3> QED BY <1>2, <1>3, <2>1, <3>1 DEF Entries
  <2>2. CASE r.status # "304"
    <3>1. e = Entry(r.version, k.now, k.now, tagged)
      BY <2>2 DEF EntryFor
    <3> HIDE DEF e
    <3> QED BY <1>1, <1>2, <1>3, <3>1 DEF Entry, Entries, Responses
  <2> QED BY <2>1, <2>2
<1> QED BY <1>2, <1>4

\* the delivery is the answer: a version that was current when SEC was asked
LEMMA DeliverImplements ==
  ASSUME IInv, NEW c \in Clients, Deliver(c)
  PROVE  Promised!Answer(c)
<1> DEFINE r == call[c].response
           e == EntryFor(c)
           result == Result(e.version, e.fetched, r.status = "304", r.status = "304")
           m == Returned(call[c], result)
           has == Promised!Has(r.version, call[c].now, Insists(call[c]))
<1>1. /\ call \in [Clients -> Calls] /\ call[c] \in Calls /\ call[c].stage = "answered"
  BY DEF IInv, TypeInv, Deliver, At
<1>2. /\ call' = [call EXCEPT ![c] = m]
      /\ disk' = IF call[c].use THEN e ELSE disk
      /\ UNCHANGED <<clock, published>>
  BY <1>1 DEF Deliver, Returned
<1>3. /\ e \in Entries /\ e.version = r.version /\ e.validated = call[c].now
      /\ Alive(r.version, call[c].now, published)
  BY <1>1, AnsweredEntry
<1> HIDE DEF e
<1>4. result \in Results /\ result.version = r.version
  BY <1>3 DEF Result, Results, Entries
<1> HIDE DEF result
<1>5. /\ m.stage = "returned" /\ m.result = result
      /\ m.use = call[c].use /\ m.force = call[c].force /\ m.now = call[c].now
  BY <1>1, <1>4, ReturnedIsACall
<1> HIDE DEF m
<1>6. Insists(m) = Insists(call[c])
  BY <1>5 DEF Insists
<1>7. Seen(m) = has
  BY <1>4, <1>5, <1>6, SeenByStage
<1>8. Reading' = [Reading EXCEPT ![c] = has]
  BY <1>1, <1>2, <1>7, ReadingStep
<1>9. Reading[c] = Promised!Asked(call[c].now, Insists(call[c]))
  BY <1>1, SeenByStage DEF Reading
<1>10. /\ Reading[c].stage = "asked" /\ Reading[c].now = call[c].now
       /\ Reading[c].insist = Insists(call[c])
  BY <1>9, StagesDiffer
<1>11. Kept(disk') \in {Kept(disk), [version |-> r.version, validated |-> call[c].now]}
  <2>1. CASE call[c].use
    <3>1. disk' = e /\ disk' \in Entries
      BY <1>2, <1>3, <2>1
    <3>2. e # None
      BY <1>3, NoneAssumption, ClientAssumption DEF Entries
    <3> QED BY <1>3, <3>1, <3>2 DEF Kept
  <2>2. CASE ~call[c].use
    BY <1>2, <2>2
  <2> QED BY <2>1, <2>2
<1>12. r.version \in 1..Len(published) /\ Promised!CurrentAtOrAfter(r.version, call[c].now)
  BY <1>3 DEF Alive, Promised!CurrentAtOrAfter
<1> QED BY <1>2, <1>8, <1>10, <1>11, <1>12 DEF Promised!Answer, Reading

\* a call that is over, and a client that is killed
LEMMA LeaveImplements ==
  ASSUME IInv, NEW c \in Clients, Finish(c) \/ Crash(c)
  PROVE  Promised!Leave(c) \/ UNCHANGED AbstractVars
<1>1. /\ call \in [Clients -> Calls] /\ call' = [call EXCEPT ![c] = Idle]
      /\ UNCHANGED <<clock, published, disk>>
  BY DEF IInv, TypeInv, Finish, Crash, Unchanged
<1>2. Seen(Idle) = Promised!Idle
  BY SeenByStage DEF Idle
<1>3. Reading' = [Reading EXCEPT ![c] = Promised!Idle]
  BY <1>1, <1>2, ReadingStep
<1>4. CASE Reading[c] # Promised!Idle
  BY <1>1, <1>3, <1>4 DEF Promised!Leave, Reading
<1>5. CASE Reading[c] = Promised!Idle
  <2>1. Reading' = Reading
    BY <1>3, <1>5 DEF Reading
  <2> QED BY <1>1, <2>1 DEF AbstractVars
<1> QED BY <1>4, <1>5

\* what goes on around the clients
LEMMA EnvironmentImplements ==
  ASSUME LoseEntry \/ Tick \/ Publish
  PROVE  Promised!Lose \/ Promised!Tick \/ Promised!Publish
<1>1. Reading' = Reading
  BY DEF LoseEntry, Tick, Publish, Reading
<1>2. CASE LoseEntry
  <2>1. Kept(disk') = None
    BY <1>2 DEF LoseEntry, Kept
  <2> QED BY <1>1, <1>2, <2>1 DEF LoseEntry, Unchanged, Promised!Lose, Reading
<1>3. CASE Tick
  BY <1>1, <1>3 DEF Tick, Promised!Tick, Reading
<1>4. CASE Publish
  BY <1>1, <1>4 DEF Publish, Promised!Publish, Reading
<1> QED BY <1>2, <1>3, <1>4

-----------------------------------------------------------------------------
(* The theorem. *)

\* get_json (client.py:140-243) with its cache, retries, failures, overlapping
\* processes and crashes is the document of module Document: a reader is
\* served what is fresh, or asks SEC and gets what was current then.
THEOREM ClientImplementsDocument == Spec => ImplementsDocument
<1>1. Init => Promised!Init
  BY InitImplements
<1>2. IInv /\ [Next]_vars => [Promised!Next]_AbstractVars
  <2> SUFFICES ASSUME IInv, [Next]_vars PROVE Promised!Next \/ UNCHANGED AbstractVars
    OBVIOUS
  <2>1. ASSUME NEW c \in Clients, Step(c) \/ Crash(c)
        PROVE  Promised!Next \/ UNCHANGED AbstractVars
    BY <2>1, SilentStep, LookupImplements, FailImplements, DeliverImplements, LeaveImplements
       DEF Step, Promised!Next
  <2>2. CASE LoseEntry \/ Tick \/ Publish
    BY <2>2, EnvironmentImplements DEF Promised!Next
  <2>3. CASE UNCHANGED vars
    BY <2>3 DEF vars, AbstractVars, Reading
  <2> QED BY <2>1, <2>2, <2>3 DEF Next
<1> QED BY <1>1, <1>2, ClientInvariance, PTL
        DEF Spec, ImplementsDocument, Promised!Spec, Promised!vars, AbstractVars, Reading
=============================================================================
