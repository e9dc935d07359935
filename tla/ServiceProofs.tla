---------------------------- MODULE ServiceProofs ----------------------------
(***************************************************************************)
(* The services beside the worker keep their promises: the portal for any  *)
(* number of requests, whatever they ask for and however their handlers    *)
(* interleave; the drift exporter for any number of devices and polls,     *)
(* whenever it is scraped.                                                 *)
(***************************************************************************)
EXTENDS Portal, DriftExporter, FiniteSetTheorems, TLAPS

-----------------------------------------------------------------------------
(* The portal.                                                             *)

\* A request whose handler got past the authorisation.
Admitted(q) ==
  Authenticated(q) /\ Satisfies(Identity(q).role, RequiredRole(Call[q].kind))

\* No handler gets past the authorisation without the role it takes.
AdmittedInv ==
  \A q \in Requests : pc[q] \in {"client", "connecting", "call"} => Admitted(q)

\* A run carries what its request asked for, and that request is answered.
RunsInv ==
  \A r \in runs :
    /\ r.id = WorkflowId(r.request)
    /\ Call[r.request].host # Blank
    /\ r.initiator = Identity(r.request) /\ r.initiator.role = "operator"
    /\ pc[r.request] = "answered" /\ code[r.request] \in {202, 502}

\* What a request was told.
AnswersInv ==
  \A q \in Requests :
    /\ code[q] # 0 => pc[q] = "answered"
    /\ code[q] = 202 => result[q] = q /\ \E r \in runs : r.request = q

\* Two open runs have different workflow IDs.
OneOpenRun == \A r, s \in runs : r.open /\ s.open /\ r.id = s.id => r = s

IInv == TypeOK /\ AdmittedInv /\ RunsInv /\ AnswersInv /\ OneOpenRun

-----------------------------------------------------------------------------
(* Control.                                                                *)

\* An answer is the end of a handler, and changes nothing of another request.
LEMMA AnswerEffect ==
  ASSUME TypeOK, NEW q \in Requests,
         NEW status \in {200, 202, 401, 403, 409, 422, 500, 502}, Answer(q, status)
  PROVE  /\ pc' \in [Requests -> {"new", "client", "connecting", "call", "answered"}]
         /\ code' \in [Requests -> {0, 200, 202, 401, 403, 409, 422, 500, 502}]
         /\ pc'[q] = "answered" /\ code'[q] = status
         /\ \A p \in Requests \ {q} : pc'[p] = pc[p] /\ code'[p] = code[p]
BY DEF TypeOK, Answer

\* A handler that goes on has not answered, and leaves the others where they are.
LEMMA GoOnEffect ==
  ASSUME TypeOK, NEW q \in Requests,
         NEW to \in {"client", "connecting", "call"}, GoOn(q, to)
  PROVE  /\ pc' \in [Requests -> {"new", "client", "connecting", "call", "answered"}]
         /\ pc'[q] = to /\ code' = code
         /\ \A p \in Requests \ {q} : pc'[p] = pc[p]
BY DEF TypeOK, GoOn

\* The steps that answer without having started anything.
Refusal(q) ==
  \/ ConnectFails(q) \/ Invalid(q) \/ BlankHost(q) \/ AlreadyStarted(q)
  \/ ListWorkflows(q)

\* A refusal is no 202, and changes neither the runs nor the client.
LEMMA RefusalEffect ==
  ASSUME NEW q \in Requests, Refusal(q)
  PROVE  /\ \E status \in {200, 409, 422, 500, 502} : Answer(q, status)
         /\ pc[q] \in {"connecting", "call"}
         /\ UNCHANGED <<client, result, runs>>
BY DEF Refusal, ConnectFails, Invalid, Starting, BlankHost, AlreadyStarted, ListWorkflows

-----------------------------------------------------------------------------
(* The invariant.                                                          *)

\* A step that leaves the runs alone, does not say 202 and leaves an answered
\* handler as it is keeps the invariant, if only admitted requests go on.
LEMMA QuietStep ==
  ASSUME IInv, NEW q \in Requests, pc[q] # "answered",
         UNCHANGED <<result, runs>>, client' \in Requests \cup {NoClient},
         \/ \E status \in {200, 401, 403, 409, 422, 500, 502} : Answer(q, status)
         \/ \E to \in {"client", "connecting", "call"} : GoOn(q, to) /\ Admitted(q)
  PROVE  IInv'
<1> USE DEF IInv
<1>1. /\ pc' \in [Requests -> {"new", "client", "connecting", "call", "answered"}]
      /\ code' \in [Requests -> {0, 200, 202, 401, 403, 409, 422, 500, 502}]
      /\ \A p \in Requests \ {q} : pc'[p] = pc[p] /\ code'[p] = code[p]
      /\ pc'[q] \in {"client", "connecting", "call"} => Admitted(q)
      /\ code'[q] # 202
      /\ code'[q] # 0 => pc'[q] = "answered"
  <2>1. CASE \E status \in {200, 401, 403, 409, 422, 500, 502} : Answer(q, status)
    BY <2>1, AnswerEffect
  <2>2. CASE \E to \in {"client", "connecting", "call"} : GoOn(q, to) /\ Admitted(q)
    BY <2>2, GoOnEffect DEF AnswersInv, TypeOK
  <2>3. QED
    BY <2>1, <2>2
<1>2. TypeOK'
  BY <1>1 DEF TypeOK
<1>3. AdmittedInv'
  BY <1>1 DEF AdmittedInv, Admitted, Authenticated, Identity
<1>4. RunsInv'
  BY <1>1 DEF RunsInv, TypeOK, Run, WorkflowId, Identity
<1>5. AnswersInv'
  BY <1>1 DEF AnswersInv
<1>6. OneOpenRun'
  BY DEF OneOpenRun
<1>7. QED
  BY <1>2, <1>3, <1>4, <1>5, <1>6

\* A start, told or not, adds the run of an operator where none was open.
LEMMA StartStep ==
  ASSUME IInv, NEW q \in Requests, Starting(q), Call[q].host # Blank,
         Conflicting(q) = {}, runs' = runs \cup {NewRun(q)}, UNCHANGED client,
         \/ Answer(q, 202) /\ result' = [result EXCEPT ![q] = q]
         \/ Answer(q, 502) /\ UNCHANGED result
  PROVE  IInv'
<1> USE DEF IInv
<1>1. /\ pc' \in [Requests -> {"new", "client", "connecting", "call", "answered"}]
      /\ code' \in [Requests -> {0, 200, 202, 401, 403, 409, 422, 500, 502}]
      /\ pc'[q] = "answered" /\ code'[q] \in {202, 502}
      /\ \A p \in Requests \ {q} : pc'[p] = pc[p] /\ code'[p] = code[p]
  BY AnswerEffect
<1>2. /\ result' \in [Requests -> Requests \cup {NoRun}]
      /\ code'[q] = 202 => result'[q] = q
      /\ \A p \in Requests \ {q} : result'[p] = result[p]
  BY AnswerEffect DEF TypeOK
<1>3. /\ NewRun(q).request = q /\ NewRun(q).open \in BOOLEAN
      /\ NewRun(q).id = WorkflowId(q) /\ NewRun(q).initiator = Identity(q)
  BY DEF NewRun
<1>4. TypeOK'
  <2>1. Authenticated(q)
    BY DEF Starting, AdmittedInv, Admitted
  <2>2. NewRun(q) \in Run
    BY <2>1 DEF Run, NewRun, WorkflowId, Identity, Authenticated
  <2>3. QED
    BY <1>1, <1>2, <2>2 DEF TypeOK
<1>5. AdmittedInv'
  BY <1>1 DEF AdmittedInv, Admitted, Authenticated, Identity
<1>6. RunsInv'
  <2>1. Identity(q).role = "operator"
    BY PortalAssumption
    DEF Starting, AdmittedInv, Admitted, Satisfies, RequiredRole, Kinds
  <2>2. QED
    BY <1>1, <1>3, <2>1 DEF RunsInv, TypeOK, Run, WorkflowId, Identity
<1>7. AnswersInv'
  BY <1>1, <1>2, <1>3 DEF AnswersInv
<1>8. OneOpenRun'
  BY <1>3 DEF OneOpenRun, Conflicting
<1>9. QED
  BY <1>4, <1>5, <1>6, <1>7, <1>8

\* Every step keeps the invariant.
LEMMA InvariantStep ==
  ASSUME IInv, [Next]_vars
  PROVE  IInv'
<1>1. ASSUME NEW q \in Requests, Authorize(q)
      PROVE  IInv'
  BY <1>1, QuietStep DEF Authorize, Admitted, IInv, TypeOK
<1>2. ASSUME NEW q \in Requests, GetClient(q) \/ Connected(q)
      PROVE  IInv'
  <2>1. Admitted(q)
    BY <1>2 DEF GetClient, Connected, IInv, AdmittedInv
  <2>2. QED
    BY <1>2, <2>1, QuietStep DEF GetClient, Connected, IInv, TypeOK
<1>3. ASSUME NEW q \in Requests, Refusal(q)
      PROVE  IInv'
  BY <1>3, RefusalEffect, QuietStep DEF IInv, TypeOK
<1>4. ASSUME NEW q \in Requests, Start(q)
      PROVE  IInv'
  BY <1>4, StartStep DEF Start
<1>5. ASSUME NEW q \in Requests, StartFails(q)
      PROVE  IInv'
  <2>1. CASE UNCHANGED runs
    BY <1>5, <2>1, QuietStep DEF StartFails, Starting, IInv, TypeOK
  <2>2. CASE Conflicting(q) = {} /\ runs' = runs \cup {NewRun(q)}
    BY <1>5, <2>2, StartStep DEF StartFails
  <2>3. QED
    BY <1>5, <2>1, <2>2 DEF StartFails
<1>6. CASE RunCloses
  <2> USE DEF IInv
  <2>1. PICK r \in runs : r.open /\ runs' = (runs \ {r}) \cup {[r EXCEPT !.open = FALSE]}
    BY <1>6 DEF RunCloses
  <2>2. UNCHANGED <<client, pc, code, result>>
    BY <1>6 DEF RunCloses
  <2> DEFINE closed == [r EXCEPT !.open = FALSE]
  <2>3. /\ closed \in Run /\ ~closed.open
        /\ closed.request = r.request /\ closed.id = r.id
        /\ closed.initiator = r.initiator
    <3>1. r \in Run
      BY <2>1 DEF TypeOK
    <3>2. QED
      BY <3>1 DEF Run
  <2>4. runs' = (runs \ {r}) \cup {closed}
    BY <2>1
  <2> HIDE DEF closed
  <2>5. TypeOK'
    BY <2>2, <2>3, <2>4 DEF TypeOK
  <2>6. AdmittedInv' /\ RunsInv'
    BY <2>2, <2>3, <2>4
    DEF AdmittedInv, RunsInv, Admitted, Authenticated, Identity, WorkflowId
  <2>7. AnswersInv'
    BY <2>2, <2>3, <2>4 DEF AnswersInv
  <2>8. OneOpenRun'
    BY <2>3, <2>4 DEF OneOpenRun
  <2>9. QED
    BY <2>5, <2>6, <2>7, <2>8
<1>7. CASE UNCHANGED vars
  BY <1>7
  DEF vars, IInv, TypeOK, AdmittedInv, RunsInv, AnswersInv, OneOpenRun, Admitted,
      Authenticated, Identity, WorkflowId
<1>8. QED
  BY <1>1, <1>2, <1>3, <1>4, <1>5, <1>6, <1>7 DEF Next, Handle, Refusal

\* The invariant of the portal.
LEMMA Invariance == Spec => []IInv
<1>1. Init => IInv
  BY DEF Init, IInv, TypeOK, AdmittedInv, RunsInv, AnswersInv, OneOpenRun
<1>2. IInv /\ [Next]_vars => IInv'
  BY InvariantStep
<1>3. QED
  BY <1>1, <1>2, PTL DEF Spec

-----------------------------------------------------------------------------
(* What the portal promises.                                               *)

\* One name of a device has one open run, whatever the types are and however the
\* requests that started them were interleaved.
LEMMA NamesSerialised == Spec => []OnlyAliasesOverlap
<1>1. IInv => OnlyAliasesOverlap
  BY DEF IInv, RunsInv, OneOpenRun, WorkflowId, OnlyAliasesOverlap
<1>2. QED
  BY <1>1, Invariance, PTL

\* Every run is that of an operator whose request was answered with 202 or 502,
\* and every 202 names a run that the very request started.
THEOREM EveryRunAccountedFor == Spec => []RunsAccountedFor
<1>1. IInv => RunsAccountedFor
  BY DEF IInv, RunsInv, AnswersInv, RunsAccountedFor
<1>2. QED
  BY <1>1, Invariance, PTL

\* Every step keeps the portal's variables within their types.
THEOREM PortalTyped == Spec => []TypeOK
BY Invariance, PTL DEF IInv

-----------------------------------------------------------------------------
(* The drift exporter.                                                     *)

\* A value served comes from the poll the timestamp names, or from the next one
\* while that is being published; only the series that is still without its score
\* has a value of no poll.
PublishedInv ==
  /\ stamp \in Nat
  /\ loop = "set" =>
       \A s \in series : s.poll = stamp + 1 \/ \E t \in unset : s = Unset(t.device)
  /\ loop # "set" => \A s \in series : s.poll = aggregate.poll
  /\ aggregate.poll = IF loop = "stamp" THEN stamp + 1 ELSE stamp

\* The scrapes, with the polls they have read values of; 0 is none.
Scrapes == [next   : {"scores", "aggregate", "stamp", "answered"},
            polls  : SUBSET Nat,
            asleep : BOOLEAN]

\* What a scrape in progress has read, before and after the loop fell asleep.
\* A scrape lasts through no sleep, and there is none before the first poll.
ScrapeInv ==
  /\ scrape \in Scrapes
  /\ scrape.next = "scores" => scrape = NoScrape
  /\ serving \in BOOLEAN
  /\ serving \/ loop = "serve" => stamp > 0
  /\ ~serving => scrape = NoScrape
  /\ scrape.asleep => loop = "sleep" /\ scrape.polls \ {0} \subseteq {stamp - 1, stamp}
  /\ ~scrape.asleep =>
       scrape.polls \ {0} \subseteq
         IF loop \in {"set", "stamp"} THEN {stamp, stamp + 1} ELSE {stamp}

\* The series written so far are of the scores that are no more to be written, one
\* of them without its score yet; in the end the aggregate is the mean of all.
WrittenInv ==
  /\ \A s \in scores : s = [device |-> s.device, score |-> s.score]
  /\ \A s, t \in scores : s.device = t.device => s = t
  /\ unset \subseteq scores \ todo /\ todo \subseteq scores
  /\ loop = "set" =>
       series = {Sample(s.device, s.score) : s \in scores \ (todo \cup unset)}
                  \cup {Unset(s.device) : s \in unset}
  /\ loop = "stamp" => series = {Sample(s.device, s.score) : s \in scores}
  /\ loop # "set" => aggregate.mean = DriftScoreAggregate(ScoresIn(series))
  /\ aggregate = [poll |-> aggregate.poll, mean |-> aggregate.mean]
  /\ loop # "set" => todo = {} /\ unset = {}
  /\ \A s, t \in unset : s = t

ExporterInv == PublishedInv /\ ScrapeInv /\ WrittenInv

\* Every step keeps what is published in step with the timestamp.
LEMMA PublishedStep ==
  ASSUME ExporterInv, [ExporterNext]_exporterVars
  PROVE  PublishedInv'
<1> USE DEF PublishedInv, ExporterInv
<1>1. CASE Collect \/ CollectFails \/ StartHttpServer
           \/ Wake
  BY <1>1 DEF Collect, CollectFails, StartHttpServer,
              Wake, AfterFailure, gauges
<1>2. CASE Clear
  BY <1>2 DEF Clear, Cleared
<1>3. CASE Label
  BY <1>3 DEF Label, Unset
<1>4. CASE SetScore
  <2>1. PICK s \in unset :
          series' = (series \ {Unset(s.device)}) \union {Sample(s.device, s.score)}
    BY <1>4 DEF SetScore
  <2>2. Sample(s.device, s.score).poll = stamp + 1
    BY DEF Sample, Poll
  <2>3. unset = {s}
    BY <2>1 DEF WrittenInv
  <2>4. QED
    BY <1>4, <2>1, <2>2, <2>3 DEF SetScore
<1>5. CASE SetAggregate
  BY <1>5 DEF SetAggregate, Poll
<1>6. CASE SetTimestamp
  BY <1>6 DEF SetTimestamp, Poll
<1>7. CASE Scrape
  BY <1>7 DEF Scrape, ScrapeScores, ScrapeAggregate,
              ScrapeTimestamp, ScrapeEnds, Read, gauges
<1>8. CASE UNCHANGED exporterVars
  BY <1>8 DEF exporterVars, gauges
<1>9. QED
  BY <1>1, <1>2, <1>3, <1>4, <1>5, <1>6, <1>7, <1>8
  DEF ExporterNext, Loop, UpdateGauges

\* No scrape is one that has read nothing.
LEMMA NoScrapeIs ==
  /\ NoScrape \in Scrapes
  /\ NoScrape.next = "scores"
  /\ NoScrape.polls = {}
  /\ ~NoScrape.asleep
  /\ NoScrape' = NoScrape
BY DEF NoScrape, Scrapes

\* A scrape in progress when the loop falls asleep.
LEMMA AsleepEffect ==
  ASSUME ScrapeInv, FallAsleep
  PROVE  /\ scrape = NoScrape => scrape' = scrape
         /\ scrape # NoScrape =>
              /\ scrape' \in Scrapes
              /\ scrape'.next = scrape.next /\ scrape'.polls = scrape.polls
              /\ scrape'.asleep
BY DEF ScrapeInv, FallAsleep, Scrapes

\* A read of a gauge that holds values of some polls.
LEMMA ReadEffect ==
  ASSUME ScrapeInv, NEW what, NEW polls \in SUBSET Nat,
         NEW after \in {"aggregate", "stamp", "answered"}, Read(what, polls, after)
  PROVE  /\ scrape' \in Scrapes
         /\ scrape'.next = after /\ scrape'.polls = scrape.polls \cup polls
         /\ scrape'.asleep = scrape.asleep
BY DEF ScrapeInv, Read, Scrapes

\* Every step keeps the values a scrape mixes next to each other.
LEMMA ScrapeStep ==
  ASSUME ExporterInv, [ExporterNext]_exporterVars
  PROVE  ScrapeInv'
<1> USE NoScrapeIs DEF ExporterInv
<1>1. CASE Collect
  BY <1>1 DEF ScrapeInv, PublishedInv, Collect, gauges
<1>2. CASE CollectFails
  <2>1. CASE scrape = NoScrape
    BY <1>2, <2>1, AsleepEffect
    DEF ScrapeInv, PublishedInv, CollectFails, AfterFailure,
        gauges
  <2>2. CASE scrape # NoScrape
    BY <1>2, <2>2, AsleepEffect
    DEF ScrapeInv, PublishedInv, CollectFails, AfterFailure,
        gauges
  <2>3. QED
    BY <2>1, <2>2
<1>3. CASE Clear \/ Label \/ SetScore \/ SetAggregate
  BY <1>3 DEF ScrapeInv, PublishedInv, Clear, Label, SetScore,
              SetAggregate
<1>4. CASE SetTimestamp
  <2>1. CASE scrape = NoScrape
    BY <1>4, <2>1, AsleepEffect
    DEF ScrapeInv, PublishedInv, SetTimestamp, Poll
  <2>2. CASE scrape # NoScrape
    BY <1>4, <2>2, AsleepEffect
    DEF ScrapeInv, PublishedInv, SetTimestamp, Poll
  <2>3. QED
    BY <2>1, <2>2
<1>5. CASE StartHttpServer \/ Wake
  <2>1. CASE StartHttpServer
    BY <1>5, <2>1 DEF ScrapeInv, PublishedInv, StartHttpServer, gauges
  <2>2. CASE Wake
    <3>1. /\ loop = "sleep" /\ loop' = "collect" /\ ~scrape.asleep
          /\ UNCHANGED <<stamp, serving, scrape>>
      BY <2>2 DEF Wake, gauges
    <3>2. QED
      BY <3>1 DEF ScrapeInv, PublishedInv
  <2>3. QED
    BY <1>5, <2>1, <2>2
<1>6. CASE ScrapeScores
  <2>1. {s.poll : s \in series} \ {0} \subseteq
          IF loop \in {"set", "stamp"} THEN {stamp + 1} ELSE {stamp}
    BY DEF PublishedInv, Unset
  <2>2. {s.poll : s \in series} \in SUBSET Nat
    BY <2>1 DEF PublishedInv
  <2>3. QED
    BY <1>6, <2>1, <2>2, ReadEffect
    DEF ScrapeInv, PublishedInv, ScrapeScores, Read, gauges
<1>7. CASE ScrapeAggregate
  <2>1. {aggregate.poll} \in SUBSET Nat
    BY <1>7 DEF ScrapeInv, PublishedInv, ScrapeAggregate, Read
  <2>2. Read("aggregate", {aggregate.poll}, "stamp")
    BY <1>7 DEF ScrapeAggregate
  <2>3. /\ scrape' \in Scrapes /\ scrape'.next = "stamp"
        /\ scrape'.polls = scrape.polls \cup {aggregate.poll} /\ scrape'.asleep = scrape.asleep
        /\ UNCHANGED <<loop, series, aggregate, stamp, serving>> /\ serving
    BY <2>1, <2>2, ReadEffect DEF ExporterInv, Read, gauges
  <2>4. QED
    BY <2>3 DEF ScrapeInv, PublishedInv
<1>8. CASE ScrapeTimestamp
  <2>1. {stamp} \in SUBSET Nat
    BY <1>8 DEF ScrapeInv, PublishedInv, ScrapeTimestamp, Read
  <2>2. Read("stamp", {stamp}, "answered")
    BY <1>8 DEF ScrapeTimestamp
  <2>3. /\ scrape' \in Scrapes /\ scrape'.next = "answered"
        /\ scrape'.polls = scrape.polls \cup {stamp} /\ scrape'.asleep = scrape.asleep
        /\ UNCHANGED <<loop, series, aggregate, stamp, serving>> /\ serving
    BY <2>1, <2>2, ReadEffect DEF ExporterInv, Read, gauges
  <2>4. QED
    BY <2>3 DEF ScrapeInv, PublishedInv
<1>9. CASE ScrapeEnds
  BY <1>9 DEF ScrapeInv, PublishedInv, ScrapeEnds, gauges
<1>10. CASE UNCHANGED exporterVars
  BY <1>10 DEF ScrapeInv, exporterVars, gauges
<1>11. QED
  BY <1>1, <1>2, <1>3, <1>4, <1>5, <1>6, <1>7, <1>8, <1>9, <1>10
  DEF ExporterNext, Loop, UpdateGauges, Scrape

\* The scores are of one device each.
LEMMA ScoresStep ==
  ASSUME WrittenInv, Collect
  PROVE  /\ \A s \in scores' : s = [device |-> s.device, score |-> s.score]
         /\ \A s, t \in scores' : s.device = t.device => s = t
BY DEF Collect, DriftScores

\* Samples are known by their devices.
LEMMA SampleIs ==
  ASSUME NEW d, NEW n, NEW e, NEW m
  PROVE  /\ Sample(d, n).device = d /\ Sample(d, n).score = n
         /\ d # e => Sample(d, n) # Sample(e, m)
BY DEF Sample

\* Every step keeps the series those of the scores that are written.
LEMMA WrittenStep ==
  ASSUME ExporterInv, [ExporterNext]_exporterVars
  PROVE  WrittenInv'
<1> USE DEF ExporterInv
<1>1. CASE Collect
  BY <1>1, ScoresStep DEF WrittenInv, Collect, gauges, ScoresIn
<1>2. CASE CollectFails \/ StartHttpServer \/ Wake
  <2>1. /\ UNCHANGED <<scores, todo, unset, series, aggregate>>
        /\ loop' \notin {"set", "stamp"} /\ loop # "set"
    BY <1>2 DEF CollectFails, StartHttpServer, Wake, AfterFailure, gauges
  <2>2. QED
    BY <2>1 DEF WrittenInv, ScoresIn
<1>3. CASE Clear
  BY <1>3 DEF WrittenInv, Clear, Cleared
<1>4. CASE Label
  <2>1. PICK s \in todo :
          /\ series' = series \cup {Unset(s.device)}
          /\ todo' = todo \ {s} /\ unset' = {s}
    BY <1>4 DEF Label
  <2>2. /\ loop = "set" /\ unset = {} /\ UNCHANGED <<loop, scores, aggregate, stamp>>
    BY <1>4 DEF Label
  <2>3. scores \ (todo \cup unset) = scores' \ (todo' \cup unset')
    BY <2>1, <2>2 DEF WrittenInv
  <2>4. \A d, n : Sample(d, n)' = Sample(d, n)
    BY <2>2 DEF Sample, Poll
  <2>5. series' = {Sample(t.device, t.score)' : t \in scores' \ (todo' \cup unset')}
                    \cup {Unset(t.device) : t \in unset'}
    BY <2>1, <2>2, <2>3, <2>4 DEF WrittenInv
  <2>6. QED
    BY <2>1, <2>2, <2>5 DEF WrittenInv
<1>5. CASE SetScore
  <2>1. PICK s \in unset :
          series' = (series \ {Unset(s.device)}) \cup {Sample(s.device, s.score)}
    BY <1>5 DEF SetScore
  <2>2. /\ loop = "set" /\ unset' = {} /\ unset = {s}
        /\ UNCHANGED <<loop, scores, todo, aggregate, stamp>>
    BY <1>5, <2>1 DEF SetScore, WrittenInv
  <2>3. \A d, n : Sample(d, n)' = Sample(d, n)
    BY <2>2 DEF Sample, Poll
  <2> DEFINE Rest == scores \ (todo \cup unset)
             Written == {Sample(t.device, t.score) : t \in Rest}
  <2>4. series = Written \cup {Unset(s.device)}
    BY <2>2 DEF WrittenInv
  <2>5. \A t \in Rest : t.device # s.device
    BY <2>1, <2>2 DEF WrittenInv
  <2>6. Unset(s.device) \notin Written
    BY <2>5 DEF Sample, Unset
  <2>7. series' = Written \cup {Sample(s.device, s.score)}
    BY <2>1, <2>4, <2>6
  <2>8. scores' \ (todo' \cup unset') = Rest \cup {s}
    BY <2>1, <2>2 DEF WrittenInv
  <2>9. series' = {Sample(t.device, t.score)' : t \in scores' \ (todo' \cup unset')}
                    \cup {Unset(t.device) : t \in unset'}
    BY <2>2, <2>3, <2>7, <2>8
  <2>10. QED
    BY <2>2, <2>9 DEF WrittenInv
<1>6. CASE SetAggregate
  <2>1. /\ loop = "set" /\ todo = {} /\ unset = {} /\ loop' = "stamp"
        /\ aggregate' = [poll |-> Poll, mean |-> DriftScoreAggregate(scores)]
        /\ UNCHANGED <<scores, todo, unset, series, stamp>>
    BY <1>6 DEF SetAggregate
  <2>2. \A d, n : Sample(d, n)' = Sample(d, n)
    BY <2>1 DEF Sample, Poll
  <2>3. series = {Sample(s.device, s.score) : s \in scores}
    BY <2>1 DEF WrittenInv
  <2>4. ScoresIn(series) = scores
    <3>1. ASSUME NEW s \in scores PROVE s \in ScoresIn(series)
      <4>1. Sample(s.device, s.score) \in series
        BY <2>3
      <4>2. QED
        BY <4>1, SampleIs DEF ScoresIn, WrittenInv
    <3>2. ASSUME NEW s \in ScoresIn(series) PROVE s \in scores
      <4>1. PICK t \in scores : s = [device |-> Sample(t.device, t.score).device,
                                     score |-> Sample(t.device, t.score).score]
        BY <2>3 DEF ScoresIn
      <4>2. QED
        BY <4>1, SampleIs DEF WrittenInv
    <3>3. QED
      BY <3>1, <3>2
  <2>5. /\ aggregate'.mean = DriftScoreAggregate(ScoresIn(series'))
        /\ aggregate' = [poll |-> aggregate'.poll, mean |-> aggregate'.mean]
    BY <2>1, <2>4
  <2>6. series' = {Sample(s.device, s.score)' : s \in scores'}
    BY <2>1, <2>2, <2>3
  <2>7. QED
    BY <2>1, <2>5, <2>6 DEF WrittenInv, ScoresIn
<1>7. CASE SetTimestamp
  <2>1. /\ scores' = {} /\ UNCHANGED <<todo, unset, series, aggregate>>
        /\ loop = "stamp" /\ loop' \notin {"set", "stamp"}
    BY <1>7 DEF SetTimestamp
  <2>2. QED
    BY <2>1 DEF WrittenInv, ScoresIn
<1>8. CASE Scrape \/ UNCHANGED exporterVars
  <2>1. UNCHANGED <<loop, scores, todo, unset, series, aggregate, stamp>>
    BY <1>8
    DEF Scrape, ScrapeScores, ScrapeAggregate, ScrapeTimestamp, ScrapeEnds, Read,
        exporterVars, gauges
  <2>2. \A d, n : Sample(d, n)' = Sample(d, n)
    BY <2>1 DEF Sample, Poll
  <2>3. QED
    BY <2>1, <2>2 DEF WrittenInv, ScoresIn
<1>9. QED
  BY <1>1, <1>2, <1>3, <1>4, <1>5, <1>6, <1>7, <1>8 DEF ExporterNext, Loop, UpdateGauges

LEMMA ExporterInvariance == ExporterSpec => []ExporterInv
<1>1. ASSUME ExporterInit PROVE ExporterInv
  <2>1. PublishedInv
    BY <1>1 DEF ExporterInit, PublishedInv
  <2>2. ScrapeInv
    <3>1. stamp = 0 /\ serving = FALSE /\ loop = "collect" /\ scrape = NoScrape
      BY <1>1 DEF ExporterInit
    <3>2. QED
      BY <3>1, NoScrapeIs DEF ScrapeInv
  <2>3. WrittenInv
    <3>1. ScoresIn({}) = {}
      BY DEF ScoresIn
    <3>2. QED
      BY <1>1, <3>1 DEF ExporterInit, WrittenInv
  <2>4. QED
    BY <2>1, <2>2, <2>3 DEF ExporterInv
<1>2. ExporterInv /\ [ExporterNext]_exporterVars => ExporterInv'
  BY PublishedStep, ScrapeStep, WrittenStep DEF ExporterInv
<1>3. QED
  BY <1>1, <1>2, PTL DEF ExporterSpec

\* No score and no aggregate is ever older than the timestamp served with it, also
\* in the middle of an update and after polls that failed, and one score at most,
\* that being written, is of no poll.
THEOREM FreshScores == ExporterSpec => []FreshAsStamped
<1>1. ASSUME ExporterInv PROVE FreshAsStamped
  <2>1. /\ stamp \in Nat /\ aggregate.poll >= stamp
        /\ \A s \in series :
             s.poll >= stamp \/ (loop = "set" /\ \E t \in unset : s = Unset(t.device))
    BY <1>1 DEF ExporterInv, PublishedInv
  <2>2. \A s, t \in series : s.poll < stamp /\ t.poll < stamp => s = t
    <3> SUFFICES ASSUME NEW s \in series, NEW t \in series, s.poll < stamp, t.poll < stamp
                 PROVE  s = t
      OBVIOUS
    <3>1. ~(s.poll >= stamp) /\ ~(t.poll >= stamp)
      BY <1>1 DEF ExporterInv, PublishedInv, Unset
    <3>2. PICK u \in unset, v \in unset : s = Unset(u.device) /\ t = Unset(v.device)
      BY <2>1, <3>1
    <3>3. u = v
      BY <1>1 DEF ExporterInv, WrittenInv
    <3>4. QED
      BY <3>2, <3>3
  <2>3. QED
    BY <2>1, <2>2 DEF FreshAsStamped
<1>2. QED
  BY <1>1, ExporterInvariance, PTL

\* A scrape mixes the collected values of two polls next to each other at most, and
\* is never served an aggregate or a timestamp that no poll has set.
THEOREM CoherentScrapes == ExporterSpec => []ScrapesAreCoherent
<1>1. ExporterInv => ScrapesAreCoherent
  BY DEF ExporterInv, PublishedInv, ScrapeInv, Scrapes, ScrapesAreCoherent
<1>2. QED
  BY <1>1, ExporterInvariance, PTL

\* Between polls the gauges agree: with the timestamp, with one another, and with
\* the devices reported, whatever was scraped in between and whichever polls failed.
THEOREM GaugesAgreeing == ExporterSpec => []GaugesAgree
<1>1. ExporterInv => GaugesAgree
  BY DEF ExporterInv, PublishedInv, WrittenInv, GaugesAgree
<1>2. QED
  BY <1>1, ExporterInvariance, PTL

-----------------------------------------------------------------------------
(* Scores and types.                                                       *)

\* There are two tables.
LEMMA ScaleIs == IsFiniteSet(Tables) /\ Scale = 2
<1>1. IsFiniteSet({"bgp"}) /\ Cardinality({"bgp"}) = 1
  BY FS_Singleton
<1>2. Tables = {"bgp"} \cup {"interface"} /\ "interface" \notin {"bgp"}
  BY DEF Tables
<1>3. IsFiniteSet(Tables) /\ Cardinality(Tables) = 2
  BY <1>1, <1>2, FS_AddElement
<1>4. QED
  BY <1>3 DEF Scale

\* A device's score is the share of its rows that failed: at least none of them, at
\* most all, and never of no rows.
LEMMA ScoresInRange ==
  ASSUME NEW fetched
  PROVE  DriftScores(fetched) \in ScoresPossible
<1> SUFFICES ASSUME NEW d \in Devices, RowsOf(fetched, d) # {}
             PROVE  (Scale * Cardinality(FailedRowsOf(fetched, d)))
                      \div Cardinality(RowsOf(fetched, d)) \in 0 .. Scale
  BY DEF DriftScores, ScoresPossible
<1> DEFINE rows == RowsOf(fetched, d)
           failed == FailedRowsOf(fetched, d)
<1>1. rows \subseteq Tables /\ failed \subseteq rows
  BY DEF RowsOf, FailedRowsOf
<1>2. IsFiniteSet(rows) /\ Cardinality(rows) <= 2 /\ Cardinality(rows) \in Nat
  BY <1>1, ScaleIs, FS_Subset, FS_CardinalityType DEF Scale
<1>3. Cardinality(failed) <= Cardinality(rows) /\ Cardinality(failed) \in Nat
  BY <1>1, <1>2, FS_Subset, FS_CardinalityType
<1>4. Cardinality(rows) # 0
  BY <1>2, FS_EmptySet
<1> HIDE DEF rows, failed
<1>5. ASSUME NEW n \in Nat, NEW f \in Nat, n <= 2, n # 0, f <= n
      PROVE  (2 * f) \div n \in 0 .. 2
  <2>1. CASE n = 1
    BY <1>5, <2>1
  <2>2. CASE n = 2
    BY <1>5, <2>2
  <2>3. QED
    BY <1>5, <2>1, <2>2
<1>6. (2 * Cardinality(failed)) \div Cardinality(rows) \in 0 .. 2
  BY <1>2, <1>3, <1>4, <1>5
<1>7. QED
  BY <1>6, ScaleIs DEF rows, failed

\* The parts of the type invariant that steps change, and the bound on polls.
BoundsInv ==
  /\ loop \in {"collect", "clear", "set", "stamp", "serve", "sleep", "exited"}
  /\ stamp <= MaxPolls
  /\ loop \in {"clear", "set", "stamp"} => stamp < MaxPolls
  /\ failures \in 0 .. MaxFailures
  /\ scores \in ScoresPossible
  /\ series \subseteq [device : Devices, poll : 0 .. MaxPolls, score : 0 .. Scale]
  /\ \A s, t \in series : s.device = t.device => s = t

\* Every step keeps the bounds.
LEMMA BoundsStep ==
  ASSUME ExporterInv, BoundsInv, [ExporterNext]_exporterVars
  PROVE  BoundsInv'
<1> USE DriftExporterAssumption
<1>1. CASE Collect
  BY <1>1, ScoresInRange DEF BoundsInv, Collect, gauges
<1>2. CASE CollectFails
  BY <1>2 DEF BoundsInv, CollectFails, AfterFailure, gauges
<1>3. CASE StartHttpServer \/ Wake
  BY <1>3 DEF BoundsInv, StartHttpServer, Wake, gauges
<1>4. CASE Clear
  BY <1>4 DEF BoundsInv, Clear, Cleared
<1>5. CASE Label
  <2>1. PICK s \in todo : series' = series \cup {Unset(s.device)}
    BY <1>5 DEF Label
  <2>2. /\ loop = "set" /\ unset = {} /\ UNCHANGED <<loop, scores, stamp, failures>>
    BY <1>5 DEF Label
  <2>3. s \in scores /\ s.device \in Devices
    BY <2>1 DEF ExporterInv, WrittenInv, BoundsInv, ScoresPossible
  <2>4. \A t \in series : t.device # s.device
    <3>1. series = {Sample(t.device, t.score) : t \in scores \ todo}
      BY <2>2 DEF ExporterInv, WrittenInv
    <3>2. \A t \in scores \ todo : t.device # s.device
      BY <2>1, <2>3 DEF ExporterInv, WrittenInv
    <3>3. QED
      BY <3>1, <3>2, SampleIs
  <2>5. /\ Unset(s.device) \in [device : Devices, poll : 0 .. MaxPolls, score : 0 .. Scale]
        /\ Unset(s.device).device = s.device
    BY <2>3, ScaleIs DEF Unset
  <2>6. QED
    BY <2>1, <2>2, <2>4, <2>5 DEF BoundsInv
<1>6. CASE SetScore
  <2>1. PICK s \in unset :
          series' = (series \ {Unset(s.device)}) \cup {Sample(s.device, s.score)}
    BY <1>6 DEF SetScore
  <2>2. loop = "set" /\ UNCHANGED <<loop, scores, stamp, failures>>
    BY <1>6 DEF SetScore
  <2>3. s \in scores /\ s.device \in Devices /\ s.score \in 0 .. Scale
    BY <2>1 DEF ExporterInv, WrittenInv, BoundsInv, ScoresPossible
  <2>4. Unset(s.device) \in series /\ Unset(s.device).device = s.device
    BY <2>1, <2>2 DEF ExporterInv, WrittenInv, Unset
  <2>5. /\ Sample(s.device, s.score)
             \in [device : Devices, poll : 0 .. MaxPolls, score : 0 .. Scale]
        /\ Sample(s.device, s.score).device = s.device
    BY <2>2, <2>3 DEF Sample, Poll, BoundsInv, ExporterInv, PublishedInv
  <2>6. QED
    BY <2>1, <2>2, <2>4, <2>5 DEF BoundsInv
<1>7. CASE SetAggregate
  BY <1>7 DEF BoundsInv, SetAggregate
<1>8. CASE SetTimestamp
  BY <1>8 DEF BoundsInv, SetTimestamp, Poll, ScoresPossible, ExporterInv, PublishedInv
<1>9. CASE Scrape \/ UNCHANGED exporterVars
  BY <1>9
  DEF BoundsInv, Scrape, ScrapeScores, ScrapeAggregate, ScrapeTimestamp, ScrapeEnds, Read,
      exporterVars, gauges
<1>10. QED
  BY <1>1, <1>2, <1>3, <1>4, <1>5, <1>6, <1>7, <1>8, <1>9
  DEF ExporterNext, Loop, UpdateGauges

\* The variables of the exporter have their types: scores are shares, a device has
\* one series at most, one score at most is being written.
THEOREM ExporterTyped == ExporterSpec => []ExporterTypeOK
<1>1. ExporterInit => BoundsInv
  BY DriftExporterAssumption DEF ExporterInit, BoundsInv, ScoresPossible
<1>2. ExporterInv /\ BoundsInv /\ [ExporterNext]_exporterVars => BoundsInv'
  BY BoundsStep
<1>3. ExporterInv /\ BoundsInv => ExporterTypeOK
  <2> SUFFICES ASSUME ExporterInv, BoundsInv PROVE ExporterTypeOK
    OBVIOUS
  <2>1. Cardinality(unset) <= 1
    <3>1. CASE unset = {}
      BY <3>1, FS_EmptySet
    <3>2. CASE unset # {}
      <4>1. PICK s \in unset : unset = {s}
        BY <3>2 DEF ExporterInv, WrittenInv
      <4>2. Cardinality({s}) = 1
        BY FS_Singleton
      <4>3. QED
        BY <4>1, <4>2
    <3>3. QED
      BY <3>1, <3>2
  <2>2. /\ aggregate.poll \in 0 .. MaxPolls /\ stamp \in 0 .. MaxPolls
        /\ scrape.polls \subseteq 0 .. MaxPolls
    <3>1. /\ stamp \in Nat /\ stamp <= MaxPolls
          /\ loop \in {"set", "stamp"} => stamp < MaxPolls
          /\ aggregate.poll = IF loop = "stamp" THEN stamp + 1 ELSE stamp
      BY DEF ExporterInv, PublishedInv, BoundsInv
    <3>2. scrape.polls \subseteq Nat
      BY DEF ExporterInv, ScrapeInv, Scrapes
    <3>3. \A p \in scrape.polls \ {0} : p \in {stamp - 1, stamp} \/
            (loop \in {"set", "stamp"} /\ p = stamp + 1)
      BY DEF ExporterInv, ScrapeInv, Scrapes
    <3>4. QED
      BY <3>1, <3>2, <3>3, DriftExporterAssumption
  <2>3. /\ scrape.next \in {"scores", "aggregate", "stamp", "answered"}
        /\ scrape.asleep \in BOOLEAN /\ serving \in BOOLEAN
    BY DEF ExporterInv, ScrapeInv, Scrapes
  <2>4. todo \subseteq scores /\ unset \subseteq scores
    BY DEF ExporterInv, WrittenInv
  <2>5. QED
    BY <2>1, <2>2, <2>3, <2>4 DEF BoundsInv, ExporterTypeOK
<1>4. QED
  BY <1>1, <1>2, <1>3, ExporterInvariance, PTL DEF ExporterSpec
=============================================================================
