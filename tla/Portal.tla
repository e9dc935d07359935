------------------------------- MODULE Portal -------------------------------
(***************************************************************************)
(* The self-service portal: requests are authorised, share one lazily      *)
(* connected Temporal client, and start a workflow whose ID is derived     *)
(* from the device's host name.  Handlers are coroutines of one process:   *)
(* between two awaits nothing else runs, at an await anything may.         *)
(***************************************************************************)
EXTENDS Integers, FiniteSets

CONSTANTS Requests,   \* HTTP requests, each sent once
          Call,       \* what a request asks for, and with which key
          Identities, \* API keys to users and roles: app.state.api_keys
          NoClient,
          NoRun

Kinds == {"deployment", "override", "workflows"}

\* Hosts that are not blank; a blank one passes min_length=1 and not strip().
Blank == " "

ASSUME PortalAssumption ==
  /\ NoClient \notin Requests /\ NoRun \notin Requests
  /\ \A q \in Requests : Call[q].kind \in Kinds /\ Call[q].valid \in BOOLEAN
  /\ \A key \in DOMAIN Identities : Identities[key].role \in {"viewer", "operator"}

VARIABLES client,  \* _client: the connection made by a request, or NoClient
          pc,      \* what the handler of a request does next
          code,    \* the status it answered with, 0 before
          result,  \* the run it answered with: the request that started it
          runs     \* the workflow runs in Temporal

vars == <<client, pc, code, result, runs>>

Run == [request   : Requests,
        id        : {Call[q].host : q \in Requests},
        initiator : {Identities[key] : key \in DOMAIN Identities},
        open      : BOOLEAN]

TypeOK ==
  /\ client \in Requests \cup {NoClient}
  /\ pc \in [Requests -> {"new", "client", "connecting", "call", "answered"}]
  /\ code \in [Requests -> {0, 200, 202, 401, 403, 409, 422, 500, 502}]
  /\ result \in [Requests -> Requests \cup {NoRun}]
  /\ runs \subseteq Run

Init ==
  /\ client = NoClient
  /\ pc = [q \in Requests |-> "new"]
  /\ code = [q \in Requests |-> 0]
  /\ result = [q \in Requests |-> NoRun]
  /\ runs = {}

Answer(q, status) ==
  /\ pc' = [pc EXCEPT ![q] = "answered"]
  /\ code' = [code EXCEPT ![q] = status]

GoOn(q, to) == pc' = [pc EXCEPT ![q] = to] /\ UNCHANGED code

-----------------------------------------------------------------------------
(* auth.py.                                                                *)

Authenticated(q) == Call[q].key \in DOMAIN Identities

Identity(q) == Identities[Call[q].key]

\* Mutant of RequiredRole: overrides are left to viewers.
RequiredRoleLax(kind) == IF kind = "deployment" THEN "operator" ELSE "viewer"

RequiredRole(kind) == IF kind = "workflows" THEN "viewer" ELSE "operator"

Satisfies(role, required) == role = "operator" \/ required = "viewer"

Authorize(q) ==
  /\ pc[q] = "new"
  /\ IF ~Authenticated(q) THEN Answer(q, 401)
     ELSE IF ~Satisfies(Identity(q).role, RequiredRole(Call[q].kind)) THEN Answer(q, 403)
     ELSE GoOn(q, "client")
  /\ UNCHANGED <<client, result, runs>>

-----------------------------------------------------------------------------
(* get_temporal_client.                                                    *)

GetClient(q) ==
  /\ pc[q] = "client"
  /\ GoOn(q, IF client = NoClient THEN "connecting" ELSE "call")
  /\ UNCHANGED <<client, result, runs>>

\* Every request that found no client assigns its own, whoever has assigned one
\* since.
Connected(q) ==
  /\ pc[q] = "connecting"
  /\ client' = q
  /\ GoOn(q, "call")
  /\ UNCHANGED <<result, runs>>

ConnectFails(q) ==
  /\ pc[q] = "connecting"
  /\ Answer(q, 502)
  /\ UNCHANGED <<client, result, runs>>

-----------------------------------------------------------------------------
(* The body is checked once the dependencies are there; then the workflow  *)
(* is started or the workflows listed.                                     *)

Starting(q) ==
  /\ pc[q] = "call"
  /\ Call[q].kind # "workflows"
  /\ Call[q].valid

Invalid(q) ==
  /\ pc[q] = "call"
  /\ ~Call[q].valid
  /\ Answer(q, 422)
  /\ UNCHANGED <<client, result, runs>>

\* Mutant of WorkflowId: each type of workflow has an ID of its own.
WorkflowIdOfType(q) == <<Call[q].kind, Call[q].host>>

\* device_workflow_id: the workflows of all types share the device's ID.
WorkflowId(q) == Call[q].host

NewRun(q) == [request |-> q, id |-> WorkflowId(q), initiator |-> Identity(q), open |-> TRUE]

\* id_conflict_policy=FAIL against open runs, ALLOW_DUPLICATE of closed ones.
Conflicting(q) == {r \in runs : r.id = WorkflowId(q) /\ r.open}

BlankHost(q) ==
  /\ Starting(q)
  /\ Call[q].host = Blank
  /\ Answer(q, 502)
  /\ UNCHANGED <<client, result, runs>>

Start(q) ==
  /\ Starting(q)
  /\ Call[q].host # Blank
  /\ Conflicting(q) = {}
  /\ runs' = runs \cup {NewRun(q)}
  /\ result' = [result EXCEPT ![q] = q]
  /\ Answer(q, 202)
  /\ UNCHANGED client

\* Mutant of AlreadyStarted: id_conflict_policy=USE_EXISTING.
AlreadyStartedIsUsed(q) ==
  /\ Starting(q)
  /\ \E r \in Conflicting(q) : result' = [result EXCEPT ![q] = r.request]
  /\ Answer(q, 202)
  /\ UNCHANGED <<client, runs>>

AlreadyStarted(q) ==
  /\ Starting(q)
  /\ Call[q].host # Blank
  /\ Conflicting(q) # {}
  /\ Answer(q, 409)
  /\ UNCHANGED <<client, result, runs>>

\* Temporal cannot be reached, or its answer is lost after the start.
StartFails(q) ==
  /\ Starting(q)
  /\ Call[q].host # Blank
  /\ \/ UNCHANGED runs
     \/ Conflicting(q) = {} /\ runs' = runs \cup {NewRun(q)}
  /\ Answer(q, 502)
  /\ UNCHANGED <<client, result>>

\* A listing that fails is not caught.
ListWorkflows(q) ==
  /\ pc[q] = "call"
  /\ Call[q].kind = "workflows"
  /\ Call[q].valid
  /\ Answer(q, 200) \/ Answer(q, 500)
  /\ UNCHANGED <<client, result, runs>>

\* A run may close at any time, and need not: NetworkChange has runs that never do.
RunCloses ==
  /\ \E r \in runs : r.open /\ runs' = (runs \ {r}) \cup {[r EXCEPT !.open = FALSE]}
  /\ UNCHANGED <<client, pc, code, result>>

-----------------------------------------------------------------------------
Handle(q) ==
  \/ Authorize(q) \/ GetClient(q) \/ Connected(q) \/ ConnectFails(q) \/ Invalid(q)
  \/ BlankHost(q) \/ Start(q) \/ AlreadyStarted(q) \/ StartFails(q)
  \/ ListWorkflows(q)

Next == RunCloses \/ \E q \in Requests : Handle(q)

Spec == Init /\ [][Next]_vars

-----------------------------------------------------------------------------
(* Properties.                                                             *)

\* Two open runs change the same device only if they were asked for under
\* different names of it: one name has one open run, whatever its type is and
\* however the starts are interleaved, also when the answer to one was lost.
OnlyAliasesOverlap ==
  \A r, s \in runs :
    r.open /\ s.open /\ r # s /\ Call[r.request].address = Call[s.request].address =>
      Call[r.request].host # Call[s.request].host

\* Every run was started for an operator, recorded as its initiator by the key
\* of the same request, and that request was told so, or told 502; a 202 names a
\* run that this very request started.
RunsAccountedFor ==
  /\ \A r \in runs :
       /\ r.initiator = Identity(r.request) /\ r.initiator.role = "operator"
       /\ code[r.request] \in {202, 502}
  /\ \A q \in Requests :
       code[q] = 202 => result[q] = q /\ \E r \in runs : r.request = q
=============================================================================
