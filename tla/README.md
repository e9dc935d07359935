# Formal verification of Network Synapse

Network Synapse changes the configuration of Nokia SR Linux devices from a source of
truth (SoT) in Infrahub. Temporal runs the workflows that do it: they read the intent
from Infrahub, talk to a device over gNMI, and write statuses and an audit trail back.
Around them stand the portal that starts them, the scripts that fill the SoT, the
resource manager that hands out addresses and AS numbers, and an exporter of drift
scores. This directory specifies all of these in TLA+, model-checks them with TLC on
small instances and proves with TLAPS, for every instance, all that the runs check but
liveness.

The questions are those a unit test with mocked activities can hardly ask. What is on
a device after any sequence of failed, repeated, unacknowledged and late SETs? Is what
a workflow reports true of the device at that time? Does every run close, so that the
next operation on the device can start? What do two runs of a script leave behind that
race, die half way and are run again?

- `tlc -workers 2 -config DriftRemediation.cfg DriftRemediation.tla` checks a run; the
  list of runs, with the module of each, is in `PROJECT.json` and below.
- `tlapm NetworkChangeProofs.tla` checks the proofs of a module; there are eight such
  modules, `*Proofs.tla`, and section 4 says what is in each.

## 1. Inventory of the system

Paths are below `src/`; `workers` stands for `workers/synapse_workers` and `backend`
for `backend/network_synapse`.

### How the parts interact

    portal (HTTP) --start_device_workflow--> Temporal --> worker: workflows
                                                            |  activities
                       +------------------------------------+
                       v                                    v
      device (gNMI GET/SET)                      Infrahub (GraphQL: intent,
      one configuration per device               device and override status)
                                                   ^                 ^
                        load_schemas.py, populate_sot.py     resource manager

      SuzieQ (REST) --drift exporter--> gauges <--HTTP-- Prometheus

A workflow is deterministic code whose only effects are activities. Temporal keeps its
state durable, so that a crash of the worker loses no step, and runs an activity *at
least once*: an attempt that timed out or whose worker died is run again whatever it
had done. With `device_retry_policy` the third failure is raised in the workflow as
`ActivityError`; without a policy attempts go on until one succeeds. A workflow fails
when an `ActivityError` or an `ApplicationError` leaves `run()`; any other exception
only fails the workflow *task*, which Temporal retries for ever, and the run stays
open.

### Components

**gNMI configuration I/O** (`workers/activities/_gnmi_io.py`,
`backend/scripts/deploy_configs.py`). State: none of its own; it changes the device.
Operations: GET of the writable configuration; SET as `update` (merge) or as
`replace`. Hard: the call blocks in `asyncio.to_thread`, which neither a timeout nor a
cancellation stops, so that a SET counted as failed can have taken effect or take
effect later; merge and replace differ in what they leave. Right when a deployment
keeps what the payload does not mention and a rollback restores exactly the backup.

**Rendering, hygiene, validation, drift** (`backend/scripts/generate_configs.py`,
`hygiene_checker.py`, `validate_state.py`, `backend/templates`, and `classify_drift`
and `decide_drift_action` in the drift workflow). Pure functions. Hard: drift is
decided per top-level section, the severity by a recursive search for a key. Right
when only hygienic intent is deployed, a missing or differing section is drift, and
maintenance wins over severity.

**NetworkChangeWorkflow** (`workers/workflows/network_change_workflow.py`). State:
backup, intent, the rendered configuration. Steps: back up, store, fetch, render,
check, deploy, validate twice, set `active`; on a failure roll back and set
`maintenance`. Hard: each failure has a path of its own; the SoT is edited meanwhile;
a rollback may fail itself. Right when the device ends at the baseline or the whole
change, and the report says which.

**DriftRemediationWorkflow** (`drift_remediation_workflow.py`). State: the status and
intent read, decision, backup, audit trail. Steps: read, render, compare, audit, back
up, deploy, validate, set the status, audit. Hard: it acts on what it read some awaits
ago; the device is read twice; a failure is not rolled back. Right when it acts only
in order, and every outcome is recorded.

**EmergencyChangeWorkflow** (`emergency_change_workflow.py`). State: a given
configuration, a time to live, backup, audit trail. Steps: audit, back up, set
`maintenance`, deploy, validate BGP, audit, sleep, restore, set `active`. Hard: an
error in the handler of an error; the durable timer; best-effort bookkeeping at the
end. Right when an unsettled change is always in maintenance, always on the audit
trail, and is taken back when its time is up.

**OperationalOverrideWorkflow** (`operational_override_workflow.py`,
`override_activities.py`). State: the end of the window, signalled extensions, early
termination, a status in Infrahub, and three metrics in the memory of the worker. Hard:
signals between any two awaits; the race of a signal with the timer; the activities
that apply and revert also count, and run at least once; a worker that is restarted
inside a window keeps the run and loses the metrics; safety checks that fail. Right
when the window is honoured, and neither the status nor the metrics claim what has not
happened.

**Triggers and worker** (`triggers.py`, `worker.py`). All four workflows are started
under the workflow ID `device-ops-<hostname>`: Temporal refuses a second start while a
run of that ID is open. Hard: cross-workflow races on a device, runs that never close,
names that alias a device, callers that start a workflow under an ID of their own.

**Infrahub client and activities** (`backend/infrahub/client.py`,
`workers/activities/infrahub_activities.py`). Reads of device, interfaces and sessions
in separate requests; mutations of two statuses. Hard: a read that is not a snapshot,
a mutation repeated.

**Self-service portal** (`presentation/synapse_presentation`). State: API keys with
roles, one lazily connected client. Operations: start a deployment or an override,
list workflows. Hard: two first requests connect at once; 409 and 502. Right when one
name of a device never has two runs, none starts without the role, and every run is
accounted for.

**Resource manager** (`backend/infrahub/resource_manager.py`). State in Infrahub:
pools and their allocations, by identifier. Operations: ensure pools, allocate an
address, a prefix or a number, provision a device (an ASN, a loopback and a prefix per
peer). Hard: exhaustion half way, retries, the two ends of one link. Right when no
resource is given out twice and a repeated call finds its own.

**Population and schema loading** (`backend/data/populate_sot.py`,
`backend/schemas/load_schemas.py`). Query-then-create for some twenty kinds of object
in the order of their dependencies; batches of schemas, stopping at the first failure.
State: the IDs a run has collected; the objects in Infrahub. A reference whose ID is
not known is left out without an error. Hard: two runs at once, a run after one that
failed half way, a run before the schema is there. Right when exit code 0 means
complete, every object has the references the seed names, and repeats create nothing
twice.

**SuzieQ exporter** (`backend/collector`). A loop that computes a score per device and
sets gauges, beside an HTTP server that serves them. Hard: a scrape between `clear()`
and the last `set()`, freshness when polls fail. Right when the gauges agree between
polls and nothing collected is served that is older than the timestamp says.

**Compliance posture, checks, transforms, syslog** (`backend/monitoring`, `checks`,
`transforms`, `scripts/configure_syslog.py`). Stateless: a query's result in, a
verdict, a text or one write out.

**Tooling** (`tasks`, `development`, `containerlab`, `ansible`): no program logic.

`PROJECT.json` lists the hazards of this code line by line, with the properties that
watch each of them.

## 2. The modules

| Module | Models | Uses |
|---|---|---|
| `DeviceConfig` | configurations, rendering, hygiene, validation, drift: pure operators | |
| `DeviceActivities` | one device, its node in Infrahub, activities and their failures | `DeviceConfig` |
| `ConfigTransaction` | abstract: what a change does to one configuration | |
| `NetworkChange` | `NetworkChangeWorkflow` | `DeviceActivities`, implements `ConfigTransaction` |
| `DriftRemediation` | `DriftRemediationWorkflow` | the same |
| `EmergencyChange` | `EmergencyChangeWorkflow` | the same |
| `OperationalOverride` | `OperationalOverrideWorkflow` | `DeviceActivities` |
| `DeviceOperations` | changes and remediations of one device under its workflow ID | instances of `NetworkChange` and `DriftRemediation` on one world |
| `Portal` | requests to the portal, its Temporal client, starts under the device's ID | |
| `InfrahubRequests` | failures between a client and Infrahub, and their bound | |
| `SourceOfTruth` | `load_schemas.py` and `populate_sot.py` against Infrahub | `InfrahubRequests` |
| `ResourceGrants` | abstract: resources owned for ever, by one holder each | |
| `ResourceManager` | pools, allocations and `provision_device` | `InfrahubRequests`, implements `ResourceGrants` |
| `DriftExporter` | the poll loop, the gauges and scrapes of the exporter | |
| `DeviceProofs` | lemmas about configurations, activities and the environment | `DeviceActivities` |
| `NetworkChangeProofs`, `DriftRemediationProofs`, `EmergencyChangeProofs`, `OperationalOverrideProofs` | theorems about one workflow | the module of the same name, `DeviceProofs` |
| `DeviceOperationsProofs` | theorems about the runs of one device, one after the other | `DeviceOperations`, instances of the first two modules above |
| `InfrahubProofs` | theorems about pools and grants, and about the population | `ResourceManager`, `SourceOfTruth` |
| `ServiceProofs` | theorems about the portal and about the exporter | `Portal`, `DriftExporter` |
| `MC...` | what the runs of that module need: symmetry, a seed, requests, pools | |

`InfrahubProofs` and `ServiceProofs` are about two specifications each and extend both.
That is why the specification of `SourceOfTruth` is `SoTSpec`, with `SoTInit`, `SoTNext`
and `SoTTypeOK`, and that of `DriftExporter` is `ExporterSpec`.

**Configurations.** A configuration is a function from leaves to values or `Absent`. A
leaf is an attribute (`admin-state` or `description`) of an interface, or another
top-level section, which is one leaf. `Merge(base, payload)` is a SET `update`; a
`replace` yields the payload. An `Intent` is a set of rendered interfaces with their
attributes and one of the `Defects`: none; unfetchable (Infrahub has no such device);
unrenderable (a value the template does not escape breaks the JSON); unhygienic.
`Render` is the template: each rendered interface has an admin state, others are
absent.

**Control.** In each workflow module `pc` is the activity the workflow awaits, or how
the run ended, and `attempt` the attempt of it. An action is one attempt that ends,
together with the workflow's own code up to the next await, so that anything else can
happen only where the code awaits. `RetryOr(handler)` is a failed attempt under
`device_retry_policy`. An activity without a policy has a `RetryForever` step; its
failed attempts that took effect are the `...Unacked` actions.

**The environment.** `Faults` names what may happen besides:

| Fault | Meaning |
|---|---|
| `ackLost` | a failed attempt has taken effect (SET, status or audit write) |
| `reportLost` | an activity ran to its end, emitting its metrics, and Temporal runs it again |
| `lateSet` | a timed-out SET still runs in its thread and lands at any later time |
| `outOfBand` | an engineer configures the device by hand |
| `intentEdit` | the intent in Infrahub is edited |
| `statusEdit` | an operator sets the device status in Infrahub |
| `workerRestart` | the worker process is replaced, and its metrics start at 0 again |

The device may initially hold anything, so earlier drift needs no fault. To a workflow
a restart of the worker is a failed attempt of what it was at, which needs no fault
either: `workerRestart` is there for what only the process keeps.

**The metrics of overrides.** `REGISTRY` (`metrics.py:30`) is in the memory of the
worker, and the three activities that count run at least once. `ApplyUnreported`,
`RevertUnreported` and `RecordRevertFailureUnreported` are attempts that counted and
whose report was lost, so that Temporal runs them again; `WorkerRestart` sets the
metrics to 0 at any moment. `miscounted` is a history variable: how often either has
happened.

**Phases.** In the three change workflows the operator `Phase` maps `pc` to the phase
of a `ConfigTransaction`: *untouched*, *changing* (the device holds base or target),
*changed*, *restoring*, *restored* (exactly the base), *unresolved* (at one of the
two, and the run says it failed). `base` is the backup, `target` the backup with the
change merged in. `Transaction!Spec` is checked as a property of each workflow.

**Composition.** `DeviceOperations` puts a network change and a drift remediation on
one device with `INSTANCE ... WITH`. `open` holds the runs Temporal has open under the
device's ID. A start happens only while `open` is empty, which is
`WorkflowIDConflictPolicy.FAIL`; a run leaves `open` with the step that closes it, and
a stuck run never leaves it.

**Portal.** A request is a fixed call (key, kind, host name, address, valid body) that
is handled once. `pc` is the await its handler stands at; between two awaits the one
event loop runs nothing else, so that `GetClient` (the test of `_client`) and
`Connected` (its assignment) are separate steps and every request that found no client
connects. The dependencies come before the check of the body, as in FastAPI. `runs`
are Temporal's runs with the request that made them; `Conflicting` is the pair of
policies `FAIL` and `ALLOW_DUPLICATE`. `StartFails` covers an error before the start
and an answer lost after it. A run may close at any time, and need not. `address` is
the device: nothing relates it to `host`, of which the workflow ID is made.

**Population.** `Seed` is the sequence of the entries of the seed files. A run of
`populate_sot.py` handles the kinds in the order of `main()` (`KindOrder`), the entries
of a kind as the seed has them: `Before(i, j)` says that entry `i` has its turn before
entry `j`, `Turns(r)` leaves the pools out for a run without `--with-pools`, `First`
and `Following` are where a run begins and goes on. `pos` is the entry a run is at and
`known` the IDs it has collected. `RefKinds` are the kinds an object of a kind refers
to; that they come before it in `KindOrder` is not assumed, but proved. `Query` and
`Create` are two steps, as they are two requests in `get_or_create`, and another run
may do anything between them. `Skip` is every `continue` in the loops, `References`
the part of the create data with known IDs, `Tolerant` the two loops that print a
refusal and go on. `load_schemas.py` is one step for each batch. Infrahub answers: a
query for a kind without schema is an error; a batch needs the ones it builds on; a
create conflicts where the schema makes the key unique. Attributes are abstracted:
only which objects exist and what they refer to matters.

**Resource manager.** `Allocations[c]` is the sequence of allocations that
`provision_device` makes for the request of call `c`: an AS number, a loopback, one
prefix for each peer. A step is one request. `Identifier` joins names as the code
does; names are sequences of their parts, so that two identifiers may collide where
hyphens allow it, and `UnambiguousNames` assumes that they do not. `Gives` is the
server's `*PoolGetResource`: it answers a known identifier as before. `Owned`, derived
from the grants, maps to the variable of `ResourceGrants`.

**Exporter.** Every value in a gauge carries the number of the successful poll it
comes from, 0 for a value that no poll collected: the one a gauge is registered with,
and the one `labels()` gives a new series (`Unset`). The loop's steps are `Collect`,
`Clear`, `Label` and `SetScore` for each device (`labels()` creates the series, `set()`
gives it its score), `SetAggregate`, `SetTimestamp`, the sleep. `StartHttpServer` may
end the program instead, when its port is taken. A scrape reads the three gauges in
three steps, at any moment of the loop.

Definitions named as mutants in a comment (`RollbackSetMerging`, `LeaveWindowOnTimer`,
...) are plausible bugs in the definition they stand before. No specification uses
them. Put in place of that definition, each makes a property of the runs fail;
`PROJECT.json` says which one.

## 3. The runs

| Run | Faults | Checks |
|---|---|---|
| `NetworkChange_safety` | ackLost, intentEdit, statusEdit | types, exact rollback, only hygienic intent deployed, truthful success, `IsTransaction` |
| `NetworkChange_late` | ackLost, lateSet | the baseline or the whole change and no third configuration, when timed-out SETs land in any order after retries and rollbacks; every run ends, closed or stuck |
| `DriftRemediation` | ackLost, intentEdit | `IsTransaction`, order of audit, backup and change, recorded outcome, every run closes |
| `EmergencyChange` | ackLost, intentEdit | `IsTransaction`, maintenance until settled, audit trail, time to live, every run closes |
| `OperationalOverride` | ackLost, reportLost, intentEdit, workerRestart | window, truthful status and its lifecycle, truthful metrics, every run closes |
| `DeviceOperations` | ackLost, intentEdit | the baseline of a run is kept, reports are true |
| `Portal` | failed connections, failed starts, lost answers | one open run of any type under one name of a device; every run has an operator and an answer, every 202 its own run |
| `SourceOfTruth` | a failure at any request, lost answers, crashes, repeats after failure and success | exit 0 is complete, references are those of the seed, nothing twice, populators succeed in the end |
| `ResourceManager` | the same, overlapping attempts | one owner each, exhaustion only if short, `ImplementsGrants`, everyone is provisioned in the end |
| `DriftExporter` | a poll that fails, a port that is taken | gauges agree between polls, nothing collected is older than its timestamp, coherent scrapes, polls go on |

`TypeOK` of `NetworkChange` is checked, and proved. The `TypeOK` of the other modules
is in no configuration, so that each of their runs checks the properties that can
really fail. It is proved for all modules with proofs but `DeviceOperations`, whose
parts have theirs.

Two further runs look for a disagreement between the code and its documentation, and
find it:

- `NetworkChange_stuck` (`EventuallyCloses`). `triggers.py:16` says that a device's ID
  is re-used "after the previous workflow closes, regardless of outcome". A network
  change that rolled back, was refused by the hygiene checks or could not be rendered
  raises a plain exception. The worker sets no `workflow_failure_exception_types`, so
  the run never closes and every later operation on the device is refused.
- `DriftRemediation_maintenance` (`MaintenanceNeverTouched`). "A device in maintenance
  is never touched": the status is read in the first step, and several awaits lie
  between it and the SET.

More divergences were met while modelling and have no run of their own:

- After a rollback, "the device status should be marked "failed"" says
  `docs/runbooks.md:88`, and `docs/demo-script.md:116` that "Infrahub status was updated
  to "failed"". `NetworkChangeWorkflow` writes `maintenance` (lines 107-112, under a
  comment that says "Mark deployment as failed in Infrahub"), the other workflows do
  likewise, and none ever writes `failed`. After a rendering error, and after a rollback
  that failed, it writes no status at all: the device keeps the one it had. What status
  a failed network change leaves is therefore in no property.
- The runbook (`docs/runbooks.md:124`) says that a backup "is automatically restored".
  A deployment attempt that timed out can land after the rollback and undo it, on a
  device reported as rolled back: `RolledBackToBaseline` needs a run without `lateSet`,
  its theorem assumes so. What is left with late SETs is `NoThirdConfiguration`.
- The runbook (`docs/runbooks.md:108`) says a changed description is only logged.
  Severity is decided for the whole `interface` section, which holds an admin state as
  soon as one interface is rendered: by the theorem `RenderedDriftIsCritical` the
  policy for cosmetic drift never applies to a rendered intent.
- "Overrides are never open-ended" (`operational_override_workflow.py:62`): if
  `update_override_status("active")` fails three times the run closes with the
  override in force, without a timer. A reversion safety check that times out does the
  same.
- A remediation and a revert *merge* the intent, so what the device has beyond it
  stays; a surplus section is drift again at the next check
  (`drift_remediation_workflow.py:235`, `override_activities.py:88`). That is why
  `OutcomeIsRecorded` and `LifecycleTruthful` say that the intent is on the device,
  not that the device equals it.
- In an emergency change the rollback and the audit event of the failure share a `try`
  (`emergency_change_workflow.py:117`): a rollback that fails skips the event.
- Temporal "can retry without double-counting", says `override_activities.py:12`, and
  that the final failure is recorded by a call made "exactly once" (lines 13-14). An
  activity runs at least once. An attempt of `revert_override_config` that changed the
  gauge and the counter and whose completion does not reach Temporal is repeated and
  counts again, or is followed by `record_override_revert_failure`, so that one override
  is a success and a failure; and that activity is awaited without a retry policy and
  repeated until a report arrives. `MetricsTruthful` therefore bounds what is counted by
  one and the number of unreported attempts.
- The gauge counts the overrides "currently active on devices" (`metrics.py:76`). After
  a restart of the worker it is 0 while one is in force, and -1 when that is reverted.
  `MetricsTruthful` speaks of the gauge only as long as the worker lived.
- "Two operations can no longer mutate the same device concurrently"
  (`changelog/165.added.md:1`). The workflow ID is made of the host name as the caller
  wrote it and the device is reached by the address beside it (`triggers.py:36`);
  nothing compares the two, and `strip()` serves only the test for a blank name. Two
  names of one device, or one name with a space, get two IDs and two runs at a time.
  `OnlyAliasesOverlap` says that this is the only way past the ID. And the ID is for
  those who use `start_device_workflow`: `docs/demo-script.md:56-60` starts a network
  change with `id='demo-deploy'` and with the task queue `network-synapse`, which passes
  the mutex by.
- The portal's client is said to be connected lazily and reused "across requests"
  (`presentation/synapse_presentation/temporal.py:25`). Between the test of `_client`
  and its assignment lies the await of `Client.connect`: each request that arrives
  before the first connection is made connects a client of its own, and all but the
  last one assigned are dropped. In `Portal` this happens (`GetClient`, `Connected`) and
  no property depends on it, since any client reaches the same Temporal.
- The mutex ends with the run and not with its SETs: a late SET of a closed run
  reaches the device while the next run works on it. `DeviceOperations` is checked
  without `lateSet`.
- A start whose answer is lost is told as 502, and the request that repeats it gets
  409 for the run it started itself. `RunsAccountedFor` says 202 *or* 502. A listing
  that fails is not caught: it is a plain 500.
- `populate_sot.py:5` speaks of "upsert mutations". `get_or_create` never updates: an
  object that exists keeps its attributes and references whatever the seed says now.
  With a seed that stays as it is this makes no difference, which is what
  `ReferencesAsSeeded` is about.
- `docs/seed-data.md:168` says that prefixes come "only with --with-pools"; `main()`
  creates them always, and only the pools depend on the flag.
- The summary of `populate_sot.py` counts the seed's sessions, also those refused.
- Two runs of `populate_sot.py` at a time can each create a session or an interface:
  the schema makes neither key unique. `OneForEachRun` bounds the copies by the number
  of runs.
- `provision_device` names a link by its ends in the order of the call, so that
  provisioning both ends allocates two /31s. `OneOwnerEach` takes them as two links.
- An empty answer of SuzieQ is a successful poll: no scores, aggregate 0 (as if there
  were no drift) and a fresh timestamp. `GaugesAgree` states it that way.
- The gauge of scores is the "fraction of failing SuzieQ assertions per device"
  (`collector/suzieq_drift.py:46`). `labels()` creates the series in every poll, after
  `clear()`, with the value 0, and `set()` gives it the score afterwards: a scrape in
  between reads a 0 that no poll collected, also of a device whose assertions all fail,
  and may lack the devices still to be written. `FreshAsStamped` and
  `ScrapesAreCoherent` except that 0, and say so.

### Bounds

- One interface with two attributes, up to two descriptions and one other section. A
  change can then overwrite a leaf, add one, leave one alone, or do several of these
  at once, which are all the cases a merge and a replace tell apart. The actions do
  not compare interfaces with each other, and the proofs hold for any number of them.
- `MaxAttempts` is 3 as in `device_retry_policy`, or 2, with which there still is a
  first, a repeated and a last attempt.
- `MaxDuration = 1`, `MaxExtensions = 2`: two extensions are the smallest number with
  which one arrives while the other is recorded. Seconds are abstracted to units, and
  each extension asks for one. A signal that arrives after the wait is queued and never
  looked at again; it is no step. `MaxMiscounts = 1`: one unreported attempt or one
  restart, at any moment of any run; the proof is for any number.
- `NetworkChange_late`: three attempts of a deployment and three of a rollback, each of
  which may stay under way and land at any time, in any order with the others.
- `MaxStarts = 2`: two runs, of the same or of different kinds, in either order, one
  inside the other if the mutex let them. Two starts decide that, because a run starts
  with fresh state on whatever device it finds.
- `Portal`: seven requests, each with a different way through the handlers: two
  operators that want different operations of one device, one that names it otherwise, a
  viewer, a listing, a blank host name, an invalid body. Two starts under one name are
  enough for a race; the others interfere with them only through the client. A request
  with an unknown key ends like the viewer's, with another code, and is left out.
- `SourceOfTruth`: two populators, one with pools and one without, a loader, and a
  seed with one entry of nearly each kind, plus the cases that the loops treat apart:
  an address that occurs twice, a pool without a known prefix, a session with an
  unknown address, a binding to a device that is not in the seed and the rule set
  under it. `MaxFailures = 1`: one failure, of either script and at any request, and
  repeats are free. A race of two runs needs no failure.
- `ResourceManager`: two attempts for one device with two peers, as when an attempt
  that timed out still runs; another device whose fabric pool is one prefix short; two
  calls that make the same pool. `MaxFailures = 1`.
- `DriftExporter`: two devices and two tables, with one row of a device in each at
  most, give the scores 0, 1/2 and 1; three polls, so that a scrape could mix values
  of polls that are not neighbours; one failure, before or after serving began.
- Symmetry (permutations of descriptions and interfaces) is used where all properties
  are invariants or action formulas, never with liveness.

Faults that a property does not survive are left out of its run, and said here: with
`lateSet` a rollback is not final, with `outOfBand` no statement about the device
holds, with `statusEdit` none about the status does, and with `unfetchable` or
`unrenderable` intent a remediation waits for someone to repair it.

### Fairness

`FairSpec` adds weak fairness of `Progress`: a worker is running and polls, and an
activity that Temporal retries without bound eventually has an attempt that succeeds.
Failures are not in its way where they are bounded by `MaxAttempts`; where they are
not, `RetryForever` is a stutter that fairness excludes only for ever. Actions of the
environment, signals, and failed attempts beyond the bounded ones have no fairness.
`DriftRemediation` also needs strong fairness of `FetchInterfaces`, the second of the
two requests of `fetch_device_config`: the activity starts over when it fails there,
and an attempt must eventually get past both requests. `OperationalOverride` also has
weak fairness of `Tick`: time passes.

In `SourceOfTruth` each script that runs goes on and one that failed is started again
(weak fairness of `Load(l)` and of `Populate(r)`, which hold the steps of the code and
the repetition after a failure). In `ResourceManager` the same holds of `MakePool(m)`
and `Provision(c)`: Temporal repeats the activity. In both, failures, crashes and
repetitions after a success have no fairness, and failures are finitely many
(`MaxFailures`). In `DriftExporter` the loop's thread is scheduled and a scrape that
began is answered; no scrape need begin. One timing assumption is in the model: `Wake`
waits for a scrape in progress, since a scrape takes less time than the interval the
loop sleeps. `Portal` is checked for safety only.

## 4. What is proved

Every theorem holds for all values of the constants: any set of interfaces, sections and
values, any number of attempts, requests, devices, pools or polls, any seed, and every
set of faults but the ones it names. Every invariant and every action property of the
passing runs is stated by one of them; `OnlyAliasesOverlap` by the lemma
`NamesSerialised`, since it is the conflict policy and little more. Where a theorem names a fault it excludes, the
property is false with that fault, by section 3; the sets of faults that are left are
those of the runs and many more.

| Module | Theorem | States | Assumes of `Faults` |
|---|---|---|---|
| `NetworkChangeProofs` | `TypeCorrect` | `[]TypeOK` | nothing |
| | `NeverThirdConfiguration` | `[]NoThirdConfiguration` | no `outOfBand` |
| | `DeployedIsHygienic` | `[]OnlyHygienicIntentDeployed` | no `outOfBand` |
| | `SuccessIsTrue` | `[]SuccessMeansIntended` | no `outOfBand` |
| | `RollbackIsExact` | `[]RolledBackToBaseline` | no `outOfBand`, `lateSet` |
| | `ImplementsTransaction` | `IsTransaction` | no `outOfBand`, `lateSet` |
| `DriftRemediationProofs` | `TypeCorrect` | `[]TypeOK` | nothing |
| | `ChangedInOrder` | `ChangesInOrder` | no `outOfBand` |
| | `OutcomeRecorded` | `[]OutcomeIsRecorded` | no `outOfBand`, `statusEdit` |
| | `ImplementsTransaction` | `IsTransaction` | no `outOfBand`, `lateSet` |
| `EmergencyChangeProofs` | `TypeCorrect` | `[]TypeOK` | nothing |
| | `Audited` | `[]ChangeIsAudited` | nothing |
| | `UnsettledMarked` | `[]UnsettledInMaintenance` | no `outOfBand`, `lateSet`, `statusEdit` |
| | `ImplementsTransaction` | `IsTransaction` | no `outOfBand`, `lateSet` |
| `OperationalOverrideProofs` | `TypeCorrect` | `[]TypeOK` | nothing |
| | `WindowKept` | `[]WindowHonoured` | nothing |
| | `MetricsFollowed` | `[]MetricsTruthful` | no `outOfBand`, `lateSet` |
| | `LifecycleFollowed` | `Lifecycle` | nothing |
| | `StatusTruthful` | `[]LifecycleTruthful` | no `outOfBand`, `lateSet` |
| `DeviceOperationsProofs` | `BaselinesKept` | `[]BaselineKept` | no `outOfBand`, `lateSet` |
| | `ReportsAreTrue` | `[]ReportIsTrue` | no `outOfBand`, `lateSet` |
| `ServiceProofs` | `NamesSerialised` | `[]OnlyAliasesOverlap` | |
| | `EveryRunAccountedFor` | `[]RunsAccountedFor` | |
| | `PortalTyped` | `[]TypeOK` | |
| | `FreshScores` | `[]FreshAsStamped` of the exporter | |
| | `CoherentScrapes` | `[]ScrapesAreCoherent` of the exporter | |
| | `GaugesAgreeing` | `[]GaugesAgree` of the exporter | |
| | `ExporterTyped` | `[]ExporterTypeOK` | |
| `InfrahubProofs` | `OneOwner` | `[]OneOwnerEach` | |
| | `ExhaustedIfShort` | `[]ExhaustedOnlyIfShort` | |
| | `GrantsImplemented` | `ImplementsGrants` | |
| | `PoolsTyped` | `[]TypeOK` of the resource manager | |
| | `SuccessComplete` | `[]SuccessIsComplete` of the population | |
| | `ReferencesSeeded` | `[]ReferencesAsSeeded` of the population | |
| | `OneEachRun` | `[]OneForEachRun` of the population | |
| | `PopulationTyped` | `[]SoTTypeOK` | |
| `DeviceProofs` | `RenderedDriftIsCritical` | no drift from a rendered intent is cosmetic | |

All are theorems of `Spec`, without fairness. Each module's inductive invariant is
`IInv` (`SoTInv` for the population, `ExporterInv` for the exporter), a conjunction of
named parts, sometimes with further parts that need an assumption on the faults. TLC has
checked each part as an invariant on the bounds of the module's run before it was
proved.

**The three change workflows.** The properties are not inductive: that a retry of a SET
yields `Intended` needs to know what the device held before it and which SETs are under
way. `MemoryInv` says what is known at each label; `LateInv` that a SET under way is
one that this run has tried; `DeviceInv` that the device is at the backup or at
`Intended` from the backup on, and at which of them where that is decided. They are
preserved since merging twice is merging once (`MergeTwice`) and restoring is exact
(`SetAgain`). Late SETs do not harm `SuccessIsTrue`: a late SET of a network change
that never rolled back can only be its own deployment. They do harm rollbacks, so that
in `EmergencyChange`, which has four ways to restore, `DeviceInv` says `late = {}`
besides. There `TrailInv` tells a failed run that has restored the device from one that
has not, by the audit event that only the former logs. `StatusInv` follows the device
status by label; in an emergency change it is what `UnsettledMarked` needs.

In `ImplementsTransaction` the operator `PhaseOf` is the refinement mapping. The proof
has one step for each action of `Next` and shows for it which action of
`ConfigTransaction` it is, or that it is a stutter.

**The override.** `WindowInv` keeps account of the extensions: before the window those
pending are those sent; in it the end of the window with those pending is what was
asked for and sent; after it time is up, unless it was ended early. `StatusInv` bounds
what an attempt may find that repeats one whose report was lost: the status either
before or after the update. `MetricsInv` says at which labels a reversion can have been
counted, and how often: as often as attempts went unreported, and once more where it is
settled. That a counted success is one on the device (`CountedInv`) needs what was read
and that merging twice is merging once; it holds across restarts of the worker, which
only take counts away.

**One device, several runs.** `DeviceOperationsProofs` composes the proofs of the two
workflows, as `DeviceOperations` composes the workflows: `NCP` and `DRP` are instances
of their proof modules on the one device. `OpsInv` says that no run is open, or one
run is and its own `IInv` holds. A step of that run is a step of its own specification
(`SameNetworkStep`, `SameDriftStep`), one of the environment is a step of both, and a
start establishes the invariant on whatever device is left (`Started`). The other
workflow takes no step while a run is open: without the mutex this is where the proof
fails, and it needs no late SETs, for one of a closed run would belong to no run.

**The services.** In the portal `OneOpenRun` says that the open runs have different
workflow IDs, and `RunsInv` that a run's ID, host and initiator are those of its
request. In the exporter `PublishedInv` says which poll each gauge is at by the step
the loop is at, but for the one series that is `Unset`, and
`ScrapeInv` that before the loop falls asleep a scrape has read values of the
timestamp's poll and of the next, and afterwards of that poll and the one before; it
ends before the next sleep does. `WrittenInv` is what `GaugesAgree` needs in the middle
of an update: the series are the scores of this poll without those still to be written,
one of them still without its score, and no device has two. No step of the proof looks
into the sum: the aggregate was computed from the scores of which the series are copies.
`ScoresInRange` shows that a score is a share, from 0 to 1.

**The resource manager.** `GrantsInv` says that in each pool an identifier has one
resource and a resource one identifier; `ProgressInv` that the server holds what each
call was told; `ExhaustedInv` that when a pool was exhausted for a caller, all of it
had been given to others. `OneOwner` follows since different holders have different
identifiers, and /31s with different numbers are disjoint. `ExhaustedIfShort` counts:
the grants of a pool are an injection from its resources to its other holders. The
refinement mapping `Owned` is derived from the grants; `GrantOrNot` shows that a step
which changes it adds one holder.

**The population.** None of the three properties is inductive. That a run which is
done has created everything rests on what it holds: `HandledInv` says that of every
entry a run has handled it knows the ID, but for those nobody can create (`Dropped`) and
those it may pass over (`Tolerant`); `KnownInv`, that a known ID is one of an object,
since no object is ever deleted. That references are complete rests on the order:
`RefsFirst` shows from `KindOrder` and `RefKinds` that what a kind refers to has its
turn before it, `NamedIsEarlier` that therefore the entries named by an entry have been
handled, and `NamedIsNotDropped` that they are none of those a run may pass over, so that
`References`, which leaves unknown names out, leaves nothing out that exists. With the
interfaces before their addresses (the mutant of `AddressingOrder`) `RefsFirst` is
false. `StoreInv` and `CreateInv` say what is in the store at all: nothing whose owner
or resources are missing. `CopiesInv` counts, for each key and, for an interface, for
each ID of its device, the objects a query finds together with the runs that have found
nothing and are about to create one: never more than there are runs. A query joins the
creators only if it found nothing, and a creation turns one creator into one object.
`LoaderInv` says that a loader leaves no batch behind it. `BeforeIsOrder` and
`EarliestIs` show that the turns are a strict total order in which every set of turns
has a first one, so that `First` and `Following` are defined, and `FollowingIs` that no
turn is passed over.

**Assumptions.** The theorems rest on the `ASSUME`s of the modules, which TLC evaluates
in every run. `ConfigAssumption`, `SentinelAssumption` and `StatusAssumption` keep
apart the names of sections and interfaces, and `Absent` and `NotRendered` from all
values. `ActivityAssumption` and `OperationsAssumption` say that `MaxAttempts` is
positive and the faults are known ones; `OverrideAssumption`, `FailuresAssumption` and
`DriftExporterAssumption`, that bounds are numbers and devices finitely many.
`PoolAssumption` and `RequestAssumption`: pools do not overlap, calls are finitely
many, and the links of a call come from a pool of their own. One assumption is about
names that users choose: in `ResourceManager` no two links get the same identifier
(`UnambiguousNames`). The code does not check it, and without it `OneOwner` does not
hold. `SeedAssumption` says what a seed
file is: a sequence of entries in any order, in which a key stands for one object, an
entry names keys of the kinds its object refers to, and a service, endpoint or intent
that is named is there, as the code takes it from a dictionary and would end with a
`KeyError`. It says nothing of the order, and does not require that the other names are
in the seed.

Three assumptions are in the definitions and about others than this code. Infrahub's
server answers an allocation with `ok: false` only for want of resources: the code takes
every such answer for exhaustion (`resource_manager.py:434`, `467` and `500`), and
`ExhaustedOnlyIfShort` is as true as that. Temporal keeps timers and signals across
restarts of the worker, so that `Tick`, `TtlExpires` and the signals of an override are
steps that no crash takes away. A verdict of BGP or operational state may be anything,
while `validate_interfaces` succeeds only on the admin states intended, which is its
guard: that part of `SuccessMeansIntended` says that nothing between it and the report
changes them.

**Only model-checked:** liveness, that is `EventuallyEnds`, `EventuallyCloses`,
`TtlHonoured`, `EventuallyPopulated`, `EventuallyProvisioned` and `PollsGoOn`. The
provers have no way to reason from fairness, or of when an action is enabled. Of
`DeviceOperations`, `TypeOK` has neither a run nor a theorem of its own: the local state
of a closed run is typed by the workflow's theorem and is in no invariant of
`OpsInv`.

## 5. What is abstracted or left out

- Of an interface, the admin state and the description stand for all that the template
  renders: MTU, addresses and subinterfaces follow the description's path. The order
  of JSON lists, which `classify_drift` does compare, is not modelled; nor is the BGP
  configuration, which is rendered and checked and never deployed.
- What BGP sessions and operational states do is the network's choice: `validate_bgp`,
  and the operational half of `validate_interfaces`, may always fail.
- `allocate_device_resources` is an activity that no workflow calls; `ResourceManager`
  models its executions as Temporal would run them.
- `get_pool_by_name` is called three times in a row. The model has one step for the
  three: pools are never deleted, so that the last one to succeed finds all.
- `load_schemas.py` counts an answer with status 200 that carries errors as loaded,
  with a warning, and so does `LoadBatch`: what Infrahub rejects in this way is not
  modelled.
- Infrahub's transactions, branches and pool server, by what the code relies on: an
  object is created whole or not at all, an identifier is answered as before.
- Cancelling or terminating a run from Temporal's own tools, and the resets an
  operator can do there.
- Credentials, TLS, logging, the wording of errors, and metrics but those of the
  overrides.
- The components with status `not_modelled` in `PROJECT.json`, each with its reason.

## 6. Plan

The order is by what could hurt a device most; each step is checked before the next
begins.

1. *Done.* The device and its activities; `NetworkChange` with its proofs; the other
   three workflows; `DeviceOperations` for the race the mutex is for.
2. *Done.* What stands around the workflows: `Portal`, `SourceOfTruth`,
   `ResourceManager` with `ResourceGrants`, `DriftExporter`.
3. *Done.* Proofs of the other workflows, of `DeviceOperations` from theirs, of
   `Portal`, `ResourceManager`, `DriftExporter` and `SourceOfTruth`.
4. `TypeOK` of `DeviceOperations`, with the types of the closed runs in `OpsInv`.
5. Several devices with all four workflows on them, host names and addresses that alias
   one of them (in `Portal` such runs have no steps of their own), and runs started
   under another workflow ID.
6. Pure modules: GET payload extraction, the posture scores, the checks that run in
   Infrahub, each against a reference definition over bounded inputs.
