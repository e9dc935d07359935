--------------------------- MODULE SourceOfTruth ---------------------------
(***************************************************************************)
(* Filling Infrahub: load_schemas.py posts the schema in batches, and      *)
(* populate_sot.py creates the objects of the seed files, each with        *)
(* get_or_create: a query, and a create when the query found nothing.      *)
(* Runs of both scripts go on at the same time, die at any request and are *)
(* started again, also when they had succeeded.                            *)
(***************************************************************************)
EXTENDS InfrahubRequests, FiniteSets, Sequences, Functions

CONSTANTS Seed,         \* the entries of the seed files, a sequence
          Populators,   \* runs of populate_sot.py
          WithPools,    \* the runs given --with-pools
          Loaders,      \* runs of load_schemas.py
          EmptyBatches, \* batches whose files define nothing
          Unique        \* kinds for which the schema makes the key unique

\* SCHEMA_LOAD_BATCHES: base schemas, extensions, project schemas.
Batches == 1..3

\* How load_schemas.py exits: 1 after a failed batch, 0 after the last one.
Failed == 0
Successful == 4

VARIABLES schema,    \* the batches Infrahub has loaded
          store,     \* the objects in Infrahub
          loader,    \* the batch a loader is at, or how it exited
          pc,        \* what a populator does next
          pos,       \* the entry it is at, by its place in the seed
          known      \* the IDs it holds: an object's number, 0 for unknown

sotVars == <<schema, store, loader, pc, pos, known, failures>>

-----------------------------------------------------------------------------
(* What is created: kinds in the order of main, and the kinds an object of *)
(* each kind refers to.                                                    *)

InventoryOrder == <<"manufacturer", "location", "platform", "device_type",
                    "autonomous_system", "namespace", "vrf", "device", "prefix">>

PoolOrder == <<"prefix_pool", "address_pool", "number_pool">>

\* Mutant of AddressingOrder: the interfaces before their addresses.
InterfacesBeforeAddresses == <<"interface", "ip_address", "bgp_session">>

AddressingOrder == <<"ip_address", "interface", "bgp_session">>

IntentOrder == <<"service", "endpoint", "intent", "binding", "rule_set">>

\* The order in which main creates the kinds, those of PoolOrder with --with-pools.
KindOrder == InventoryOrder \o PoolOrder \o AddressingOrder \o IntentOrder

InventoryRefs ==
  [manufacturer |-> {}, location |-> {}, platform |-> {"manufacturer"},
   device_type |-> {"manufacturer", "platform"},
   autonomous_system |-> {"manufacturer"}, namespace |-> {},
   vrf |-> {"namespace"}]

PrefixRefs == [prefix |-> {"namespace"}]

DeviceRefs ==
  [device |-> {"location", "platform", "device_type", "autonomous_system"}]

PoolRefs == [prefix_pool |-> {"prefix"}, address_pool |-> {"prefix", "prefix_pool"},
             number_pool |-> {}]

AddressingRefs == [ip_address |-> {"namespace"}, interface |-> {"device", "ip_address"}]

SessionRefs ==
  [bgp_session |-> {"device", "autonomous_system", "ip_address", "vrf"}]

IntentRefs ==
  [service |-> {}, endpoint |-> {"service"}, intent |-> {"endpoint"},
   binding |-> {"intent", "device"}, rule_set |-> {"binding"}]

Kinds == Range(KindOrder)

RefKinds ==
  [kind \in Kinds |->
     CASE kind \in DOMAIN InventoryRefs -> InventoryRefs[kind]
       [] kind \in DOMAIN PrefixRefs -> PrefixRefs[kind]
       [] kind \in DOMAIN DeviceRefs -> DeviceRefs[kind]
       [] kind \in DOMAIN PoolRefs -> PoolRefs[kind]
       [] kind \in DOMAIN AddressingRefs -> AddressingRefs[kind]
       [] kind \in DOMAIN SessionRefs -> SessionRefs[kind]
       [] kind \in DOMAIN IntentRefs -> IntentRefs[kind]]

\* The batch a kind needs: the project's schemas add the attributes that are
\* set on devices and interfaces, and define the business intent.
BatchOf(kind) ==
  IF kind \in {"bgp_session", "autonomous_system", "vrf"} THEN 2
  ELSE IF kind \in {"device", "interface"} \cup Range(IntentOrder) THEN 3 ELSE 1

Rank == [kind \in Kinds |-> CHOOSE n \in DOMAIN KindOrder : KindOrder[n] = kind]

PoolKinds == {"prefix_pool", "address_pool", "number_pool"}

\* The entries a run handles.
Turns(r) == {i \in DOMAIN Seed : Seed[i].kind \in PoolKinds => r \in WithPools}

\* One kind after the other, the entries of a kind as the seed has them.
Before(i, j) ==
  \/ Rank[Seed[i].kind] < Rank[Seed[j].kind]
  \/ Seed[i].kind = Seed[j].kind /\ i < j

Earliest(S) == CHOOSE i \in S : \A j \in S \ {i} : Before(i, j)

\* Where a run begins, and which entry it handles after another: 0 after the last.
First == [r \in Populators |-> Earliest(Turns(r))]

After(r, i) == {j \in Turns(r) : Before(i, j)}

Following ==
  [r \in Populators |->
     [i \in DOMAIN Seed |-> IF After(r, i) = {} THEN 0 ELSE Earliest(After(r, i))]]

\* An entry has a key to look its object up by, and names the keys the object is
\* to refer to.  The owner is the device or binding without which the entry is
\* skipped; the object refers to it too.
Entry == [kind : Kinds, key : STRING, owner : STRING, refs : SUBSET STRING]

Items == Range(Seed)

\* The entries by their places; a definition, so that TLC evaluates the seed once.
EntryAt == [i \in DOMAIN Seed |-> Seed[i]]

Keys == {i.key : i \in Items}

NoOwner == "none"

OwnerKind == [interface |-> "device", binding |-> "device", rule_set |-> "binding"]

EntryOf == [k \in Keys |-> CHOOSE i \in Items : i.key = k]

KindOf == [k \in Keys |-> EntryOf[k].kind]

Named(item) == item.refs \cup ({item.owner} \ {NoOwner})

\* A key stands for one object: entries that repeat it, as two interfaces do with
\* their address, say the same.  An entry names keys of the kinds its object
\* refers to.  The endpoints, intents and bindings name their services, endpoints
\* and intents in the seed (a name that is not there is a KeyError), an interface
\* names addresses besides its device, and a pool takes its resources from at
\* most one other pool.  There is always a manufacturer, and nothing has the key
\* that stands for no owner.
ASSUME SeedAssumption ==
  /\ Seed \in Seq(Entry)
  /\ \E i \in Items : i.kind = "manufacturer"
  /\ NoOwner \notin Keys
  /\ \A i, j \in Items : i.key = j.key => i = j
  /\ \A i \in Items :
       /\ \A k \in Named(i) \cap Keys : KindOf[k] \in RefKinds[i.kind]
       /\ IF i.kind \in DOMAIN OwnerKind
          THEN i.owner # NoOwner /\ (i.owner \in Keys => KindOf[i.owner] = OwnerKind[i.kind])
          ELSE i.owner = NoOwner
       /\ i.kind \in {"endpoint", "intent"} => Named(i) \subseteq Keys
       /\ i.kind = "binding" => i.refs \subseteq Keys
       /\ i.kind = "interface" => \A k \in i.refs \cap Keys : KindOf[k] = "ip_address"
       /\ i.kind = "address_pool" =>
            \A j, k \in i.refs \cap Keys :
              KindOf[j] = "prefix_pool" /\ KindOf[k] = "prefix_pool" => j = k

ASSUME SourceOfTruthAssumption ==
  /\ IsFiniteSet(Populators)
  /\ WithPools \subseteq Populators
  /\ EmptyBatches \subseteq Batches
  /\ Unique \subseteq Kinds

-----------------------------------------------------------------------------
(* Infrahub: an object is the nth with its key and refers to objects.      *)

Id(o) == <<o.key, o.nth>>

Having(key) == {o \in store : o.key = key}

Loaded(kind) == BatchOf(kind) \in schema

\* Infrahub checks a batch against the ones it depends on.
Accepts(batch) == \A b \in 1 .. (batch - 1) : b \in schema \cup EmptyBatches

SoTTypeOK ==
  /\ schema \subseteq Batches
  /\ \A o \in store : o.key \in Keys /\ o.nth \in Nat /\ o.refs \subseteq Keys \X Nat
  /\ loader \in [Loaders -> Batches \cup {Failed, Successful}]
  /\ pc \in [Populators -> {"next", "resolved", "create", "done", "failed"}]
  /\ pos \in [Populators -> DOMAIN Seed]
  /\ known \in [Populators -> [Keys -> Nat]]
  /\ failures \in 0..MaxFailures

Nothing == [k \in Keys |-> 0]

SoTInit ==
  /\ schema = {}
  /\ store = {}
  /\ loader = [l \in Loaders |-> 1]
  /\ pc = [r \in Populators |-> "next"]
  /\ pos = First
  /\ known = [r \in Populators |-> Nothing]
  /\ failures = 0

-----------------------------------------------------------------------------
(* load_schemas.py.                                                        *)

\* A batch without content is not posted; a batch answered with 200 is loaded,
\* with warnings or without.
LoadBatch(l) ==
  /\ loader[l] \in Batches
  /\ Accepts(loader[l])
  /\ schema' = schema \cup ({loader[l]} \ EmptyBatches)
  /\ loader' = [loader EXCEPT ![l] = loader[l] + 1]
  /\ UNCHANGED <<store, pc, pos, known, failures>>

\* Mutant of LoadFails: the loop goes on with the next batch.
LoadFailsAndGoesOn(l) ==
  /\ loader[l] \in Batches \ EmptyBatches
  /\ Failure
  /\ schema' \in {schema, schema \cup {loader[l]}}
  /\ loader' = [loader EXCEPT ![l] = loader[l] + 1]
  /\ UNCHANGED <<store, pc, pos, known>>

\* An error answer, or no answer, whether or not the batch was loaded: the
\* script stops and exits with 1.
LoadFails(l) ==
  /\ loader[l] \in Batches \ EmptyBatches
  /\ Failure
  /\ \/ UNCHANGED schema
     \/ Accepts(loader[l]) /\ schema' = schema \cup {loader[l]}
  /\ loader' = [loader EXCEPT ![l] = Failed]
  /\ UNCHANGED <<store, pc, pos, known>>

LoadAgain(l, exit) ==
  /\ loader[l] = exit
  /\ loader' = [loader EXCEPT ![l] = 1]
  /\ UNCHANGED <<schema, store, pc, pos, known, failures>>

-----------------------------------------------------------------------------
(* populate_sot.py.                                                        *)

Working(r) == pc[r] \in {"next", "resolved", "create"}

Item(r) == EntryAt[pos[r]]

Knows(r, key) == key \in Keys /\ known[r][key] # 0

\* The objects the create data refers to: names with no known ID are left out.
References(r, item) == {<<k, known[r][k]>> : k \in {k \in Named(item) : Knows(r, k)}}

PoolsNamed(item) == {k \in item.refs \cap Keys : KindOf[k] = "prefix_pool"}

\* An address pool looks up the pool it takes its resources from.
MustResolve(r) ==
  pc[r] = "next" /\ Item(r).kind = "address_pool" /\ PoolsNamed(Item(r)) # {}

AboutToQuery(r) == pc[r] \in {"next", "resolved"} /\ ~MustResolve(r)

\* An address met before, an interface or binding without its device, a rule
\* set without its binding, a pool without resources.
Skipped(r, item) ==
  \/ item.kind = "ip_address" /\ Knows(r, item.key)
  \/ item.owner # NoOwner /\ ~Knows(r, item.owner)
  \/ item.kind \in {"prefix_pool", "address_pool"} /\ References(r, item) = {}

\* The run goes on to its next entry, holding the ID n of the one it was at.
Advance(r, n) ==
  /\ known' = IF n = 0 THEN known ELSE [known EXCEPT ![r][Item(r).key] = n]
  /\ IF Following[r][pos[r]] = 0
     THEN pc' = [pc EXCEPT ![r] = "done"] /\ UNCHANGED pos
     ELSE /\ pc' = [pc EXCEPT ![r] = "next"]
          /\ pos' = [pos EXCEPT ![r] = Following[r][pos[r]]]

\* The run starts over, or ends for now: its IDs were in variables.
Reset(r, to) ==
  /\ pc' = [pc EXCEPT ![r] = to]
  /\ pos' = [pos EXCEPT ![r] = First[r]]
  /\ known' = [known EXCEPT ![r] = Nothing]

Fail(r) == Reset(r, "failed")

ResolvePool(r) ==
  /\ Working(r)
  /\ MustResolve(r)
  /\ Loaded("prefix_pool")
  /\ \E k \in PoolsNamed(Item(r)) :
       \E n \in IF Having(k) = {} THEN {0} ELSE {o.nth : o \in Having(k)} :
         known' = [known EXCEPT ![r][k] = n]
  /\ pc' = [pc EXCEPT ![r] = "resolved"]
  /\ UNCHANGED <<schema, store, loader, pos, failures>>

Skip(r) ==
  /\ Working(r)
  /\ AboutToQuery(r)
  /\ Skipped(r, Item(r))
  /\ Advance(r, 0)
  /\ UNCHANGED <<schema, store, loader, failures>>

\* Mutant of Matches: the sessions are not looked up.
MatchesExceptSessions(r, item) ==
  {o \in Having(item.key) : item.kind # "bgp_session"}

\* Objects are looked up by their key alone, an interface by name and device.
Matches(r, item) ==
  {o \in Having(item.key) :
     item.kind = "interface" => <<item.owner, known[r][item.owner]>> \in o.refs}

\* Mutant of Query: create without looking the object up.
QueryNothing(r) ==
  /\ Working(r)
  /\ AboutToQuery(r)
  /\ ~Skipped(r, Item(r))
  /\ Loaded(Item(r).kind)
  /\ pc' = [pc EXCEPT ![r] = "create"]
  /\ UNCHANGED <<schema, store, loader, pos, known, failures>>

Query(r) ==
  /\ Working(r)
  /\ AboutToQuery(r)
  /\ ~Skipped(r, Item(r))
  /\ Loaded(Item(r).kind)
  /\ \/ \E o \in Matches(r, Item(r)) : Advance(r, o.nth)
     \/ /\ Matches(r, Item(r)) = {}
        /\ pc' = [pc EXCEPT ![r] = "create"]
        /\ UNCHANGED <<pos, known>>
  /\ UNCHANGED <<schema, store, loader, failures>>

\* A query for a kind the schema does not have is a GraphQL error.
QueryUnknownKind(r) ==
  /\ Working(r)
  /\ pc[r] # "create"
  /\ ~Loaded(Item(r).kind)
  /\ MustResolve(r) \/ ~Skipped(r, Item(r))
  /\ Fail(r)
  /\ UNCHANGED <<schema, store, loader, failures>>

NewObject(r) ==
  [key |-> Item(r).key, nth |-> Cardinality(Having(Item(r).key)) + 1,
   refs |-> References(r, Item(r))]

Conflicts(item) == item.kind \in Unique /\ Having(item.key) # {}

Create(r) ==
  /\ pc[r] = "create"
  /\ ~Conflicts(Item(r))
  /\ store' = store \cup {NewObject(r)}
  /\ Advance(r, NewObject(r).nth)
  /\ UNCHANGED <<schema, loader, failures>>

\* Another run created it since the query: a GraphQL error ends the run.
CreateConflicts(r) ==
  /\ pc[r] = "create"
  /\ Conflicts(Item(r))
  /\ Fail(r)
  /\ UNCHANGED <<schema, store, loader, failures>>

\* The kinds whose loop prints a refused creation and goes on.
Tolerant == {"interface", "bgp_session"}

\* Mutant of CreateRefused: get_or_create prints a refusal, too.
CreateRefusedAndGoesOn(r) ==
  /\ pc[r] = "create"
  /\ Failure
  /\ Advance(r, 0)
  /\ UNCHANGED <<schema, store, loader>>

\* The answer is not ok: get_or_create raises, the two loops go on.
CreateRefused(r) ==
  /\ pc[r] = "create"
  /\ Failure
  /\ IF Item(r).kind \in Tolerant THEN Advance(r, 0) ELSE Fail(r)
  /\ UNCHANGED <<schema, store, loader>>

\* The object is created and the answer lost.
CreateUnanswered(r) ==
  /\ pc[r] = "create"
  /\ ~Conflicts(Item(r))
  /\ Failure
  /\ store' = store \cup {NewObject(r)}
  /\ Fail(r)
  /\ UNCHANGED <<schema, loader>>

\* A request fails, or the process is killed, at any point.
Die(r) ==
  /\ Working(r)
  /\ Failure
  /\ Fail(r)
  /\ UNCHANGED <<schema, store, loader>>

RunAgain(r, exit) ==
  /\ pc[r] = exit
  /\ Reset(r, "next")
  /\ UNCHANGED <<schema, store, loader, failures>>

-----------------------------------------------------------------------------
Load(l) == LoadBatch(l) \/ LoadAgain(l, Failed)

Populate(r) ==
  \/ ResolvePool(r) \/ Skip(r) \/ Query(r) \/ QueryUnknownKind(r) \/ Create(r)
  \/ CreateConflicts(r) \/ RunAgain(r, "failed")

SoTNext ==
  \/ \E l \in Loaders : Load(l) \/ LoadFails(l) \/ LoadAgain(l, Successful)
  \/ \E r \in Populators :
       \/ Populate(r) \/ CreateRefused(r) \/ CreateUnanswered(r) \/ Die(r)
       \/ RunAgain(r, "done")

SoTSpec == SoTInit /\ [][SoTNext]_sotVars

\* A script that is running goes on and is started again until it succeeds;
\* failures are finitely many.
SoTFairSpec ==
  /\ SoTSpec
  /\ \A l \in Loaders : WF_sotVars(Load(l))
  /\ \A r \in Populators : WF_sotVars(Populate(r))

-----------------------------------------------------------------------------
(* Properties.                                                             *)

\* Items no run can create: the device or binding they belong to, or every
\* resource, is not in the seed or is itself not created.
Orphans ==
  {i \in Items : \/ i.owner # NoOwner /\ i.owner \notin Keys
                 \/ i.kind = "prefix_pool" /\ Named(i) \cap Keys = {}}

OrphanKeys == {i.key : i \in Orphans}

Dropped ==
  Orphans \cup
  {i \in Items : \/ i.owner \in OrphanKeys
                 \/ i.kind = "address_pool" /\ Named(i) \cap Keys \subseteq OrphanKeys}

\* The keys of the objects a run may not end without.
Required ==
  [r \in Populators |->
     {Seed[i].key : i \in {j \in Turns(r) : Seed[j] \notin Dropped
                                           /\ Seed[j].kind \notin Tolerant}}]

Stored == {o.key : o \in store}

\* A script that exits with 0 has done its work, whatever failed before and
\* whichever run did it: Infrahub has every batch (load_schemas.py), and every
\* object the loops may not pass over (populate_sot.py).
SuccessIsComplete ==
  /\ \A l \in Loaders : loader[l] = Successful => Batches \ EmptyBatches \subseteq schema
  /\ \A r \in Populators : pc[r] = "done" => Required[r] \subseteq Stored

\* The keys of the seed that the object of an item is to refer to.
Intended == [k \in Keys |-> (Named(EntryOf[k]) \cap Keys) \ OrphanKeys]

\* References to unknown objects are left out without an error, so an object
\* created too early would stay incomplete for ever: every object refers to
\* exactly the objects the seed names for it, and they exist.
ReferencesAsSeeded ==
  LET ids == {Id(p) : p \in store}
  IN \A o \in store :
       /\ o.refs \subseteq ids
       /\ {id[1] : id \in o.refs} = Intended[o.key]

\* Objects that stand for the same thing: the same key and, for an interface,
\* the same device.
Twins(o) ==
  {p \in Having(o.key) :
     KindOf[o.key] = "interface" =>
       \A id \in o.refs : KindOf[id[1]] = "device" => id \in p.refs}

\* "The script is idempotent" (docs/seed-data.md): however often runs die and
\* are repeated, nothing is created twice, except that runs going on at the
\* same time may each create one where the schema does not make keys unique.
OneForEachRun ==
  \A o \in store :
    Cardinality(Twins(o)) <=
      IF KindOf[o.key] \in Unique THEN 1 ELSE Cardinality(Populators)

\* Repeated until it succeeds, a populator succeeds, and what it requires is
\* then in Infrahub.
EventuallyPopulated ==
  \A r \in Populators : <>(pc[r] = "done" /\ Required[r] \subseteq Stored)
=============================================================================
