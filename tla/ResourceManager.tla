-------------------------- MODULE ResourceManager --------------------------
(***************************************************************************)
(* InfrahubResourceManager: pools made by name, and provision_device, the  *)
(* activity that allocates an AS number, a loopback and one /31 for each   *)
(* peer.  Calls run at the same time, for the same device too (an attempt  *)
(* that timed out and the attempt that replaces it), die between any two   *)
(* requests, and are repeated from the start.                              *)
(***************************************************************************)
EXTENDS InfrahubRequests, FiniteSets, Sequences

CONSTANTS Callers,      \* executions of allocate_device_resources
          Request,      \* the device, peers and fabric pool of each
          Makers,       \* calls of create_*_pool
          MakerPool,    \* the pool each of them makes
          Resources,    \* the numbers a pool holds
          AsnPool,
          LoopbackPool

Pools == DOMAIN Resources

FabricPools == Pools \ {AsnPool, LoopbackPool}

ASSUME PoolAssumption ==
  /\ AsnPool \in Pools /\ LoopbackPool \in Pools /\ AsnPool # LoopbackPool
  /\ \A p \in Pools : Resources[p] \subseteq Nat
  /\ \A p, q \in Pools : p # q => Resources[p] \cap Resources[q] = {}
  /\ MakerPool \in [Makers -> Pools]

\* Names are sequences of parts, to be joined with hyphens; the pool a call takes
\* its links from is neither of the two others.
Name == Seq(STRING)

ASSUME RequestAssumption ==
  /\ IsFiniteSet(Callers)
  /\ Request \in [Callers -> [device : Name, peers : Seq(Name), fabric : FabricPools]]

VARIABLES pools,     \* the pools in Infrahub
          grants,    \* what their server has handed out, to which identifier
          maker,     \* what a create_*_pool call does next
          outcome,   \* how a provisioning call stands
          step,      \* the allocation it asks for next, 0 before the first
          got        \* what it was allocated, in order

vars == <<pools, grants, maker, outcome, step, got, failures>>

-----------------------------------------------------------------------------
(* What is allocated, to whom, and under which identifier.                 *)

Allocation(pool, device, peer) == [pool |-> pool, device |-> device, peer |-> peer]

NoPeer == <<>>

\* The pools whose IDs are resolved first.
Lookups(c) == {AsnPool, LoopbackPool, Request[c].fabric}

Allocations ==
  [c \in Callers |->
     LET device == Request[c].device
         peers  == Request[c].peers
     IN <<Allocation(AsnPool, device, NoPeer), Allocation(LoopbackPool, device, NoPeer)>>
        \o [i \in DOMAIN peers |-> Allocation(Request[c].fabric, device, peers[i])]]

Holders == UNION {{Allocations[c][i] : i \in DOMAIN Allocations[c]} : c \in Callers}

\* Mutant of LinkId: only the device names the link.
LinkIdOfDevice(holder) == holder.device

LinkId(holder) == holder.device \o holder.peer

Identifier(holder) ==
  IF holder.pool = AsnPool THEN holder.device
  ELSE IF holder.pool = LoopbackPool THEN holder.device \o <<"loopback">>
  ELSE LinkId(holder)

Identifiers == {Identifier(h) : h \in Holders}

\* Hyphens inside names do not make the identifiers of two links equal.
ASSUME UnambiguousNames ==
  \A c, d \in Callers : \A i \in DOMAIN Request[c].peers, j \in DOMAIN Request[d].peers :
    Request[c].device \o Request[c].peers[i] = Request[d].device \o Request[d].peers[j]
      => Request[c].device = Request[d].device /\ Request[c].peers[i] = Request[d].peers[j]

\* How many resources of a pool are needed, however often calls are repeated.
Demand(pool) == Cardinality({h \in Holders : h.pool = pool})

TypeOK ==
  /\ pools \subseteq Pools
  /\ \A g \in grants : g \in [pool : Pools, id : Identifiers, res : Resources[g.pool]]
  /\ maker \in [Makers -> {"get", "create", "done", "failed"}]
  /\ outcome \in [Callers -> {"running", "failed", "exhausted", "done"}]
  /\ step \in [Callers -> Nat]
  /\ got \in [Callers -> Seq(Nat)]
  /\ \A c \in Callers :
       step[c] <= Len(Allocations[c]) /\ Len(got[c]) <= Len(Allocations[c])
  /\ failures \in 0..MaxFailures

Init ==
  /\ pools \in SUBSET Pools
  /\ \A p \in Pools : p \in pools \/ \E m \in Makers : MakerPool[m] = p
  /\ grants = {}
  /\ maker = [m \in Makers |-> "get"]
  /\ outcome = [c \in Callers |-> "running"]
  /\ step = [c \in Callers |-> 0]
  /\ got = [c \in Callers |-> <<>>]
  /\ failures = 0

-----------------------------------------------------------------------------
(* create_ip_prefix_pool, create_ip_address_pool, create_number_pool.      *)

MakerGoes(m, to) == maker' = [maker EXCEPT ![m] = to]

Exists(m) == MakerPool[m] \in pools

\* Mutant of MakerGet: the pool is not looked up first.
MakerGetNothing(m) ==
  /\ maker[m] = "get"
  /\ MakerGoes(m, "create")
  /\ UNCHANGED <<pools, grants, outcome, step, got, failures>>

MakerGet(m) ==
  /\ maker[m] = "get"
  /\ MakerGoes(m, IF Exists(m) THEN "done" ELSE "create")
  /\ UNCHANGED <<pools, grants, outcome, step, got, failures>>

\* Pool names are unique: creating one that was made meanwhile is an error.
MakerCreate(m) ==
  /\ maker[m] = "create"
  /\ pools' = pools \cup {MakerPool[m]}
  /\ MakerGoes(m, IF Exists(m) THEN "failed" ELSE "done")
  /\ UNCHANGED <<grants, outcome, step, got, failures>>

MakerUnanswered(m) ==
  /\ maker[m] = "create"
  /\ Failure
  /\ pools' = pools \cup {MakerPool[m]}
  /\ MakerGoes(m, "failed")
  /\ UNCHANGED <<grants, outcome, step, got>>

MakerAgain(m) ==
  /\ maker[m] = "failed"
  /\ MakerGoes(m, "get")
  /\ UNCHANGED <<pools, grants, outcome, step, got, failures>>

-----------------------------------------------------------------------------
(* The server's *PoolGetResource: asked again with an identifier it knows, *)
(* it answers as before.                                                   *)

Held(pool, id) == {g.res : g \in {x \in grants : x.pool = pool /\ x.id = id}}

Free(pool) == Resources[pool] \ {g.res : g \in {x \in grants : x.pool = pool}}

\* Mutant of Gives: the identifier is not passed on.
GivesAny(pool, id, res) ==
  /\ res \in Free(pool)
  /\ grants' = grants \cup {[pool |-> pool, id |-> <<"">>, res |-> res]}

Gives(pool, id, res) ==
  \/ res \in Held(pool, id) /\ UNCHANGED grants
  \/ /\ Held(pool, id) = {}
     /\ res \in Free(pool)
     /\ grants' = grants \cup {[pool |-> pool, id |-> id, res |-> res]}

-----------------------------------------------------------------------------
(* provision_device.                                                       *)

Looking(c) == outcome[c] = "running" /\ step[c] = 0

Allocating(c) == outcome[c] = "running" /\ step[c] > 0

Holder(c) == Allocations[c][step[c]]

Ends(c, how) == outcome' = [outcome EXCEPT ![c] = how] /\ UNCHANGED <<step, got>>

\* Three requests in the code.  Pools are never deleted, so that the last one
\* to succeed finds all three.
GetPoolsByName(c) ==
  /\ Looking(c)
  /\ Lookups(c) \subseteq pools
  /\ step' = [step EXCEPT ![c] = 1]
  /\ UNCHANGED <<pools, grants, maker, outcome, got, failures>>

PoolNotFound(c) ==
  /\ Looking(c)
  /\ ~(Lookups(c) \subseteq pools)
  /\ Ends(c, "failed")
  /\ UNCHANGED <<pools, grants, maker, failures>>

LastAllocation(c) == Len(got[c]) + 1 = Len(Allocations[c])

Allocate(c) ==
  /\ Allocating(c)
  /\ \E res \in Resources[Holder(c).pool] :
       /\ Gives(Holder(c).pool, Identifier(Holder(c)), res)
       /\ got' = [got EXCEPT ![c] = Append(@, res)]
  /\ IF LastAllocation(c)
     THEN outcome' = [outcome EXCEPT ![c] = "done"] /\ UNCHANGED step
     ELSE step' = [step EXCEPT ![c] = @ + 1] /\ UNCHANGED outcome
  /\ UNCHANGED <<pools, maker, failures>>

\* An answer that is not ok is raised as PoolExhaustedError, whatever it is for:
\* that the server answers so only for want of a resource is taken of Infrahub.
PoolExhausted(c) ==
  /\ Allocating(c)
  /\ \A res \in Resources[Holder(c).pool] :
       res \notin Free(Holder(c).pool) \cup Held(Holder(c).pool, Identifier(Holder(c)))
  /\ Ends(c, "exhausted")
  /\ UNCHANGED <<pools, grants, maker, failures>>

\* A resource is handed out and the answer lost: nothing takes it back.
AllocateUnanswered(c) ==
  /\ Allocating(c)
  /\ Failure
  /\ \E res \in Resources[Holder(c).pool] :
       Gives(Holder(c).pool, Identifier(Holder(c)), res)
  /\ Ends(c, "failed")
  /\ UNCHANGED <<pools, maker>>

\* An error answer, a timeout before the request arrived, a crash.
RequestFails(c) ==
  /\ outcome[c] = "running"
  /\ Failure
  /\ Ends(c, "failed")
  /\ UNCHANGED <<pools, grants, maker>>

\* The whole call is made again.
ProvisionAgain(c) ==
  /\ outcome[c] \in {"failed", "exhausted"}
  /\ outcome' = [outcome EXCEPT ![c] = "running"]
  /\ step' = [step EXCEPT ![c] = 0]
  /\ got' = [got EXCEPT ![c] = <<>>]
  /\ UNCHANGED <<pools, grants, maker, failures>>

-----------------------------------------------------------------------------
MakePool(m) == MakerGet(m) \/ MakerCreate(m) \/ MakerAgain(m)

Provision(c) ==
  \/ GetPoolsByName(c) \/ PoolNotFound(c) \/ Allocate(c) \/ PoolExhausted(c)
  \/ ProvisionAgain(c)

Next ==
  \/ \E m \in Makers : MakePool(m) \/ MakerUnanswered(m)
  \/ \E c \in Callers : Provision(c) \/ AllocateUnanswered(c) \/ RequestFails(c)

Spec == Init /\ [][Next]_vars

\* Calls go on and are repeated until they succeed, as Temporal repeats an
\* activity; failures are finitely many.
FairSpec ==
  /\ Spec
  /\ \A m \in Makers : WF_vars(MakePool(m))
  /\ \A c \in Callers : WF_vars(Provision(c))

-----------------------------------------------------------------------------
(* Properties.                                                             *)

\* A prefix of a fabric pool stands for the two addresses of a /31, the local
\* one first; a resource of another pool for itself.
Values(holder, res) ==
  IF holder.pool \in FabricPools THEN {2 * res, 2 * res + 1} ELSE {res}

\* Whichever calls ran at the same time, failed or were repeated: a device that
\* is provisioned again gets what it had, so that an attempt agrees with the one
\* that replaces it; no two devices get the same AS number or loopback; and no
\* two links overlap.
OneOwnerEach ==
  \A c, d \in Callers : \A i \in DOMAIN got[c], j \in DOMAIN got[d] :
    LET h == Allocations[c][i]
        k == Allocations[d][j]
    IN IF h = k THEN got[c][i] = got[d][j]
       ELSE h.pool = k.pool => Values(h, got[c][i]) \cap Values(k, got[d][j]) = {}

\* A call reports an exhausted pool only if there are more devices or links
\* than resources: failed and repeated calls use none up.
ExhaustedOnlyIfShort ==
  \A c \in Callers :
    outcome[c] = "exhausted" =>
      Demand(Holder(c).pool) > Cardinality(Resources[Holder(c).pool])

\* Who owns what, as the server's grants say.
Owned ==
  LET served == {h \in Holders : Held(h.pool, Identifier(h)) # {}}
  IN [h \in served |-> CHOOSE res \in Held(h.pool, Identifier(h)) : TRUE]

ResourcesOf(holder) == Resources[holder.pool]

Grants == INSTANCE ResourceGrants WITH ResourcesFor <- ResourcesOf, owned <- Owned

\* Allocation by identifier is an allocation to holders: one each, for ever.
ImplementsGrants == Grants!Spec

Sufficient(c) ==
  \A i \in DOMAIN Allocations[c] :
    LET pool == Allocations[c][i].pool
    IN Demand(pool) <= Cardinality(Resources[pool])

\* Where the pools hold enough for everyone, each device is provisioned in the
\* end, and every pool made.
EventuallyProvisioned ==
  <>(/\ \A m \in Makers : maker[m] = "done"
     /\ \A c \in Callers : Sufficient(c) => outcome[c] = "done")
=============================================================================
