--------------------------- MODULE InfrahubProofs ---------------------------
(***************************************************************************)
(* What the clients of Infrahub rely on.  Resources: whatever calls        *)
(* overlap, fail and are repeated, a resource belongs to one device or     *)
(* link for ever, for all pools, devices and peers, if the identifiers of  *)
(* two links are different.  Population: for all seeds, runs and schemas,  *)
(* however runs die and are repeated, a script that exits with 0 has done  *)
(* its work, objects refer to what the seed says, and no run creates an    *)
(* object twice.                                                           *)
(***************************************************************************)
EXTENDS ResourceManager, SourceOfTruth, FiniteSetTheorems, SequenceTheorems,
        WellFoundedInduction, TLAPS

\* What a call may ask for.
Asked == [pool : Pools, device : Name, peer : Name]

\* The server gives a resource to one identifier, which is that of a holder,
\* and an identifier one resource.
GrantsInv ==
  /\ \A g \in grants : \E h \in Holders : h.pool = g.pool /\ Identifier(h) = g.id
  /\ \A g, k \in grants :
       g.pool = k.pool /\ (g.id = k.id \/ g.res = k.res) => g = k

\* Where a call is in its allocations, and that the server holds what it got.
ProgressInv ==
  \A c \in Callers :
    /\ step[c] = 0 => got[c] = <<>>
    /\ Allocating(c) => Len(got[c]) = step[c] - 1
    /\ \A i \in 1 .. Len(got[c]) :
         got[c][i] \in Held(Allocations[c][i].pool, Identifier(Allocations[c][i]))

\* A call met an exhausted pool: all of it is others', and stays theirs.
ExhaustedInv ==
  \A c \in Callers :
    outcome[c] = "exhausted" =>
      /\ step[c] > 0
      /\ \A res \in Resources[Holder(c).pool] :
           \E g \in grants :
             g.pool = Holder(c).pool /\ g.res = res /\ g.id # Identifier(Holder(c))

IInv == TypeOK /\ GrantsInv /\ ProgressInv /\ ExhaustedInv

-----------------------------------------------------------------------------
(* What is allocated.                                                      *)

LEMMA IsASequence ==
  ASSUME NEW S, NEW n \in Nat, NEW s \in [1 .. n -> S]
  PROVE  s \in Seq(S) /\ Len(s) = n
OBVIOUS

LEMMA Concatenation ==
  ASSUME NEW S, NEW s \in Seq(S), NEW t \in Seq(S)
  PROVE  /\ s \o t \in Seq(S)
         /\ Len(s \o t) = Len(s) + Len(t)
         /\ \A i \in 1 .. Len(s) + Len(t) :
              (s \o t)[i] = IF i <= Len(s) THEN s[i] ELSE t[i - Len(s)]
OBVIOUS

LEMMA OneMore ==
  ASSUME NEW S, NEW s \in Seq(S), NEW x
  PROVE  /\ Len(Append(s, x)) = Len(s) + 1 /\ Append(s, x)[Len(s) + 1] = x
         /\ \A i \in 1 .. Len(s) : Append(s, x)[i] = s[i]
<1>1. s \in Seq(S \cup {x})
  OBVIOUS
<1>2. QED
  BY <1>1

\* Two names are equal if they are with the same last part.
LEMMA CancelLast ==
  ASSUME NEW S, NEW s \in Seq(S), NEW t \in Seq(S), NEW x, s \o <<x>> = t \o <<x>>
  PROVE  s = t
<1> DEFINE T == S \cup {x}
<1>1. s \in Seq(T) /\ t \in Seq(T) /\ <<x>> \in Seq(T)
  OBVIOUS
<1> HIDE DEF T
<1>2. QED
  BY <1>1, ConcatSimplifications, Zenon

LEMMA AskedShape ==
  ASSUME NEW h \in Asked
  PROVE  /\ h.pool \in Pools /\ h.device \in Name /\ h.peer \in Name
         /\ h = [pool |-> h.pool, device |-> h.device, peer |-> h.peer]
BY DEF Asked

\* The allocations of a call are an AS number, a loopback, a prefix per peer.
LEMMA AllocationsShape ==
  ASSUME NEW c \in Callers
  PROVE  /\ Allocations[c] \in Seq(Asked)
         /\ Len(Allocations[c]) = Len(Request[c].peers) + 2
         /\ Allocations[c][1] = Allocation(AsnPool, Request[c].device, NoPeer)
         /\ Allocations[c][2] = Allocation(LoopbackPool, Request[c].device, NoPeer)
         /\ \A i \in 3 .. Len(Allocations[c]) :
              Allocations[c][i]
                = Allocation(Request[c].fabric, Request[c].device, Request[c].peers[i - 2])
<1> DEFINE device == Request[c].device
           peers == Request[c].peers
           first == <<Allocation(AsnPool, device, NoPeer),
                      Allocation(LoopbackPool, device, NoPeer)>>
           links == [i \in DOMAIN peers |-> Allocation(Request[c].fabric, device, peers[i])]
<1>1. /\ device \in Name /\ peers \in Seq(Name)
      /\ Request[c].fabric \in Pools /\ AsnPool \in Pools /\ LoopbackPool \in Pools
      /\ NoPeer \in Name
  BY RequestAssumption, PoolAssumption DEF FabricPools, NoPeer, Name
<1>2. first \in Seq(Asked) /\ Len(first) = 2
  BY <1>1 DEF Asked, Allocation
<1>3. links \in Seq(Asked) /\ Len(links) = Len(peers)
  <2>1. DOMAIN peers = 1 .. Len(peers) /\ Len(peers) \in Nat
    BY <1>1
  <2>2. \A i \in 1 .. Len(peers) : peers[i] \in Name
    BY <1>1
  <2>3. \A i \in 1 .. Len(peers) :
          Allocation(Request[c].fabric, device, peers[i]) \in Asked
    BY <1>1, <2>2 DEF Asked, Allocation
  <2>4. links \in [1 .. Len(peers) -> Asked]
    <3>1. links = [i \in 1 .. Len(peers) |-> Allocation(Request[c].fabric, device, peers[i])]
      BY <2>1
    <3>2. QED
      BY <3>1, <2>3
  <2>5. QED
    BY <2>1, <2>4, IsASequence
<1>4. Allocations[c] = first \o links
  BY DEF Allocations
<1>5. /\ first[1] = Allocation(AsnPool, device, NoPeer)
      /\ first[2] = Allocation(LoopbackPool, device, NoPeer)
  OBVIOUS
<1>6. \A i \in 1 .. Len(peers) :
        links[i] = Allocation(Request[c].fabric, device, peers[i])
  BY <1>1
<1>7. Len(peers) \in Nat
  BY <1>1
<1> HIDE DEF first, links, peers, device
<1>8. /\ Allocations[c] \in Seq(Asked)
      /\ Len(Allocations[c]) = Len(peers) + 2
      /\ \A i \in 1 .. Len(peers) + 2 :
           Allocations[c][i] = IF i <= 2 THEN first[i] ELSE links[i - 2]
  <2>1. /\ Len(first \o links) = Len(first) + Len(links)
        /\ first \o links \in Seq(Asked)
        /\ \A i \in 1 .. Len(first) + Len(links) :
             (first \o links)[i] = IF i <= Len(first) THEN first[i] ELSE links[i - Len(first)]
    <3>1. first \in Seq(Asked) /\ links \in Seq(Asked)
      BY <1>2, <1>3
    <3>2. QED
      BY <3>1, Concatenation
  <2>2. QED
    BY <2>1, <1>2, <1>3, <1>4, <1>7
<1>9. \A i \in 3 .. Len(Allocations[c]) :
        Allocations[c][i] = Allocation(Request[c].fabric, device, peers[i - 2])
  <2> SUFFICES ASSUME NEW i \in 3 .. Len(Allocations[c])
               PROVE  Allocations[c][i] = Allocation(Request[c].fabric, device, peers[i - 2])
    OBVIOUS
  <2>1. i - 2 \in 1 .. Len(peers) /\ i \in 1 .. Len(peers) + 2 /\ ~(i <= 2)
    BY <1>7, <1>8
  <2>2. QED
    BY <2>1, <1>6, <1>8
<1>10. Allocations[c][1] = first[1] /\ Allocations[c][2] = first[2]
  BY <1>7, <1>8
<1>11. QED
  BY <1>5, <1>8, <1>9, <1>10 DEF device, peers

\* A holder is one of a call's allocations, and every allocation is a holder.
LEMMA HolderShape ==
  /\ \A c \in Callers : \A i \in 1 .. Len(Allocations[c]) : Allocations[c][i] \in Holders
  /\ \A h \in Holders :
       /\ h \in Asked
       /\ h.pool \in {AsnPool, LoopbackPool} => h.peer = NoPeer
       /\ h.pool \notin {AsnPool, LoopbackPool} =>
            \E c \in Callers : \E i \in DOMAIN Request[c].peers :
              h.device = Request[c].device /\ h.peer = Request[c].peers[i]
<1>1. \A c \in Callers : DOMAIN Allocations[c] = 1 .. Len(Allocations[c])
  BY AllocationsShape
<1>2. ASSUME NEW h \in Holders
      PROVE  /\ h \in Asked
             /\ h.pool \in {AsnPool, LoopbackPool} => h.peer = NoPeer
             /\ h.pool \notin {AsnPool, LoopbackPool} =>
                  \E c \in Callers : \E i \in DOMAIN Request[c].peers :
                    h.device = Request[c].device /\ h.peer = Request[c].peers[i]
  <2>0. PICK c \in Callers : \E i \in 1 .. Len(Allocations[c]) : h = Allocations[c][i]
    BY <1>1 DEF Holders
  <2>1. PICK i \in 1 .. Len(Allocations[c]) : h = Allocations[c][i]
    BY <2>0
  <2>2. Allocations[c] \in Seq(Asked) /\ Len(Allocations[c]) = Len(Request[c].peers) + 2
    BY AllocationsShape
  <2>3. /\ Request[c].peers \in Seq(Name)
        /\ Request[c].fabric \notin {AsnPool, LoopbackPool}
    BY RequestAssumption DEF FabricPools
  <2>4. CASE i \in 1 .. 2
    <3>1. \/ h = Allocation(AsnPool, Request[c].device, NoPeer)
          \/ h = Allocation(LoopbackPool, Request[c].device, NoPeer)
      BY <2>1, <2>4, AllocationsShape
    <3>2. h \in Asked
      BY <2>1, <2>2
    <3>3. h.pool \in {AsnPool, LoopbackPool} /\ h.peer = NoPeer
      BY <3>1 DEF Allocation
    <3>4. QED
      BY <3>2, <3>3
  <2>5. CASE i \in 3 .. Len(Allocations[c])
    <3>1. i - 2 \in DOMAIN Request[c].peers
      BY <2>2, <2>3, <2>5
    <3>2. h = Allocation(Request[c].fabric, Request[c].device, Request[c].peers[i - 2])
      BY <2>1, <2>5, AllocationsShape
    <3>3. /\ h.pool = Request[c].fabric
          /\ h.device = Request[c].device
          /\ h.peer = Request[c].peers[i - 2]
      BY <3>2 DEF Allocation
    <3>4. h \in Asked
      BY <2>1, <2>2
    <3>5. QED
      BY <2>3, <3>1, <3>3, <3>4
  <2>6. i \in 1 .. 2 \/ i \in 3 .. Len(Allocations[c])
    BY <2>1
  <2>7. QED
    BY <2>4, <2>5, <2>6
<1>3. QED
  BY <1>1, <1>2 DEF Holders

\* In one pool no two holders have the same identifier.
LEMMA IdentifierIsUnique ==
  ASSUME NEW h \in Holders, NEW k \in Holders,
         h.pool = k.pool, Identifier(h) = Identifier(k)
  PROVE  h = k
<1>1. h \in Asked /\ k \in Asked
  BY HolderShape
<1>2. SUFFICES h.device = k.device /\ h.peer = k.peer
  BY <1>1, AskedShape
<1>3. h.device \in Seq(STRING) /\ k.device \in Seq(STRING)
  BY <1>1, AskedShape DEF Name
<1>4. CASE h.pool = AsnPool
  <2>1. h.device = k.device
    BY <1>4 DEF Identifier
  <2>2. QED
    BY <1>4, <2>1, HolderShape
<1>5. CASE h.pool = LoopbackPool
  <2>1. h.device \o <<"loopback">> = k.device \o <<"loopback">>
    BY <1>5, PoolAssumption DEF Identifier
  <2>2. h.device = k.device
    BY <1>3, <2>1, CancelLast
  <2>3. QED
    BY <1>5, <2>2, HolderShape
<1>6. CASE h.pool \notin {AsnPool, LoopbackPool}
  <2>1. h.device \o h.peer = k.device \o k.peer
    BY <1>6 DEF Identifier, LinkId
  <2>2. PICK c \in Callers : \E i \in DOMAIN Request[c].peers :
          h.device = Request[c].device /\ h.peer = Request[c].peers[i]
    BY <1>6, HolderShape
  <2>3. PICK d \in Callers : \E i \in DOMAIN Request[d].peers :
          k.device = Request[d].device /\ k.peer = Request[d].peers[i]
    BY <1>6, HolderShape
  <2>4. PICK i \in DOMAIN Request[c].peers :
          h.device = Request[c].device /\ h.peer = Request[c].peers[i]
    BY <2>2
  <2>5. PICK j \in DOMAIN Request[d].peers :
          k.device = Request[d].device /\ k.peer = Request[d].peers[j]
    BY <2>3
  <2>6. Request[c].device \o Request[c].peers[i] = Request[d].device \o Request[d].peers[j]
    BY <2>1, <2>4, <2>5
  <2>7. QED
    BY <2>4, <2>5, <2>6, UnambiguousNames
<1>7. QED
  BY <1>4, <1>5, <1>6

-----------------------------------------------------------------------------
(* What the server gives.                                                  *)

LEMMA HeldIs ==
  \A pool, id, res :
    res \in Held(pool, id) <=> \E g \in grants : g.pool = pool /\ g.id = id /\ g.res = res
BY DEF Held

LEMMA FreeIs ==
  \A pool, res :
    res \in Free(pool) <=>
      res \in Resources[pool] /\ \A g \in grants : g.pool = pool => g.res # res
BY DEF Free

\* A call that allocates asks for one of its allocations.
LEMMA HolderOfStep ==
  ASSUME TypeOK, NEW c \in Callers, step[c] > 0
  PROVE  /\ step[c] \in 1 .. Len(Allocations[c])
         /\ Holder(c) \in Holders
         /\ Holder(c).pool \in Pools
<1>1. step[c] \in 1 .. Len(Allocations[c])
  BY AllocationsShape DEF TypeOK
<1>2. Holder(c) \in Holders
  BY <1>1, HolderShape DEF Holder
<1>3. QED
  BY <1>1, <1>2, HolderShape, AskedShape

LEMMA GrantShape ==
  ASSUME TypeOK, NEW g \in grants
  PROVE  /\ g = [pool |-> g.pool, id |-> g.id, res |-> g.res]
         /\ g.pool \in Pools /\ g.id \in Identifiers /\ g.res \in Resources[g.pool]
BY DEF TypeOK

\* An answer is held by the identifier it was asked with; no grant is lost, and
\* the server still gives each resource to one.
LEMMA GivesEffect ==
  ASSUME IInv, NEW h \in Holders, NEW res \in Resources[h.pool],
         Gives(h.pool, Identifier(h), res)
  PROVE  /\ grants \subseteq grants'
         /\ \A g \in grants' : g \in [pool : Pools, id : Identifiers, res : Resources[g.pool]]
         /\ GrantsInv'
         /\ \E g \in grants' : g.pool = h.pool /\ g.id = Identifier(h) /\ g.res = res
<1>1. CASE res \in Held(h.pool, Identifier(h)) /\ UNCHANGED grants
  BY <1>1, HeldIs DEF IInv, TypeOK, GrantsInv
<1>2. CASE /\ Held(h.pool, Identifier(h)) = {}
           /\ res \in Free(h.pool)
           /\ grants' = grants \cup {[pool |-> h.pool, id |-> Identifier(h), res |-> res]}
  <2> DEFINE new == [pool |-> h.pool, id |-> Identifier(h), res |-> res]
  <2>1. h.pool \in Pools /\ Identifier(h) \in Identifiers
    BY HolderShape, AskedShape DEF Identifiers
  <2>2. new.pool = h.pool /\ new.id = Identifier(h) /\ new.res = res
    OBVIOUS
  <2>3. new \in [pool : Pools, id : Identifiers, res : Resources[new.pool]]
    BY <2>1
  <2>4. grants' = grants \cup {new}
    BY <1>2
  <2>5. \A g \in grants : g.pool = new.pool => g.id # new.id /\ g.res # new.res
    BY <1>2, <2>2, HeldIs, FreeIs
  <2> HIDE DEF new
  <2>6. \A g \in grants' : g \in [pool : Pools, id : Identifiers, res : Resources[g.pool]]
    BY <2>3, <2>4 DEF IInv, TypeOK
  <2>7. GrantsInv'
    <3>1. \A g \in grants' : \E k \in Holders : k.pool = g.pool /\ Identifier(k) = g.id
      BY <2>2, <2>4 DEF IInv, GrantsInv
    <3>2. \A g, k \in grants' :
            g.pool = k.pool /\ (g.id = k.id \/ g.res = k.res) => g = k
      BY <2>4, <2>5 DEF IInv, GrantsInv
    <3>3. QED
      BY <3>1, <3>2 DEF GrantsInv
  <2>8. QED
    BY <2>2, <2>4, <2>6, <2>7
<1>3. QED
  BY <1>1, <1>2 DEF Gives

\* What every step does with the grants.
LEMMA GrantsStep ==
  ASSUME IInv, [Next]_vars
  PROVE  /\ grants \subseteq grants'
         /\ \A g \in grants' : g \in [pool : Pools, id : Identifiers, res : Resources[g.pool]]
         /\ GrantsInv'
<1>1. CASE UNCHANGED grants
  BY <1>1 DEF IInv, TypeOK, GrantsInv
<1>2. CASE \E c \in Callers : Allocate(c)
  <2>1. PICK c \in Callers : Allocate(c)
    BY <1>2
  <2>2. Holder(c) \in Holders
    BY <2>1, HolderOfStep DEF IInv, Allocate, Allocating
  <2>3. PICK res \in Resources[Holder(c).pool] :
          Gives(Holder(c).pool, Identifier(Holder(c)), res)
    BY <2>1 DEF Allocate
  <2>4. QED
    BY <2>2, <2>3, GivesEffect
<1>3. CASE \E c \in Callers : AllocateUnanswered(c)
  <2>1. PICK c \in Callers : AllocateUnanswered(c)
    BY <1>3
  <2>2. Holder(c) \in Holders
    BY <2>1, HolderOfStep DEF IInv, AllocateUnanswered, Allocating
  <2>3. PICK res \in Resources[Holder(c).pool] :
          Gives(Holder(c).pool, Identifier(Holder(c)), res)
    BY <2>1 DEF AllocateUnanswered
  <2>4. QED
    BY <2>2, <2>3, GivesEffect
<1>4. QED
  BY <1>1, <1>2, <1>3
     DEF Next, vars, MakePool, MakerGet, MakerCreate, MakerAgain, MakerUnanswered,
         Provision, GetPoolsByName, PoolNotFound, PoolExhausted, ProvisionAgain,
         RequestFails

-----------------------------------------------------------------------------
(* What a step does to one call: nothing; it looks the pools up, ends, is  *)
(* given one resource more or finds none; or it is made again.             *)

Stays(c) == outcome'[c] = outcome[c] /\ step'[c] = step[c] /\ got'[c] = got[c]

Begins(c) ==
  /\ Looking(c)
  /\ outcome'[c] = outcome[c] /\ step'[c] = 1 /\ got'[c] = got[c]

Stops(c) == outcome'[c] = "failed" /\ step'[c] = step[c] /\ got'[c] = got[c]

GetsOne(c) ==
  /\ Allocating(c)
  /\ \E res \in Resources[Holder(c).pool] :
       /\ Gives(Holder(c).pool, Identifier(Holder(c)), res)
       /\ got'[c] = Append(got[c], res)
  /\ \/ LastAllocation(c) /\ outcome'[c] = "done" /\ step'[c] = step[c]
     \/ ~LastAllocation(c) /\ outcome'[c] = "running" /\ step'[c] = step[c] + 1

FindsNone(c) ==
  /\ Allocating(c)
  /\ \A res \in Resources[Holder(c).pool] :
       res \notin Free(Holder(c).pool) \cup Held(Holder(c).pool, Identifier(Holder(c)))
  /\ outcome'[c] = "exhausted" /\ step'[c] = step[c] /\ got'[c] = got[c]

Restarts(c) == outcome'[c] = "running" /\ step'[c] = 0 /\ got'[c] = <<>>

Goes(c) ==
  Stays(c) \/ Begins(c) \/ Stops(c) \/ GetsOne(c) \/ FindsNone(c) \/ Restarts(c)

\* The three functions of calls change at one call.
CallsKeep ==
  /\ outcome' \in [Callers -> {"running", "failed", "exhausted", "done"}]
  /\ DOMAIN step' = Callers /\ step' = [c \in Callers |-> step'[c]]
  /\ DOMAIN got' = Callers /\ got' = [c \in Callers |-> got'[c]]

LEMMA CallStep ==
  ASSUME IInv, [Next]_vars
  PROVE  CallsKeep /\ \A c \in Callers : Goes(c)
<1> USE DEF IInv, TypeOK
<1>1. CASE UNCHANGED <<outcome, step, got>>
  BY <1>1 DEF CallsKeep, Goes, Stays
<1>2. ASSUME NEW c \in Callers, GetPoolsByName(c)
      PROVE  CallsKeep /\ \A d \in Callers : Goes(d)
  <2>1. CallsKeep /\ Begins(c) /\ \A d \in Callers \ {c} : Stays(d)
    BY <1>2 DEF GetPoolsByName, Looking, Begins, Stays, CallsKeep
  <2>2. QED
    BY <2>1 DEF Goes
<1>3. ASSUME NEW c \in Callers, PoolNotFound(c) \/ AllocateUnanswered(c) \/ RequestFails(c)
      PROVE  CallsKeep /\ \A d \in Callers : Goes(d)
  <2>1. CallsKeep /\ Stops(c) /\ \A d \in Callers \ {c} : Stays(d)
    BY <1>3
       DEF PoolNotFound, AllocateUnanswered, RequestFails, Ends, Stops, Stays, CallsKeep
  <2>2. QED
    BY <2>1 DEF Goes
<1>4. ASSUME NEW c \in Callers, Allocate(c)
      PROVE  CallsKeep /\ \A d \in Callers : Goes(d)
  <2>1. Allocating(c) /\ outcome[c] = "running"
    BY <1>4 DEF Allocate, Allocating
  <2>2. PICK res \in Resources[Holder(c).pool] :
          /\ Gives(Holder(c).pool, Identifier(Holder(c)), res)
          /\ got' = [got EXCEPT ![c] = Append(@, res)]
    BY <1>4 DEF Allocate
  <2>3. /\ got'[c] = Append(got[c], res)
        /\ \A d \in Callers \ {c} : got'[d] = got[d]
        /\ DOMAIN got' = Callers /\ got' = [d \in Callers |-> got'[d]]
    BY <2>2
  <2>4. /\ \/ LastAllocation(c) /\ outcome'[c] = "done" /\ step'[c] = step[c]
           \/ ~LastAllocation(c) /\ outcome'[c] = "running" /\ step'[c] = step[c] + 1
        /\ \A d \in Callers \ {c} : outcome'[d] = outcome[d] /\ step'[d] = step[d]
        /\ outcome' \in [Callers -> {"running", "failed", "exhausted", "done"}]
        /\ DOMAIN step' = Callers /\ step' = [d \in Callers |-> step'[d]]
    BY <1>4, <2>1 DEF Allocate
  <2>5. CallsKeep
    BY <2>3, <2>4 DEF CallsKeep
  <2>6. GetsOne(c)
    BY <2>1, <2>2, <2>3, <2>4 DEF GetsOne
  <2>7. \A d \in Callers \ {c} : Stays(d)
    BY <2>3, <2>4 DEF Stays
  <2>8. QED
    BY <2>5, <2>6, <2>7 DEF Goes
<1>5. ASSUME NEW c \in Callers, PoolExhausted(c)
      PROVE  CallsKeep /\ \A d \in Callers : Goes(d)
  <2>1. CallsKeep /\ FindsNone(c) /\ \A d \in Callers \ {c} : Stays(d)
    BY <1>5 DEF PoolExhausted, Ends, FindsNone, Stays, CallsKeep
  <2>2. QED
    BY <2>1 DEF Goes
<1>6. ASSUME NEW c \in Callers, ProvisionAgain(c)
      PROVE  CallsKeep /\ \A d \in Callers : Goes(d)
  <2>1. CallsKeep /\ Restarts(c) /\ \A d \in Callers \ {c} : Stays(d)
    BY <1>6 DEF ProvisionAgain, Restarts, Stays, CallsKeep
  <2>2. QED
    BY <2>1 DEF Goes
<1>7. QED
  BY <1>1, <1>2, <1>3, <1>4, <1>5, <1>6
     DEF Next, vars, MakePool, MakerGet, MakerCreate, MakerAgain, MakerUnanswered, Provision

-----------------------------------------------------------------------------
(* The invariant is inductive.                                             *)

LEMMA Initially == Init => IInv
<1> SUFFICES ASSUME Init PROVE IInv
  OBVIOUS
<1>1. TypeOK
  <2>1. \A c \in Callers : Len(Allocations[c]) \in Nat
    BY AllocationsShape
  <2>2. QED
    BY <2>1, PoolAssumption, FailuresAssumption DEF Init, TypeOK
<1>2. GrantsInv /\ ExhaustedInv
  BY DEF Init, GrantsInv, ExhaustedInv
<1>3. ProgressInv
  BY DEF Init, ProgressInv, Allocating
<1>4. QED
  BY <1>1, <1>2, <1>3 DEF IInv

\* What a call has, after one step more, is as long as its allocations at most.
LEMMA CallTypes ==
  ASSUME IInv, [Next]_vars, NEW c \in Callers
  PROVE  /\ step'[c] \in Nat /\ step'[c] <= Len(Allocations[c])
         /\ got'[c] \in Seq(Nat) /\ Len(got'[c]) <= Len(Allocations[c])
<1>1. /\ Len(Allocations[c]) \in Nat /\ Len(Allocations[c]) >= 2
      /\ step[c] \in Nat /\ step[c] <= Len(Allocations[c])
      /\ got[c] \in Seq(Nat) /\ Len(got[c]) <= Len(Allocations[c])
  <2>1. Request[c].peers \in Seq(Name)
    BY RequestAssumption
  <2>2. QED
    BY <2>1, AllocationsShape DEF IInv, TypeOK
<1>2. CASE GetsOne(c)
  <2>1. Len(got[c]) = step[c] - 1 /\ step[c] > 0
    BY <1>2 DEF GetsOne, Allocating, IInv, ProgressInv
  <2>2. Holder(c).pool \in Pools
    BY <2>1, HolderOfStep DEF IInv
  <2>3. PICK res \in Resources[Holder(c).pool] : got'[c] = Append(got[c], res)
    BY <1>2 DEF GetsOne
  <2>4. res \in Nat
    BY <2>2, PoolAssumption
  <2>5. got'[c] \in Seq(Nat) /\ Len(got'[c]) = step[c]
    BY <1>1, <2>1, <2>3, <2>4
  <2>6. \/ step'[c] = step[c]
        \/ step[c] # Len(Allocations[c]) /\ step'[c] = step[c] + 1
    <3>1. \/ LastAllocation(c) /\ step'[c] = step[c]
          \/ ~LastAllocation(c) /\ step'[c] = step[c] + 1
      BY <1>2 DEF GetsOne
    <3>2. CASE LastAllocation(c)
      BY <3>1, <3>2
    <3>3. CASE ~LastAllocation(c)
      <4>1. step[c] # Len(Allocations[c])
        BY <1>1, <2>1, <3>3 DEF LastAllocation
      <4>2. QED
        BY <3>1, <3>3, <4>1
    <3>4. QED
      BY <3>2, <3>3
  <2>7. QED
    BY <1>1, <2>5, <2>6
<1>3. CASE Stays(c) \/ Begins(c) \/ Stops(c) \/ FindsNone(c)
  <2>1. step'[c] \in {step[c], 1} /\ got'[c] = got[c]
    BY <1>3 DEF Stays, Begins, Stops, FindsNone
  <2>2. QED
    BY <1>1, <2>1
<1>4. CASE Restarts(c)
  BY <1>1, <1>4 DEF Restarts
<1>5. QED
  BY <1>2, <1>3, <1>4, CallStep DEF Goes

LEMMA TypeStep ==
  ASSUME IInv, [Next]_vars
  PROVE  TypeOK'
<1>1. \A g \in grants' : g \in [pool : Pools, id : Identifiers, res : Resources[g.pool]]
  BY GrantsStep
<1>2. CallsKeep
  BY CallStep
<1>3. /\ step' \in [Callers -> Nat] /\ got' \in [Callers -> Seq(Nat)]
      /\ \A c \in Callers :
           step'[c] <= Len(Allocations[c]) /\ Len(got'[c]) <= Len(Allocations[c])
  BY <1>2, CallTypes DEF CallsKeep
<1>4. /\ pools' \subseteq Pools
      /\ maker' \in [Makers -> {"get", "create", "done", "failed"}]
      /\ failures' \in 0 .. MaxFailures
  <2>1. /\ pools \subseteq Pools
        /\ maker \in [Makers -> {"get", "create", "done", "failed"}]
        /\ failures \in 0 .. MaxFailures
        /\ MaxFailures \in Nat /\ MakerPool \in [Makers -> Pools]
    BY PoolAssumption, FailuresAssumption DEF IInv, TypeOK
  <2>2. \/ UNCHANGED <<pools, maker, failures>>
        \/ \E m \in Makers : MakePool(m) \/ MakerUnanswered(m)
        \/ \E c \in Callers : AllocateUnanswered(c) \/ RequestFails(c)
    BY DEF Next, vars, Provision, GetPoolsByName, PoolNotFound, Allocate, PoolExhausted,
           ProvisionAgain
  <2>3. CASE UNCHANGED <<pools, maker, failures>>
    BY <2>1, <2>3
  <2>4. CASE \E m \in Makers : MakePool(m) \/ MakerUnanswered(m)
    <3>1. PICK m \in Makers : MakePool(m) \/ MakerUnanswered(m)
      BY <2>4
    <3>2. /\ pools' \in {pools, pools \cup {MakerPool[m]}}
          /\ \E to \in {"get", "create", "done", "failed"} : MakerGoes(m, to)
      BY <3>1 DEF MakePool, MakerGet, MakerCreate, MakerAgain, MakerUnanswered
    <3>3. failures' = failures \/ Failure
      BY <3>1 DEF MakePool, MakerGet, MakerCreate, MakerAgain, MakerUnanswered
    <3>4. QED
      BY <2>1, <3>2, <3>3 DEF MakerGoes, Failure
  <2>5. CASE \E c \in Callers : AllocateUnanswered(c) \/ RequestFails(c)
    BY <2>1, <2>5 DEF AllocateUnanswered, RequestFails, Failure
  <2>6. QED
    BY <2>2, <2>3, <2>4, <2>5
<1>5. QED
  BY <1>1, <1>2, <1>3, <1>4 DEF TypeOK, CallsKeep

LEMMA ProgressStep ==
  ASSUME IInv, [Next]_vars
  PROVE  ProgressInv'
<1> SUFFICES ASSUME NEW c \in Callers
             PROVE  /\ step'[c] = 0 => got'[c] = <<>>
                    /\ Allocating(c)' => Len(got'[c]) = step'[c] - 1
                    /\ \A i \in 1 .. Len(got'[c]) :
                         got'[c][i] \in Held(Allocations[c][i].pool, Identifier(Allocations[c][i]))'
  BY DEF ProgressInv
<1>1. /\ step[c] = 0 => got[c] = <<>>
      /\ Allocating(c) => Len(got[c]) = step[c] - 1
      /\ \A i \in 1 .. Len(got[c]) :
           got[c][i] \in Held(Allocations[c][i].pool, Identifier(Allocations[c][i]))
      /\ step[c] \in Nat /\ got[c] \in Seq(Nat)
  BY DEF IInv, ProgressInv, TypeOK
<1>2. \A pool, id : Held(pool, id) \subseteq Held(pool, id)'
  BY GrantsStep DEF Held
<1>3. CASE Stays(c) \/ Stops(c) \/ FindsNone(c)
  BY <1>1, <1>2, <1>3 DEF Stays, Stops, FindsNone, Allocating
<1>4. CASE Begins(c)
  BY <1>1, <1>2, <1>4 DEF Begins, Looking, Allocating
<1>5. CASE Restarts(c)
  BY <1>5 DEF Restarts, Allocating
<1>6. CASE GetsOne(c)
  <2>1. step[c] > 0 /\ Len(got[c]) = step[c] - 1
    BY <1>1, <1>6 DEF GetsOne, Allocating
  <2>2. PICK res \in Resources[Holder(c).pool] :
          /\ Gives(Holder(c).pool, Identifier(Holder(c)), res)
          /\ got'[c] = Append(got[c], res)
    BY <1>6 DEF GetsOne
  <2>3. \E g \in grants' :
          g.pool = Holder(c).pool /\ g.id = Identifier(Holder(c)) /\ g.res = res
    BY <2>1, <2>2, HolderOfStep, GivesEffect DEF IInv
  <2>4. PICK n \in Nat : n = step[c]
    BY <1>1
  <2>5. res \in Held(Allocations[c][n].pool, Identifier(Allocations[c][n]))'
    BY <2>3, <2>4 DEF Held, Holder
  <2>6. /\ Len(got'[c]) = n /\ got'[c][n] = res
        /\ \A i \in 1 .. n : i = n \/ (i \in 1 .. Len(got[c]) /\ got'[c][i] = got[c][i])
    <3>1. /\ Len(got'[c]) = Len(got[c]) + 1 /\ got'[c][Len(got[c]) + 1] = res
          /\ \A i \in 1 .. Len(got[c]) : got'[c][i] = got[c][i]
      BY <1>1, <2>2, OneMore
    <3>2. Len(got[c]) \in Nat /\ Len(got[c]) + 1 = n
      BY <1>1, <2>1, <2>4
    <3>3. QED
      BY <3>1, <3>2
  <2>7. \A i \in 1 .. Len(got'[c]) :
          got'[c][i] \in Held(Allocations[c][i].pool, Identifier(Allocations[c][i]))'
    <3> SUFFICES ASSUME NEW i \in 1 .. n
                 PROVE  got'[c][i]
                          \in Held(Allocations[c][i].pool, Identifier(Allocations[c][i]))'
      BY <2>6
    <3>1. CASE i = n
      BY <2>5, <2>6, <3>1
    <3>2. CASE i # n
      <4>1. got[c][i] \in Held(Allocations[c][i].pool, Identifier(Allocations[c][i]))
        BY <1>1, <2>6, <3>2
      <4>2. QED
        BY <1>2, <2>6, <3>2, <4>1
    <3>3. QED
      BY <3>1, <3>2
  <2>8. step'[c] # 0 /\ (Allocating(c)' => step'[c] = step[c] + 1)
    BY <1>1, <1>6, <2>1 DEF GetsOne, Allocating
  <2>9. QED
    BY <1>1, <2>1, <2>4, <2>6, <2>7, <2>8
<1>7. QED
  BY <1>3, <1>4, <1>5, <1>6, CallStep DEF Goes

LEMMA ExhaustedStep ==
  ASSUME IInv, [Next]_vars
  PROVE  ExhaustedInv'
<1> DEFINE Others(c, res) ==
      \E g \in grants :
        g.pool = Holder(c).pool /\ g.res = res /\ g.id # Identifier(Holder(c))
<1> SUFFICES ASSUME NEW c \in Callers, outcome'[c] = "exhausted"
             PROVE  step'[c] > 0 /\ \A res \in Resources[Holder(c)'.pool] : Others(c, res)'
  BY DEF ExhaustedInv
<1>1. SUFFICES /\ step'[c] = step[c] /\ step[c] > 0
               /\ \A res \in Resources[Holder(c).pool] : Others(c, res)
  <2>1. Holder(c)' = Holder(c)
    BY <1>1 DEF Holder
  <2>2. \A res \in Resources[Holder(c).pool] : Others(c, res)'
    BY <1>1, <2>1, GrantsStep
  <2>3. QED
    BY <1>1, <2>1, <2>2
<1>2. CASE Stays(c)
  BY <1>2 DEF Stays, IInv, ExhaustedInv
<1>3. CASE FindsNone(c)
  <2>1. step'[c] = step[c] /\ step[c] > 0
    BY <1>3 DEF FindsNone, Allocating
  <2>2. ASSUME NEW res \in Resources[Holder(c).pool]
        PROVE  Others(c, res)
    <3>1. /\ res \notin Free(Holder(c).pool)
          /\ res \notin Held(Holder(c).pool, Identifier(Holder(c)))
      BY <1>3 DEF FindsNone
    <3>2. PICK g \in grants : g.pool = Holder(c).pool /\ g.res = res
      BY <3>1, FreeIs
    <3>3. g.id # Identifier(Holder(c))
      BY <3>1, <3>2, HeldIs
    <3>4. QED
      BY <3>2, <3>3
  <2>3. QED
    BY <2>1, <2>2
<1>4. CASE Begins(c) \/ Stops(c) \/ GetsOne(c) \/ Restarts(c)
  BY <1>4 DEF Begins, Looking, Stops, GetsOne, Restarts
<1>5. QED
  BY <1>2, <1>3, <1>4, CallStep DEF Goes

LEMMA Invariance == Spec => []IInv
<1>1. IInv /\ [Next]_vars => IInv'
  BY TypeStep, GrantsStep, ProgressStep, ExhaustedStep DEF IInv
<1>2. QED
  BY Initially, <1>1, PTL DEF Spec

\* Type correctness of the pools, of what they have granted, and of the calls: a
\* grant is a resource of its pool, and no call is given more than it asks for.
THEOREM PoolsTyped == Spec => []TypeOK
BY Invariance, PTL DEF IInv

-----------------------------------------------------------------------------
(* One owner each.                                                         *)

\* Resources a call was given belong to a pool of numbers, each number to one
\* identifier of it.
LEMMA GivenOnce ==
  ASSUME IInv, NEW c \in Callers, NEW d \in Callers,
         NEW i \in 1 .. Len(got[c]), NEW j \in 1 .. Len(got[d]),
         Allocations[c][i].pool = Allocations[d][j].pool
  PROVE  /\ got[c][i] \in Nat /\ got[d][j] \in Nat
         /\ Allocations[c][i] = Allocations[d][j] => got[c][i] = got[d][j]
         /\ Allocations[c][i] # Allocations[d][j] => got[c][i] # got[d][j]
<1> DEFINE h == Allocations[c][i]
           k == Allocations[d][j]
<1>1. got[c] \in Seq(Nat) /\ got[d] \in Seq(Nat)
  BY DEF IInv, TypeOK
<1>2. i \in 1 .. Len(Allocations[c]) /\ j \in 1 .. Len(Allocations[d])
  <2>1. /\ Len(got[c]) <= Len(Allocations[c]) /\ Len(got[c]) \in Nat
        /\ Len(got[d]) <= Len(Allocations[d]) /\ Len(got[d]) \in Nat
    BY <1>1 DEF IInv, TypeOK
  <2>2. Len(Allocations[c]) \in Nat /\ Len(Allocations[d]) \in Nat
    BY AllocationsShape
  <2>3. QED
    BY <2>1, <2>2
<1>3. h \in Holders /\ k \in Holders
  BY <1>2, HolderShape
<1> HIDE DEF h, k
<1>4. PICK g \in grants : g.pool = h.pool /\ g.id = Identifier(h) /\ g.res = got[c][i]
  BY HeldIs DEF IInv, ProgressInv, h
<1>5. PICK f \in grants : f.pool = k.pool /\ f.id = Identifier(k) /\ f.res = got[d][j]
  BY HeldIs DEF IInv, ProgressInv, k
<1>6. h.pool = k.pool
  BY DEF h, k
<1>7. h = k => got[c][i] = got[d][j]
  BY <1>4, <1>5 DEF IInv, GrantsInv
<1>8. h # k => got[c][i] # got[d][j]
  <2> SUFFICES ASSUME h # k, got[c][i] = got[d][j] PROVE FALSE
    OBVIOUS
  <2>1. f = g
    BY <1>4, <1>5, <1>6 DEF IInv, GrantsInv
  <2>2. QED
    BY <1>3, <1>4, <1>5, <1>6, <2>1, IdentifierIsUnique
<1>9. QED
  BY <1>1, <1>7, <1>8 DEF h, k

\* Numbers that differ make /31s that do not overlap.
LEMMA LinksApart ==
  ASSUME NEW m \in Nat, NEW n \in Nat, m # n
  PROVE  {2 * m, 2 * m + 1} \cap {2 * n, 2 * n + 1} = {}
OBVIOUS

\* No two devices get the same AS number or loopback, no two links overlap, and
\* a device provisioned again gets what it had, whatever failed or overlapped.
THEOREM OneOwner == Spec => []OneOwnerEach
<1>1. IInv => OneOwnerEach
  <2> SUFFICES ASSUME IInv, NEW c \in Callers, NEW d \in Callers,
                      NEW i \in DOMAIN got[c], NEW j \in DOMAIN got[d]
               PROVE  IF Allocations[c][i] = Allocations[d][j] THEN got[c][i] = got[d][j]
                      ELSE Allocations[c][i].pool = Allocations[d][j].pool =>
                             Values(Allocations[c][i], got[c][i])
                               \cap Values(Allocations[d][j], got[d][j]) = {}
    BY DEF OneOwnerEach
  <2>1. i \in 1 .. Len(got[c]) /\ j \in 1 .. Len(got[d])
    BY DEF IInv, TypeOK
  <2>2. CASE Allocations[c][i] = Allocations[d][j]
    BY <2>1, <2>2, GivenOnce
  <2>3. CASE /\ Allocations[c][i] # Allocations[d][j]
             /\ Allocations[c][i].pool = Allocations[d][j].pool
    <3>1. got[c][i] \in Nat /\ got[d][j] \in Nat /\ got[c][i] # got[d][j]
      BY <2>1, <2>3, GivenOnce
    <3>2. {got[c][i]} \cap {got[d][j]} = {}
      BY <3>1
    <3>3. QED
      BY <2>3, <3>1, <3>2, LinksApart DEF Values
  <2>4. QED
    BY <2>2, <2>3
<1>2. QED
  BY <1>1, Invariance, PTL

-----------------------------------------------------------------------------
(* An exhausted pool is too small.                                         *)

\* There are finitely many holders: finitely many calls, each with a sequence of
\* allocations.
LEMMA HoldersFinite == IsFiniteSet(Holders)
<1> DEFINE Of(c) == {Allocations[c][i] : i \in DOMAIN Allocations[c]}
           All == {Of(c) : c \in Callers}
<1>1. ASSUME NEW c \in Callers
      PROVE  IsFiniteSet(Of(c))
  <2>1. Allocations[c] \in Surjection(DOMAIN Allocations[c], Of(c))
    BY AllocationsShape DEF Surjection
  <2>2. IsFiniteSet(DOMAIN Allocations[c])
    <3>1. DOMAIN Allocations[c] = 1 .. Len(Allocations[c]) /\ Len(Allocations[c]) \in Int
      BY AllocationsShape
    <3>2. QED
      BY <3>1, FS_Interval
  <2> HIDE DEF Of
  <2>3. QED
    BY <2>1, <2>2, FS_Surjection
<1>2. IsFiniteSet(All)
  <2>1. [c \in Callers |-> Of(c)] \in Surjection(Callers, All)
    BY DEF Surjection
  <2> HIDE DEF All
  <2>2. QED
    BY <2>1, RequestAssumption, FS_Surjection
<1>3. Holders = UNION All
  BY DEF Holders
<1>4. \A T \in All : IsFiniteSet(T)
  BY <1>1
<1> HIDE DEF All
<1>5. QED
  BY <1>2, <1>3, <1>4, FS_UNION

\* A call that met an exhausted pool: each of its resources is of a holder other
\* than the one the call asks for, and of no two.
LEMMA ExhaustedIsShort ==
  ASSUME IInv, NEW c \in Callers, outcome[c] = "exhausted"
  PROVE  Demand(Holder(c).pool) > Cardinality(Resources[Holder(c).pool])
<1> DEFINE h == Holder(c)
           R == Resources[h.pool]
           D == {k \in Holders : k.pool = h.pool}
           Has(k, res) == \E g \in grants : g.pool = h.pool /\ g.res = res /\ g.id = Identifier(k)
           f == [res \in R |-> CHOOSE k \in D \ {h} : Has(k, res)]
<1>1. h \in Holders
  BY HolderOfStep DEF IInv, ExhaustedInv
<1>2. \A res \in R : \E k \in D \ {h} : Has(k, res)
  <2> SUFFICES ASSUME NEW res \in R PROVE \E k \in D \ {h} : Has(k, res)
    OBVIOUS
  <2>1. PICK g \in grants : g.pool = h.pool /\ g.res = res /\ g.id # Identifier(h)
    BY DEF IInv, ExhaustedInv
  <2>2. PICK k \in Holders : k.pool = g.pool /\ Identifier(k) = g.id
    BY DEF IInv, GrantsInv
  <2>3. QED
    BY <2>1, <2>2
<1>3. \A q, r \in R : \A k \in D : Has(k, q) /\ Has(k, r) => q = r
  BY DEF IInv, GrantsInv
<1>4. IsFiniteSet(D) /\ h \in D
  <2>1. D \in SUBSET Holders
    OBVIOUS
  <2>2. QED
    BY <1>1, <2>1, HoldersFinite, FS_Subset
<1>5. Demand(h.pool) = Cardinality(D)
  BY DEF Demand
<1> HIDE DEF h, R, D, Has
<1>6. \A res \in R : f[res] \in D \ {h} /\ Has(f[res], res)
  BY <1>2
<1>7. f \in [R -> D \ {h}]
  BY <1>6
<1> HIDE DEF f
<1>8. f \in Injection(R, D \ {h})
  BY <1>3, <1>6, <1>7 DEF Injection, IsInjective
<1>9. /\ IsFiniteSet(D \ {h})
      /\ Cardinality(D \ {h}) = Cardinality(D) - 1
      /\ Cardinality(D) \in Nat
  BY <1>4, FS_RemoveElement, FS_CardinalityType
<1>10. IsFiniteSet(R) /\ Cardinality(R) <= Cardinality(D \ {h})
  BY <1>8, <1>9, FS_Injection
<1>11. Cardinality(R) \in Nat
  BY <1>10, FS_CardinalityType
<1>12. Cardinality(D) > Cardinality(R)
  BY <1>9, <1>10, <1>11
<1>13. QED
  BY <1>5, <1>12 DEF R, h

\* Only a pool with fewer resources than it has devices or links to serve is ever
\* reported exhausted: no failed or repeated call uses a resource up.
THEOREM ExhaustedIfShort == Spec => []ExhaustedOnlyIfShort
<1>1. IInv => ExhaustedOnlyIfShort
  BY ExhaustedIsShort DEF ExhaustedOnlyIfShort
<1>2. QED
  BY <1>1, Invariance, PTL

-----------------------------------------------------------------------------
(* Allocation by identifier is allocation to holders.                      *)

\* A resource of its own is given to a holder that has none.
FirstGrant(h, res) ==
  /\ Held(h.pool, Identifier(h)) = {}
  /\ res \in Free(h.pool)
  /\ grants' = grants \cup {[pool |-> h.pool, id |-> Identifier(h), res |-> res]}

LEMMA GrantOrNot ==
  ASSUME IInv, [Next]_vars
  PROVE  UNCHANGED grants \/ \E h \in Holders : \E res \in Resources[h.pool] : FirstGrant(h, res)
<1>1. CASE \E c \in Callers : Allocate(c) \/ AllocateUnanswered(c)
  <2>1. PICK c \in Callers : Allocate(c) \/ AllocateUnanswered(c)
    BY <1>1
  <2>2. Holder(c) \in Holders
    BY <2>1, HolderOfStep DEF IInv, Allocate, AllocateUnanswered, Allocating
  <2>3. PICK res \in Resources[Holder(c).pool] :
          Gives(Holder(c).pool, Identifier(Holder(c)), res)
    BY <2>1 DEF Allocate, AllocateUnanswered
  <2>4. QED
    BY <2>2, <2>3 DEF Gives, FirstGrant
<1>2. QED
  BY <1>1
     DEF Next, vars, MakePool, MakerGet, MakerCreate, MakerAgain, MakerUnanswered,
         Provision, GetPoolsByName, PoolNotFound, PoolExhausted, ProvisionAgain,
         RequestFails

Served == {h \in Holders : Held(h.pool, Identifier(h)) # {}}

GrantOf(g, h) == g.pool = h.pool /\ g.id = Identifier(h)

\* What a holder owns is the resource of its one grant.
OwnedShape ==
  /\ Owned = [h \in Served |-> Owned[h]] /\ DOMAIN Owned = Served
  /\ \A h \in Holders : h \in Served <=> \E g \in grants : GrantOf(g, h)
  /\ \A h \in Served : \A g \in grants : GrantOf(g, h) => Owned[h] = g.res

LEMMA OwnedIs == IInv => OwnedShape
<1> SUFFICES ASSUME IInv PROVE OwnedShape
  OBVIOUS
<1>1. Owned = [h \in Served |-> CHOOSE res \in Held(h.pool, Identifier(h)) : TRUE]
  BY DEF Owned, Served
<1>2. \A h \in Holders : h \in Served <=> \E g \in grants : GrantOf(g, h)
  BY HeldIs DEF Served, GrantOf
<1>3. ASSUME NEW h \in Served, NEW g \in grants, GrantOf(g, h)
      PROVE  Owned[h] = g.res
  <2>1. Owned[h] \in Held(h.pool, Identifier(h))
    BY <1>1 DEF Served
  <2>2. PICK k \in grants : k.pool = h.pool /\ k.id = Identifier(h) /\ k.res = Owned[h]
    BY <2>1, HeldIs
  <2>3. QED
    BY <1>3, <2>2 DEF GrantOf, IInv, GrantsInv
<1>4. QED
  BY <1>1, <1>2, <1>3 DEF OwnedShape

LEMMA GrantsSimulated ==
  ASSUME IInv, [Next]_vars, OwnedShape, OwnedShape'
  PROVE  [Grants!Next]_Owned
<1>1. CASE UNCHANGED grants
  <2>1. Served' = Served
    BY <1>1 DEF OwnedShape, Served, Held
  <2>2. \A h \in Served : Owned'[h] = Owned[h]
    <3> SUFFICES ASSUME NEW h \in Served PROVE Owned'[h] = Owned[h]
      OBVIOUS
    <3>1. PICK g \in grants : GrantOf(g, h)
      BY DEF OwnedShape, Served
    <3>2. Owned[h] = g.res
      BY <3>1 DEF OwnedShape
    <3>3. Owned'[h] = g.res
      BY <1>1, <2>1, <3>1 DEF OwnedShape
    <3>4. QED
      BY <3>2, <3>3
  <2>3. Owned' = Owned
    BY <2>1, <2>2 DEF OwnedShape
  <2>4. QED
    BY <2>3
<1>2. ASSUME NEW h \in Holders, NEW res \in Resources[h.pool], FirstGrant(h, res)
      PROVE  Grants!Grant(h)
  <2> DEFINE new == [pool |-> h.pool, id |-> Identifier(h), res |-> res]
  <2>1. /\ grants' = grants \cup {new} /\ new.res = res
        /\ \A k \in Holders : GrantOf(new, k) <=> k = h
    BY <1>2, IdentifierIsUnique DEF FirstGrant, GrantOf
  <2>2. \A g \in grants : ~GrantOf(g, h)
    <3> SUFFICES ASSUME NEW g \in grants, GrantOf(g, h) PROVE FALSE
      OBVIOUS
    <3>1. g.res \in Held(h.pool, Identifier(h))
      BY HeldIs DEF GrantOf
    <3>2. QED
      BY <1>2, <3>1 DEF FirstGrant
  <2>3. \A g \in grants : g.res # res
    <3>1. \A g \in grants : g.pool = h.pool => g.res # res
      BY <1>2, FreeIs DEF FirstGrant
    <3>2. \A g \in grants : g.pool \in Pools /\ g.res \in Resources[g.pool]
      BY GrantShape DEF IInv
    <3>3. h.pool \in Pools
      BY HolderShape, AskedShape
    <3>4. QED
      BY <3>1, <3>2, <3>3, PoolAssumption
  <2> HIDE DEF new
  <2>4. \A k \in Holders : k \in Served' <=> k \in Served \/ k = h
    BY <2>1 DEF OwnedShape, GrantOf
  <2>5. Served' = Served \cup {h} /\ h \notin Served
    BY <2>2, <2>4 DEF OwnedShape, Served
  <2>6. Owned'[h] = res /\ \A k \in Served : Owned'[k] = Owned[k] /\ Owned[k] # res
    <3>1. new \in grants' /\ h \in Served' /\ GrantOf(new, h)
      BY <2>1, <2>5
    <3>2. Owned'[h] = new.res
      BY <3>1 DEF OwnedShape
    <3>3. ASSUME NEW k \in Served
          PROVE  Owned'[k] = Owned[k] /\ Owned[k] # res
      <4>1. PICK g \in grants : GrantOf(g, k)
        BY DEF OwnedShape, Served
      <4>2. g \in grants' /\ k \in Served'
        BY <2>1, <2>5
      <4>3. Owned[k] = g.res
        BY <4>1 DEF OwnedShape
      <4>4. Owned'[k] = g.res
        BY <4>1, <4>2 DEF OwnedShape
      <4>5. QED
        BY <2>3, <4>3, <4>4
    <3>4. QED
      BY <2>1, <3>2, <3>3
  <2>7. Owned' = [x \in Served \cup {h} |-> IF x = h THEN res ELSE Owned[x]]
    BY <2>5, <2>6 DEF OwnedShape
  <2>8. QED
    BY <2>5, <2>6, <2>7 DEF Grants!Grant, OwnedShape, ResourcesOf
<1>3. QED
  BY <1>1, <1>2, GrantOrNot DEF Grants!Next

\* The server's grants implement an allocator: every holder owns what it was given
\* for ever, and no resource is given to two.
THEOREM GrantsImplemented == Spec => ImplementsGrants
<1>1. IInv /\ Init => Grants!Init
  <2> SUFFICES ASSUME Init PROVE Owned = [h \in {} |-> h]
    BY DEF Grants!Init
  <2>1. \A h \in Holders : Held(h.pool, Identifier(h)) = {}
    BY DEF Init, Held
  <2>2. QED
    BY <2>1 DEF Owned
<1>2. IInv /\ OwnedShape /\ OwnedShape' /\ [Next]_vars => [Grants!Next]_Owned
  BY GrantsSimulated
<1>3. QED
  BY <1>1, <1>2, Initially, Invariance, OwnedIs, PTL
     DEF Spec, ImplementsGrants, Grants!Spec

-----------------------------------------------------------------------------
(* Population: the kinds.                                                  *)

\* The kinds by their places in the order of creation.
LEMMA KindsInOrder ==
  /\ DOMAIN KindOrder = 1..20
  /\ KindOrder[1] = "manufacturer" /\ KindOrder[2] = "location"
  /\ KindOrder[3] = "platform" /\ KindOrder[4] = "device_type"
  /\ KindOrder[5] = "autonomous_system" /\ KindOrder[6] = "namespace"
  /\ KindOrder[7] = "vrf" /\ KindOrder[8] = "device" /\ KindOrder[9] = "prefix"
  /\ KindOrder[10] = "prefix_pool" /\ KindOrder[11] = "address_pool"
  /\ KindOrder[12] = "number_pool" /\ KindOrder[13] = "ip_address"
  /\ KindOrder[14] = "interface" /\ KindOrder[15] = "bgp_session"
  /\ KindOrder[16] = "service" /\ KindOrder[17] = "endpoint"
  /\ KindOrder[18] = "intent" /\ KindOrder[19] = "binding"
  /\ KindOrder[20] = "rule_set"
<1>1. DOMAIN KindOrder = 1..20
  BY DEF KindOrder, InventoryOrder, PoolOrder, AddressingOrder, IntentOrder
<1>2. /\ KindOrder[1] = "manufacturer" /\ KindOrder[2] = "location"
      /\ KindOrder[3] = "platform" /\ KindOrder[4] = "device_type"
      /\ KindOrder[5] = "autonomous_system" /\ KindOrder[6] = "namespace"
      /\ KindOrder[7] = "vrf" /\ KindOrder[8] = "device" /\ KindOrder[9] = "prefix"
  BY DEF KindOrder, InventoryOrder, PoolOrder, AddressingOrder, IntentOrder
<1>3. /\ KindOrder[10] = "prefix_pool" /\ KindOrder[11] = "address_pool"
      /\ KindOrder[12] = "number_pool" /\ KindOrder[13] = "ip_address"
  BY DEF KindOrder, InventoryOrder, PoolOrder, AddressingOrder, IntentOrder
<1>4. /\ KindOrder[14] = "interface" /\ KindOrder[15] = "bgp_session"
      /\ KindOrder[16] = "service" /\ KindOrder[17] = "endpoint"
      /\ KindOrder[18] = "intent" /\ KindOrder[19] = "binding"
      /\ KindOrder[20] = "rule_set"
  BY DEF KindOrder, InventoryOrder, PoolOrder, AddressingOrder, IntentOrder
<1>5. QED
  BY <1>1, <1>2, <1>3, <1>4

LEMMA KindsAre ==
  Kinds = {"manufacturer", "location", "platform", "device_type", "autonomous_system",
           "namespace", "vrf", "device", "prefix", "prefix_pool", "address_pool",
           "number_pool", "ip_address", "interface", "bgp_session", "service",
           "endpoint", "intent", "binding", "rule_set"}
<1>1. Kinds = {KindOrder[n] : n \in 1..20}
  BY KindsInOrder DEF Kinds, Range
<1>2. QED
  BY <1>1, KindsInOrder

\* A kind has one place.
LEMMA RankIs ==
  ASSUME NEW n \in 1..20
  PROVE  KindOrder[n] \in Kinds /\ Rank[KindOrder[n]] = n
<1>1. KindOrder[n] \in Kinds
  BY KindsInOrder DEF Kinds, Range
<1>2. ASSUME NEW m \in 1..20, KindOrder[m] = KindOrder[n]
      PROVE  m = n
  BY <1>2, KindsInOrder
<1>3. Rank[KindOrder[n]] = CHOOSE m \in 1..20 : KindOrder[m] = KindOrder[n]
  BY <1>1, KindsInOrder DEF Rank
<1>4. QED
  BY <1>1, <1>2, <1>3

LEMMA RankType ==
  ASSUME NEW kind \in Kinds
  PROVE  Rank[kind] \in 1..20 /\ KindOrder[Rank[kind]] = kind
<1>1. PICK n \in 1..20 : kind = KindOrder[n]
  BY KindsInOrder DEF Kinds, Range
<1>2. QED
  BY <1>1, RankIs

LEMMA Ranks ==
  /\ Rank["manufacturer"] = 1 /\ Rank["location"] = 2 /\ Rank["platform"] = 3
  /\ Rank["device_type"] = 4 /\ Rank["autonomous_system"] = 5
  /\ Rank["namespace"] = 6 /\ Rank["vrf"] = 7 /\ Rank["device"] = 8
  /\ Rank["prefix"] = 9 /\ Rank["prefix_pool"] = 10 /\ Rank["address_pool"] = 11
  /\ Rank["number_pool"] = 12 /\ Rank["ip_address"] = 13 /\ Rank["interface"] = 14
  /\ Rank["bgp_session"] = 15 /\ Rank["service"] = 16 /\ Rank["endpoint"] = 17
  /\ Rank["intent"] = 18 /\ Rank["binding"] = 19 /\ Rank["rule_set"] = 20
BY RankIs, KindsInOrder

LEMMA RefKindsAre ==
  /\ \A kind \in {"manufacturer", "location", "namespace", "number_pool", "service"} :
       RefKinds[kind] = {}
  /\ RefKinds["platform"] = {"manufacturer"}
  /\ RefKinds["device_type"] = {"manufacturer", "platform"}
  /\ RefKinds["autonomous_system"] = {"manufacturer"}
  /\ RefKinds["vrf"] = {"namespace"} /\ RefKinds["prefix"] = {"namespace"}
  /\ RefKinds["device"] = {"location", "platform", "device_type", "autonomous_system"}
  /\ RefKinds["prefix_pool"] = {"prefix"}
  /\ RefKinds["address_pool"] = {"prefix", "prefix_pool"}
  /\ RefKinds["ip_address"] = {"namespace"}
  /\ RefKinds["interface"] = {"device", "ip_address"}
  /\ RefKinds["bgp_session"] = {"device", "autonomous_system", "ip_address", "vrf"}
  /\ RefKinds["endpoint"] = {"service"} /\ RefKinds["intent"] = {"endpoint"}
  /\ RefKinds["binding"] = {"intent", "device"} /\ RefKinds["rule_set"] = {"binding"}
<1> DEFINE OfInventory == {"manufacturer", "location", "platform", "device_type",
                           "autonomous_system", "namespace", "vrf"}
           OfPools == {"prefix_pool", "address_pool", "number_pool"}
           OfIntent == {"service", "endpoint", "intent", "binding", "rule_set"}
<1>1. /\ DOMAIN InventoryRefs = OfInventory /\ DOMAIN PrefixRefs = {"prefix"}
      /\ DOMAIN DeviceRefs = {"device"} /\ DOMAIN PoolRefs = OfPools
      /\ DOMAIN AddressingRefs = {"ip_address", "interface"}
      /\ DOMAIN SessionRefs = {"bgp_session"} /\ DOMAIN IntentRefs = OfIntent
  BY DEF InventoryRefs, PrefixRefs, DeviceRefs, PoolRefs, AddressingRefs, SessionRefs, IntentRefs
<1>2. \A k \in OfInventory : RefKinds[k] = InventoryRefs[k]
  BY <1>1, KindsAre DEF RefKinds
<1>3. RefKinds["prefix"] = PrefixRefs["prefix"] /\ RefKinds["device"] = DeviceRefs["device"]
  BY <1>1, KindsAre DEF RefKinds
<1>4. \A k \in OfPools : RefKinds[k] = PoolRefs[k]
  BY <1>1, KindsAre DEF RefKinds
<1>5. /\ RefKinds["interface"] = AddressingRefs["interface"]
      /\ RefKinds["ip_address"] = AddressingRefs["ip_address"]
      /\ RefKinds["bgp_session"] = SessionRefs["bgp_session"]
  BY <1>1, KindsAre DEF RefKinds
<1>6. \A k \in OfIntent : RefKinds[k] = IntentRefs[k]
  BY <1>1, KindsAre DEF RefKinds
<1> HIDE DEF OfInventory, OfPools, OfIntent
<1>7. QED
  BY <1>2, <1>3, <1>4, <1>5, <1>6
     DEF OfInventory, OfPools, OfIntent, InventoryRefs, PrefixRefs, DeviceRefs, PoolRefs, AddressingRefs,
         SessionRefs, IntentRefs

\* What an object refers to is of an earlier kind, of a kind that is not made
\* only with pools unless the object is, and whose entries are required.
LEMMA RefsFirst ==
  ASSUME NEW kind \in Kinds, NEW ref \in RefKinds[kind]
  PROVE  /\ ref \in Kinds /\ Rank[ref] < Rank[kind]
         /\ ref \in PoolKinds => kind \in PoolKinds
         /\ ref \notin {"interface", "bgp_session", "address_pool", "number_pool", "rule_set"}
BY KindsAre, RefKindsAre, Ranks DEF PoolKinds

-----------------------------------------------------------------------------
(* Population: the seed.                                                   *)

LEMMA PlaceIs ==
  ASSUME NEW i \in DOMAIN Seed
  PROVE  /\ i \in Nat /\ i # 0
         /\ Seed[i] \in Items /\ Seed[i] \in Entry /\ EntryAt[i] = Seed[i]
         /\ Seed[i].kind \in Kinds /\ Seed[i].key \in Keys
         /\ Seed[i].refs \subseteq STRING
<1>1. Seed \in Seq(Entry)
  BY SeedAssumption
<1>2. i \in 1 .. Len(Seed) /\ Seed[i] \in Entry
  BY <1>1
<1>3. Seed[i] \in Items
  BY DEF Items, Range
<1>4. QED
  BY <1>2, <1>3 DEF EntryAt, Entry, Keys

LEMMA ItemIs ==
  ASSUME NEW i \in Items
  PROVE  /\ i.key \in Keys /\ i.kind \in Kinds
         /\ EntryOf[i.key] = i /\ KindOf[i.key] = i.kind
         /\ \E n \in DOMAIN Seed : Seed[n] = i
<1>1. PICK n \in DOMAIN Seed : Seed[n] = i
  BY DEF Items, Range
<1>2. i.key \in Keys /\ i.kind \in Kinds
  BY <1>1, PlaceIs
<1>3. EntryOf[i.key] = i
  BY <1>2, SeedAssumption DEF EntryOf
<1>4. QED
  BY <1>1, <1>2, <1>3 DEF KindOf

LEMMA KeyIs ==
  ASSUME NEW k \in Keys
  PROVE  /\ EntryOf[k] \in Items /\ EntryOf[k].key = k
         /\ KindOf[k] = EntryOf[k].kind /\ KindOf[k] \in Kinds
<1>1. PICK i \in Items : i.key = k
  BY DEF Keys
<1>2. QED
  BY <1>1, ItemIs

LEMMA NamedIs ==
  ASSUME NEW i \in Items, NEW k \in Named(i) \cap Keys
  PROVE  KindOf[k] \in RefKinds[i.kind]
BY SeedAssumption

-----------------------------------------------------------------------------
(* The order of a run.                                                     *)

LEMMA BeforeIsOrder ==
  ASSUME NEW i \in DOMAIN Seed, NEW j \in DOMAIN Seed, NEW k \in DOMAIN Seed
  PROVE  /\ ~Before(i, i)
         /\ Before(i, j) /\ Before(j, k) => Before(i, k)
         /\ i = j \/ Before(i, j) \/ Before(j, i)
<1>1. i \in Nat /\ j \in Nat /\ k \in Nat
  BY PlaceIs
<1>2. /\ Rank[Seed[i].kind] \in Nat /\ Rank[Seed[j].kind] \in Nat
      /\ Rank[Seed[k].kind] \in Nat
      /\ Rank[Seed[i].kind] = Rank[Seed[j].kind] => Seed[i].kind = Seed[j].kind
  BY PlaceIs, RankType
<1>3. QED
  BY <1>1, <1>2 DEF Before

\* Entries have an earliest one: the sets of the entries before each of them,
\* which are finite, have a smallest, and it is empty.
LEMMA EarliestIs ==
  ASSUME NEW S \in SUBSET DOMAIN Seed, S # {}
  PROVE  /\ Earliest(S) \in S
         /\ \A j \in S : j = Earliest(S) \/ Before(Earliest(S), j)
         /\ \A j \in S : ~Before(j, Earliest(S))
<1> DEFINE Earlier(i) == {j \in S : Before(j, i)}
           All == {Earlier(i) : i \in S}
           Smaller == StrictSubsetOrdering(S)
<1>1. IsFiniteSet(S)
  <2>1. DOMAIN Seed = 1 .. Len(Seed) /\ Len(Seed) \in Nat
    BY SeedAssumption
  <2>2. IsFiniteSet(1 .. Len(Seed))
    BY <2>1, FS_Interval
  <2>3. QED
    BY <2>1, <2>2, FS_Subset
<1>2. PICK T \in All : \A U \in All : ~(<<U, T>> \in Smaller)
  <2>1. IsWellFoundedOn(Smaller, FiniteSubsetsOf(S))
    BY <1>1, FS_StrictSubsetOrderingWellFounded
  <2>2. All \subseteq FiniteSubsetsOf(S)
    BY <1>1, FS_Subset DEF FiniteSubsetsOf
  <2>3. All # {}
    OBVIOUS
  <2> HIDE DEF All, Smaller
  <2>4. QED
    BY <2>1, <2>2, <2>3, WFMin, Zenon
<1>3. PICK i \in S : T = Earlier(i)
  OBVIOUS
<1>4. ASSUME NEW j \in S
      PROVE  ~Before(j, i)
  <2> SUFFICES ASSUME Before(j, i) PROVE FALSE
    OBVIOUS
  <2>1. Earlier(j) \subseteq Earlier(i) /\ j \in Earlier(i) /\ j \notin Earlier(j)
    BY BeforeIsOrder
  <2>2. Earlier(j) \in SUBSET S /\ Earlier(i) \in SUBSET S /\ Earlier(j) # Earlier(i)
    BY <2>1
  <2>3. <<Earlier(j), Earlier(i)>> \in Smaller
    BY <2>1, <2>2 DEF StrictSubsetOrdering
  <2>4. QED
    BY <1>2, <1>3, <2>3
<1>5. \A j \in S \ {i} : Before(i, j)
  BY <1>4, BeforeIsOrder
<1>6. /\ Earliest(S) \in S
      /\ \A j \in S \ {Earliest(S)} : Before(Earliest(S), j)
  BY <1>5, Zenon DEF Earliest
<1>7. QED
  BY <1>6, BeforeIsOrder

LEMMA TurnsAre ==
  ASSUME NEW r \in Populators
  PROVE  Turns(r) \subseteq DOMAIN Seed /\ Turns(r) # {}
<1>1. PICK i \in Items : i.kind = "manufacturer"
  BY SeedAssumption
<1>2. PICK n \in DOMAIN Seed : Seed[n] = i
  BY ItemIs
<1>3. n \in Turns(r)
  BY <1>1, <1>2 DEF Turns, PoolKinds
<1>4. QED
  BY <1>3 DEF Turns

LEMMA FirstIs ==
  ASSUME NEW r \in Populators
  PROVE  First[r] \in Turns(r) /\ \A j \in Turns(r) : ~Before(j, First[r])
BY TurnsAre, EarliestIs DEF First

\* What follows an entry, and that nothing is passed over.
LEMMA FollowingIs ==
  ASSUME NEW r \in Populators, NEW i \in Turns(r)
  PROVE  /\ Following[r][i] = 0 => \A j \in Turns(r) : j = i \/ Before(j, i)
         /\ Following[r][i] # 0 =>
              /\ Following[r][i] \in Turns(r)
              /\ \A j \in Turns(r) : Before(j, Following[r][i]) => j = i \/ Before(j, i)
<1>1. i \in DOMAIN Seed /\ After(r, i) \subseteq DOMAIN Seed /\ After(r, i) \subseteq Turns(r)
  BY TurnsAre DEF After
<1>2. Following[r][i] = IF After(r, i) = {} THEN 0 ELSE Earliest(After(r, i))
  BY <1>1 DEF Following
<1>3. CASE After(r, i) = {}
  <2>1. \A j \in Turns(r) : ~Before(i, j)
    BY <1>3 DEF After
  <2>2. QED
    BY <1>1, <1>2, <1>3, <2>1, TurnsAre, BeforeIsOrder
<1>4. CASE After(r, i) # {}
  <2> DEFINE n == Earliest(After(r, i))
  <2>1. n \in After(r, i) /\ \A j \in After(r, i) : ~Before(j, n)
    BY <1>1, <1>4, EarliestIs
  <2>2. Following[r][i] = n /\ n \in Turns(r) /\ n # 0
    BY <1>1, <1>2, <1>4, <2>1, PlaceIs
  <2>3. ASSUME NEW j \in Turns(r), Before(j, n)
        PROVE  j = i \/ Before(j, i)
    <3>1. ~Before(i, j)
      BY <2>1, <2>3 DEF After
    <3>2. QED
      BY <1>1, <3>1, TurnsAre, BeforeIsOrder
  <2> HIDE DEF n
  <2>4. QED
    BY <2>2, <2>3
<1>5. QED
  BY <1>3, <1>4

\* What an entry names is handled before it, by the same run.
LEMMA NamedIsEarlier ==
  ASSUME NEW r \in Populators, NEW i \in Turns(r), NEW k \in Named(Seed[i]) \cap Keys
  PROVE  \E j \in Turns(r) : Before(j, i) /\ Seed[j] = EntryOf[k]
<1>1. i \in DOMAIN Seed /\ Seed[i] \in Items
  BY TurnsAre, PlaceIs
<1>2. PICK j \in DOMAIN Seed : Seed[j] = EntryOf[k]
  BY KeyIs, ItemIs
<1>3. Seed[j].kind = KindOf[k]
  BY <1>2, KeyIs
<1>4. KindOf[k] \in RefKinds[Seed[i].kind] /\ Seed[i].kind \in Kinds
  BY <1>1, NamedIs, PlaceIs
<1>5. /\ Rank[KindOf[k]] < Rank[Seed[i].kind]
      /\ KindOf[k] \in PoolKinds => Seed[i].kind \in PoolKinds
  BY <1>4, RefsFirst
<1>6. Before(j, i)
  BY <1>3, <1>5 DEF Before
<1>7. j \in Turns(r)
  BY <1>2, <1>3, <1>5 DEF Turns
<1>8. QED
  BY <1>2, <1>6, <1>7

\* What an entry names is an orphan, or every run that handles it creates it.
LEMMA NamedIsNotDropped ==
  ASSUME NEW i \in Items, NEW k \in Named(i) \cap Keys, k \notin OrphanKeys
  PROVE  EntryOf[k] \notin Dropped /\ EntryOf[k].kind \notin Tolerant
<1> DEFINE e == EntryOf[k]
<1>1. e \in Items /\ e.key = k /\ e.kind \in RefKinds[i.kind] /\ i.kind \in Kinds
  BY KeyIs, NamedIs, ItemIs
<1> HIDE DEF e
<1>2. e.kind \notin {"interface", "bgp_session", "address_pool", "number_pool", "rule_set"}
  BY <1>1, RefsFirst
<1>3. e \notin Orphans
  BY <1>1 DEF OrphanKeys
<1>4. e.owner \notin OrphanKeys
  <2> SUFFICES ASSUME e.owner \in OrphanKeys PROVE FALSE
    OBVIOUS
  <2>1. PICK o \in Orphans : o.key = e.owner
    BY DEF OrphanKeys
  <2>2. o \in Items /\ o.key \in Keys /\ KindOf[o.key] = o.kind
    BY <2>1, ItemIs DEF Orphans
  <2>3. e.owner # NoOwner
    BY <2>1, <2>2, SeedAssumption
  <2>4. e.kind \in DOMAIN OwnerKind /\ KindOf[e.owner] = OwnerKind[e.kind]
    BY <1>1, <2>1, <2>2, <2>3, SeedAssumption
  <2>5. o.kind = "device"
    BY <1>2, <2>1, <2>2, <2>4 DEF OwnerKind
  <2>6. o.owner = NoOwner
    <3>1. "device" \notin DOMAIN OwnerKind
      BY DEF OwnerKind
    <3>2. QED
      BY <2>2, <2>5, <3>1, SeedAssumption
  <2>7. QED
    BY <2>1, <2>5, <2>6 DEF Orphans
<1>5. QED
  BY <1>2, <1>3, <1>4 DEF e, Dropped, Tolerant

-----------------------------------------------------------------------------
(* Population: the invariant.                                              *)

Ids == {Id(o) : o \in store}

\* A run is at an entry of its own.
PlaceInv == \A r \in Populators : pos[r] \in Turns(r)

\* A loader leaves no batch behind.
LoaderInv ==
  \A l \in Loaders : \A b \in Batches : b < loader[l] => b \in schema \cup EmptyBatches

\* Objects are never deleted: an ID stays the ID of an object.
KnownInv ==
  \A r \in Populators : \A k \in Keys : known[r][k] # 0 => <<k, known[r][k]>> \in Ids

Handled(r) == {i \in Turns(r) : pc[r] = "done" \/ Before(i, pos[r])}

\* A run holds the IDs of all it has handled, but for what it may pass over.
HandledInv ==
  \A r \in Populators : \A i \in Handled(r) :
    Seed[i] \in Dropped \/ Seed[i].kind \in Tolerant \/ known[r][Seed[i].key] # 0

\* What is created was not to be skipped.
CreateInv == \A r \in Populators : pc[r] = "create" => ~Skipped(r, Item(r))

StoreInv ==
  /\ IsFiniteSet(store)
  /\ \A o \in store : o.key \notin OrphanKeys /\ o.nth # 0

\* The objects that a query for a key finds, for an interface those of the nth
\* device, and the runs about to create one more, having found none.
Found(k, n) ==
  {o \in Having(k) : KindOf[k] = "interface" => <<EntryOf[k].owner, n>> \in o.refs}

Creating(k, n) ==
  {r \in Populators :
     /\ pc[r] = "create"
     /\ Item(r).key = k
     /\ KindOf[k] = "interface" => known[r][EntryOf[k].owner] = n}

CopiesInv ==
  /\ \A k \in Keys : KindOf[k] \in Unique => Cardinality(Having(k)) <= 1
  /\ \A k \in Keys : \A n \in Nat :
       Cardinality(Found(k, n)) + Cardinality(Creating(k, n)) <= Cardinality(Populators)

SoTInv ==
  /\ SoTTypeOK /\ PlaceInv /\ LoaderInv /\ KnownInv /\ HandledInv /\ CreateInv
  /\ StoreInv /\ ReferencesAsSeeded /\ CopiesInv

-----------------------------------------------------------------------------
(* What a run knows, and what a step changes.                              *)

LEMMA ItemType ==
  ASSUME PlaceInv, NEW r \in Populators
  PROVE  /\ pos[r] \in Turns(r) /\ pos[r] \in DOMAIN Seed
         /\ Item(r) = Seed[pos[r]] /\ Item(r) \in Items /\ Item(r) \in Entry
         /\ Item(r).key \in Keys /\ Item(r).kind \in Kinds
         /\ EntryOf[Item(r).key] = Item(r) /\ KindOf[Item(r).key] = Item(r).kind
BY TurnsAre, PlaceIs, ItemIs DEF PlaceInv, Item

LEMMA OwnerIs ==
  ASSUME NEW i \in Items, i.owner # NoOwner
  PROVE  /\ i.owner \in Named(i) /\ i.kind \in {"interface", "binding", "rule_set"}
         /\ i.kind # "rule_set" /\ i.owner \in Keys => KindOf[i.owner] = "device"
<1>1. i.kind \in DOMAIN OwnerKind
  BY SeedAssumption
<1>2. DOMAIN OwnerKind = {"interface", "binding", "rule_set"}
  BY DEF OwnerKind
<1>3. i.kind # "rule_set" => OwnerKind[i.kind] = "device"
  BY <1>1, <1>2 DEF OwnerKind
<1>4. QED
  BY <1>1, <1>2, <1>3, SeedAssumption DEF Named

\* A run knows what its entry names, but for orphans.
LEMMA Known ==
  ASSUME SoTInv, NEW r \in Populators, pc[r] # "done"
  PROVE  \A k \in Named(Item(r)) : Knows(r, k) <=> k \in Keys /\ k \notin OrphanKeys
<1> SUFFICES ASSUME NEW k \in Named(Item(r)), k \in Keys
             PROVE  known[r][k] # 0 <=> k \notin OrphanKeys
  BY DEF Knows
<1>1. ASSUME k \notin OrphanKeys
      PROVE  known[r][k] # 0
  <2>1. /\ pos[r] \in Turns(r) /\ Item(r) = Seed[pos[r]] /\ Item(r) \in Items
        /\ k \in Named(Seed[pos[r]]) \cap Keys
    BY ItemType DEF SoTInv
  <2>2. PICK j \in Turns(r) : Before(j, pos[r]) /\ Seed[j] = EntryOf[k]
    BY <2>1, NamedIsEarlier
  <2>3. Seed[j] \notin Dropped /\ Seed[j].kind \notin Tolerant /\ Seed[j].key = k
    BY <1>1, <2>1, <2>2, NamedIsNotDropped, KeyIs
  <2>4. j \in Handled(r)
    BY <2>2 DEF Handled
  <2>5. QED
    BY <2>3, <2>4 DEF SoTInv, HandledInv
<1>2. ASSUME known[r][k] # 0
      PROVE  k \notin OrphanKeys
  <2>1. PICK o \in store : Id(o) = <<k, known[r][k]>>
    BY <1>2 DEF SoTInv, KnownInv, Ids
  <2>2. o.key = k
    BY <2>1 DEF Id
  <2>3. QED
    BY <2>2 DEF SoTInv, StoreInv
<1>3. QED
  BY <1>1, <1>2

\* What the new object refers to.
LEMMA ReferencesAre ==
  ASSUME SoTInv, NEW r \in Populators, pc[r] # "done"
  PROVE  /\ {id[1] : id \in References(r, Item(r))} = Intended[Item(r).key]
         /\ References(r, Item(r)) = {<<k, known[r][k]>> : k \in Intended[Item(r).key]}
         /\ References(r, Item(r)) \subseteq Ids \cap (Keys \X Nat)
<1> DEFINE K == {k \in Named(Item(r)) : Knows(r, k)}
<1>1. K = (Named(Item(r)) \cap Keys) \ OrphanKeys
  BY Known
<1>2. Intended[Item(r).key] = (Named(Item(r)) \cap Keys) \ OrphanKeys
  BY ItemType DEF Intended, SoTInv
<1>3. References(r, Item(r)) = {<<k, known[r][k]>> : k \in K}
  BY DEF References
<1>4. \A k \in K : <<k, known[r][k]>> \in Ids /\ k \in Keys /\ known[r][k] \in Nat
  BY DEF SoTInv, KnownInv, SoTTypeOK, Knows
<1> HIDE DEF K
<1>5. {id[1] : id \in {<<k, known[r][k]>> : k \in K}} = K
  <2> DEFINE R == {<<k, known[r][k]>> : k \in K}
  <2>1. ASSUME NEW k \in K PROVE \E id \in R : id[1] = k
    <3>1. <<k, known[r][k]>> \in R /\ <<k, known[r][k]>>[1] = k
      OBVIOUS
    <3>2. QED
      BY <3>1
  <2>2. ASSUME NEW id \in R PROVE id[1] \in K
    OBVIOUS
  <2> HIDE DEF R
  <2>3. {id[1] : id \in R} = K
    BY <2>1, <2>2
  <2>4. QED
    BY <2>3 DEF R
<1>6. QED
  BY <1>1, <1>2, <1>3, <1>4, <1>5

\* What is skipped is known or dropped, and an orphan is skipped.
LEMMA SkippedIs ==
  ASSUME SoTInv, NEW r \in Populators, pc[r] # "done"
  PROVE  /\ Skipped(r, Item(r)) => Item(r) \in Dropped \/ known[r][Item(r).key] # 0
         /\ Item(r).key \in OrphanKeys => Skipped(r, Item(r))
<1> DEFINE i == Item(r)
<1>1. i \in Items /\ i.key \in Keys /\ EntryOf[i.key] = i /\ KindOf[i.key] = i.kind
  BY ItemType DEF SoTInv, i
<1>2. \A k \in Named(i) : Knows(r, k) <=> k \in Keys /\ k \notin OrphanKeys
  BY Known DEF i
<1>3. References(r, i) = {} <=> Named(i) \cap Keys \subseteq OrphanKeys
  <2>1. Intended[i.key] = (Named(i) \cap Keys) \ OrphanKeys
    BY <1>1 DEF Intended
  <2>2. References(r, i) = {<<k, known[r][k]>> : k \in Intended[i.key]}
    BY ReferencesAre DEF i
  <2>3. QED
    BY <2>1, <2>2
<1>4. i.owner # NoOwner => i.owner \in Named(i)
  BY <1>1, OwnerIs
<1> HIDE DEF i
<1>5. i.kind = "prefix_pool" => \A k \in Named(i) \cap Keys : k \notin OrphanKeys
  <2> SUFFICES ASSUME i.kind = "prefix_pool", NEW k \in Named(i) \cap Keys, k \in OrphanKeys
               PROVE  FALSE
    OBVIOUS
  <2>1. PICK o \in Orphans : o.key = k
    BY DEF OrphanKeys
  <2>2. o \in Items /\ KindOf[k] = o.kind
    BY <2>1, ItemIs DEF Orphans
  <2>3. o.kind = "prefix"
    BY <1>1, <2>2, NamedIs, RefKindsAre
  <2>4. o.owner = NoOwner
    BY <2>2, <2>3, OwnerIs
  <2>5. QED
    BY <2>1, <2>3, <2>4 DEF Orphans
<1>6. ASSUME Skipped(r, i)
      PROVE  i \in Dropped \/ known[r][i.key] # 0
  <2>1. CASE i.kind = "ip_address" /\ Knows(r, i.key)
    BY <2>1 DEF Knows
  <2>2. CASE i.owner # NoOwner /\ ~Knows(r, i.owner)
    BY <1>1, <1>2, <1>4, <2>2 DEF Dropped, Orphans
  <2>3. CASE i.kind \in {"prefix_pool", "address_pool"} /\ References(r, i) = {}
    <3>1. Named(i) \cap Keys \subseteq OrphanKeys
      BY <1>3, <2>3
    <3>2. CASE i.kind = "address_pool"
      BY <1>1, <3>1, <3>2 DEF Dropped
    <3>3. CASE i.kind = "prefix_pool"
      BY <1>1, <1>5, <3>1, <3>3 DEF Dropped, Orphans
    <3>4. QED
      BY <2>3, <3>2, <3>3
  <2>4. QED
    BY <1>6, <2>1, <2>2, <2>3 DEF Skipped
<1>7. ASSUME i.key \in OrphanKeys
      PROVE  Skipped(r, i)
  <2>1. i \in Orphans
    <3>1. PICK o \in Orphans : o.key = i.key
      BY <1>7 DEF OrphanKeys
    <3>2. QED
      BY <1>1, <3>1, ItemIs DEF Orphans
  <2>2. CASE i.owner # NoOwner /\ i.owner \notin Keys
    BY <2>2 DEF Skipped, Knows
  <2>3. CASE i.kind = "prefix_pool" /\ Named(i) \cap Keys = {}
    BY <1>3, <2>3 DEF Skipped
  <2>4. QED
    BY <2>1, <2>2, <2>3 DEF Orphans
<1>8. QED
  BY <1>6, <1>7 DEF i

-----------------------------------------------------------------------------
(* The steps by their effect on the runs and on the store.                 *)

\* A run goes on, with the ID n for the entry it was at or with none.
Passes(r) ==
  /\ Advance(r, 0)
  /\ Item(r) \in Dropped \/ Item(r).kind \in Tolerant \/ known[r][Item(r).key] # 0
  /\ UNCHANGED store

Finds(r) ==
  /\ \E o \in Having(Item(r).key) : Advance(r, o.nth)
  /\ UNCHANGED store

Makes(r) ==
  /\ pc[r] = "create"
  /\ ~Conflicts(Item(r))
  /\ store' = store \cup {NewObject(r)}
  /\ Advance(r, NewObject(r).nth) \/ Reset(r, "failed")

Asks(r) ==
  /\ pc[r] \in {"next", "resolved"}
  /\ ~Skipped(r, Item(r))
  /\ Matches(r, Item(r)) = {}
  /\ pc' = [pc EXCEPT ![r] = "create"]
  /\ UNCHANGED <<store, pos, known>>

Resolves(r) ==
  /\ \E k \in PoolsNamed(Item(r)) :
       \E n \in IF Having(k) = {} THEN {0} ELSE {o.nth : o \in Having(k)} :
         known' = [known EXCEPT ![r][k] = n]
  /\ pc' = [pc EXCEPT ![r] = "resolved"]
  /\ UNCHANGED <<store, pos>>

Starts(r) == (\E to \in {"next", "failed"} : Reset(r, to)) /\ UNCHANGED store

RunGoes(r) ==
  \/ pc[r] \in {"next", "resolved", "create"}
     /\ (Passes(r) \/ Finds(r) \/ Makes(r) \/ Asks(r) \/ Resolves(r))
  \/ Starts(r)

LEMMA PopulatorStep ==
  ASSUME SoTInv, [SoTNext]_sotVars
  PROVE  \/ UNCHANGED <<store, pc, pos, known>>
         \/ \E r \in Populators : RunGoes(r) /\ UNCHANGED <<schema, loader>>
<1>1. CASE UNCHANGED sotVars
  BY <1>1 DEF sotVars
<1>2. ASSUME NEW l \in Loaders, Load(l) \/ LoadFails(l) \/ LoadAgain(l, Successful)
      PROVE  UNCHANGED <<store, pc, pos, known>>
  BY <1>2 DEF Load, LoadBatch, LoadFails, LoadAgain
<1>3. ASSUME NEW r \in Populators, ResolvePool(r)
      PROVE  RunGoes(r) /\ UNCHANGED <<schema, loader>>
  BY <1>3 DEF ResolvePool, Working, RunGoes, Resolves
<1>4. ASSUME NEW r \in Populators, Skip(r)
      PROVE  RunGoes(r) /\ UNCHANGED <<schema, loader>>
  <2>1. Item(r) \in Dropped \/ known[r][Item(r).key] # 0
    BY <1>4, SkippedIs DEF Skip, Working
  <2>2. QED
    BY <1>4, <2>1 DEF Skip, Working, RunGoes, Passes
<1>5. ASSUME NEW r \in Populators, Query(r)
      PROVE  RunGoes(r) /\ UNCHANGED <<schema, loader>>
  BY <1>5 DEF Query, Working, AboutToQuery, RunGoes, Finds, Asks, Matches
<1>6. ASSUME NEW r \in Populators,
             \/ QueryUnknownKind(r) \/ CreateConflicts(r) \/ Die(r)
             \/ RunAgain(r, "failed") \/ RunAgain(r, "done")
      PROVE  RunGoes(r) /\ UNCHANGED <<schema, loader>>
  BY <1>6 DEF QueryUnknownKind, CreateConflicts, Die, RunAgain, Fail, RunGoes, Starts
<1>7. ASSUME NEW r \in Populators, Create(r) \/ CreateUnanswered(r)
      PROVE  RunGoes(r) /\ UNCHANGED <<schema, loader>>
  BY <1>7 DEF Create, CreateUnanswered, Fail, RunGoes, Makes
<1>8. ASSUME NEW r \in Populators, CreateRefused(r)
      PROVE  RunGoes(r) /\ UNCHANGED <<schema, loader>>
  BY <1>8 DEF CreateRefused, Fail, RunGoes, Passes, Starts
<1>9. QED
  BY <1>1, <1>2, <1>3, <1>4, <1>5, <1>6, <1>7, <1>8 DEF SoTNext, Populate

\* The run is at what follows, or done; one ID is new at most.
LEMMA AdvanceIs ==
  ASSUME SoTInv, NEW r \in Populators, NEW n \in Nat, Advance(r, n)
  PROVE  /\ pc' \in [Populators -> {"next", "resolved", "create", "done", "failed"}]
         /\ pos' \in [Populators -> DOMAIN Seed] /\ known' \in [Populators -> [Keys -> Nat]]
         /\ \A q \in Populators \ {r} :
              pc'[q] = pc[q] /\ pos'[q] = pos[q] /\ known'[q] = known[q]
         /\ pc'[r] # "create" /\ pos'[r] \in Turns(r)
         /\ \A k \in Keys :
              known'[r][k] = IF n # 0 /\ k = Item(r).key THEN n ELSE known[r][k]
         /\ pc[r] # "done" => \A i \in Handled(r)' : i = pos[r] \/ i \in Handled(r)
<1>1. /\ pc \in [Populators -> {"next", "resolved", "create", "done", "failed"}]
      /\ pos \in [Populators -> DOMAIN Seed] /\ known \in [Populators -> [Keys -> Nat]]
      /\ pos[r] \in Turns(r) /\ Item(r).key \in Keys
  BY ItemType DEF SoTInv, SoTTypeOK
<1>2. /\ known' \in [Populators -> [Keys -> Nat]]
      /\ \A q \in Populators \ {r} : known'[q] = known[q]
      /\ \A k \in Keys :
           known'[r][k] = IF n # 0 /\ k = Item(r).key THEN n ELSE known[r][k]
  BY <1>1 DEF Advance
<1>3. CASE Following[r][pos[r]] = 0
  <2>1. pc' = [pc EXCEPT ![r] = "done"] /\ pos' = pos
    BY <1>3 DEF Advance
  <2>2. \A i \in Turns(r) : i = pos[r] \/ Before(i, pos[r])
    BY <1>1, <1>3, FollowingIs
  <2>3. QED
    BY <1>1, <1>2, <2>1, <2>2 DEF Handled
<1>4. CASE Following[r][pos[r]] # 0
  <2>1. pc' = [pc EXCEPT ![r] = "next"] /\ pos' = [pos EXCEPT ![r] = Following[r][pos[r]]]
    BY <1>4 DEF Advance
  <2>2. /\ Following[r][pos[r]] \in Turns(r) /\ Following[r][pos[r]] \in DOMAIN Seed
        /\ \A i \in Turns(r) :
             Before(i, Following[r][pos[r]]) => i = pos[r] \/ Before(i, pos[r])
    BY <1>1, <1>4, FollowingIs, TurnsAre
  <2>3. pc'[r] = "next" /\ pos'[r] = Following[r][pos[r]]
    BY <1>1, <2>1
  <2>4. \A i \in Handled(r)' : i = pos[r] \/ i \in Handled(r)
    BY <2>2, <2>3 DEF Handled
  <2>5. QED
    BY <1>1, <1>2, <2>1, <2>2, <2>3, <2>4
<1>5. QED
  BY <1>3, <1>4

\* The run is at its first entry and knows nothing.
LEMMA ResetIs ==
  ASSUME SoTInv, NEW r \in Populators, NEW to \in {"next", "failed"}, Reset(r, to)
  PROVE  /\ pc' \in [Populators -> {"next", "resolved", "create", "done", "failed"}]
         /\ pos' \in [Populators -> DOMAIN Seed] /\ known' \in [Populators -> [Keys -> Nat]]
         /\ \A q \in Populators \ {r} :
              pc'[q] = pc[q] /\ pos'[q] = pos[q] /\ known'[q] = known[q]
         /\ pc'[r] # "create" /\ pos'[r] \in Turns(r)
         /\ \A k \in Keys : known'[r][k] = 0
         /\ Handled(r)' = {}
<1>1. /\ pc \in [Populators -> {"next", "resolved", "create", "done", "failed"}]
      /\ pos \in [Populators -> DOMAIN Seed] /\ known \in [Populators -> [Keys -> Nat]]
  BY DEF SoTInv, SoTTypeOK
<1>2. First[r] \in Turns(r) /\ First[r] \in DOMAIN Seed /\ \A i \in Turns(r) : ~Before(i, First[r])
  BY FirstIs, TurnsAre
<1>3. Nothing \in [Keys -> Nat] /\ \A k \in Keys : Nothing[k] = 0
  BY DEF Nothing
<1>4. /\ pc' = [pc EXCEPT ![r] = to] /\ pos' = [pos EXCEPT ![r] = First[r]]
      /\ known' = [known EXCEPT ![r] = Nothing]
  BY DEF Reset
<1>5. Handled(r)' = {}
  BY <1>1, <1>2, <1>4 DEF Handled
<1>6. QED
  BY <1>1, <1>2, <1>3, <1>4, <1>5

\* The ID of a pool is looked up again; a pool that is known is found.
LEMMA ResolvesIs ==
  ASSUME SoTInv, NEW r \in Populators, Resolves(r), pc[r] # "done"
  PROVE  /\ pc' \in [Populators -> {"next", "resolved", "create", "done", "failed"}]
         /\ known' \in [Populators -> [Keys -> Nat]]
         /\ \A q \in Populators \ {r} : pc'[q] = pc[q] /\ known'[q] = known[q]
         /\ pc'[r] = "resolved"
         /\ \A k \in Keys : known[r][k] # 0 => known'[r][k] # 0
         /\ \A k \in Keys : known'[r][k] # 0 => <<k, known'[r][k]>> \in Ids
<1>0. PICK k \in PoolsNamed(Item(r)) :
        \E n \in IF Having(k) = {} THEN {0} ELSE {o.nth : o \in Having(k)} :
          known' = [known EXCEPT ![r][k] = n]
  BY DEF Resolves
<1>1. PICK n \in IF Having(k) = {} THEN {0} ELSE {o.nth : o \in Having(k)} :
        known' = [known EXCEPT ![r][k] = n]
  BY <1>0
<1>2. k \in Keys
  BY DEF PoolsNamed
<1>3. /\ pc \in [Populators -> {"next", "resolved", "create", "done", "failed"}]
      /\ known \in [Populators -> [Keys -> Nat]]
  BY DEF SoTInv, SoTTypeOK
<1>4. pc' = [pc EXCEPT ![r] = "resolved"]
  BY DEF Resolves
<1>5. n \in Nat /\ (n # 0 => <<k, n>> \in Ids)
  <2>1. CASE Having(k) = {}
    BY <2>1
  <2>2. CASE Having(k) # {}
    <3>1. PICK o \in Having(k) : n = o.nth
      BY <2>2
    <3>2. o \in store /\ o.key = k /\ Id(o) = <<k, n>>
      BY <3>1 DEF Having, Id
    <3>3. QED
      BY <3>1, <3>2 DEF Ids, SoTInv, SoTTypeOK
  <2>3. QED
    BY <2>1, <2>2
<1>6. known[r][k] # 0 => n # 0
  <2> SUFFICES ASSUME known[r][k] # 0 PROVE n # 0
    OBVIOUS
  <2>1. PICK o \in store : Id(o) = <<k, known[r][k]>>
    BY <1>2 DEF SoTInv, KnownInv, Ids
  <2>2. o \in Having(k)
    BY <2>1 DEF Id, Having
  <2>3. PICK p \in Having(k) : n = p.nth
    BY <2>2
  <2>4. QED
    BY <2>3 DEF Having, SoTInv, StoreInv
<1>7. known' \in [Populators -> [Keys -> Nat]]
  BY <1>1, <1>2, <1>3, <1>5
<1>8. /\ \A j \in Keys : known'[r][j] = IF j = k THEN n ELSE known[r][j]
      /\ \A q \in Populators \ {r} : known'[q] = known[q]
  BY <1>1, <1>2, <1>3
<1>9. \A j \in Keys : known[r][j] # 0 => <<j, known[r][j]>> \in Ids
  BY DEF SoTInv, KnownInv
<1>10. QED
  BY <1>3, <1>4, <1>5, <1>6, <1>7, <1>8, <1>9

LEMMA HavingIs ==
  ASSUME SoTInv, NEW k
  PROVE  /\ IsFiniteSet(Having(k)) /\ Cardinality(Having(k)) \in Nat
         /\ Having(k) \subseteq store
<1>1. Having(k) \subseteq store /\ IsFiniteSet(store)
  BY DEF Having, SoTInv, StoreInv
<1>2. QED
  BY <1>1, FS_Subset, FS_CardinalityType

LEMMA NewObjectIs ==
  ASSUME SoTInv, NEW r \in Populators, pc[r] = "create"
  PROVE  LET new == NewObject(r)
         IN /\ new.key = Item(r).key /\ new.key \in Keys /\ new.key \notin OrphanKeys
            /\ new.nth \in Nat /\ new.nth # 0
            /\ new.refs = References(r, Item(r)) /\ new.refs \subseteq Keys \X Nat
            /\ new.refs \subseteq Ids /\ {id[1] : id \in new.refs} = Intended[new.key]
<1>1. Item(r).key \in Keys /\ Item(r).key \notin OrphanKeys
  BY ItemType, SkippedIs DEF SoTInv, CreateInv
<1>2. Cardinality(Having(Item(r).key)) + 1 \in Nat \ {0}
  BY HavingIs
<1>3. QED
  BY <1>1, <1>2, ReferencesAre DEF NewObject

LEMMA StoreStep ==
  ASSUME SoTInv, [SoTNext]_sotVars
  PROVE  /\ StoreInv' /\ ReferencesAsSeeded' /\ Ids \subseteq Ids'
         /\ \A o \in store' : o.key \in Keys /\ o.nth \in Nat /\ o.refs \subseteq Keys \X Nat
<1>1. CASE store' = store
  BY <1>1 DEF SoTInv, StoreInv, SoTTypeOK, ReferencesAsSeeded, Ids
<1>2. ASSUME NEW r \in Populators, Makes(r)
      PROVE  /\ StoreInv' /\ ReferencesAsSeeded' /\ Ids \subseteq Ids'
             /\ \A o \in store' : o.key \in Keys /\ o.nth \in Nat /\ o.refs \subseteq Keys \X Nat
  <2> DEFINE new == NewObject(r)
  <2>1. /\ new.key \in Keys /\ new.key \notin OrphanKeys
        /\ new.nth \in Nat /\ new.nth # 0 /\ new.refs \subseteq Keys \X Nat
        /\ new.refs \subseteq Ids /\ {id[1] : id \in new.refs} = Intended[new.key]
    BY <1>2, NewObjectIs DEF Makes
  <2>2. store' = store \cup {new}
    BY <1>2 DEF Makes
  <2> HIDE DEF new
  <2>3. IsFiniteSet(store')
    BY <2>2, FS_AddElement DEF SoTInv, StoreInv
  <2>4. Ids \subseteq Ids'
    BY <2>2 DEF Ids
  <2>5. \A o \in store' : /\ o.refs \subseteq Ids'
                          /\ {id[1] : id \in o.refs} = Intended[o.key]
    BY <2>1, <2>2, <2>4 DEF SoTInv, ReferencesAsSeeded, Ids
  <2>6. QED
    BY <2>1, <2>2, <2>3, <2>4, <2>5
       DEF SoTInv, StoreInv, SoTTypeOK, ReferencesAsSeeded, Ids
<1>3. QED
  BY <1>1, <1>2, PopulatorStep DEF RunGoes, Passes, Finds, Asks, Resolves, Starts

\* What holds of a run after a step of its own.
RunFine(r) ==
  /\ pos[r] \in Turns(r)
  /\ \A k \in Keys : known[r][k] # 0 => <<k, known[r][k]>> \in Ids
  /\ \A i \in Handled(r) :
       Seed[i] \in Dropped \/ Seed[i].kind \in Tolerant \/ known[r][Seed[i].key] # 0
  /\ pc[r] = "create" => ~Skipped(r, Item(r))

RunsTyped ==
  /\ pc \in [Populators -> {"next", "resolved", "create", "done", "failed"}]
  /\ pos \in [Populators -> DOMAIN Seed]
  /\ known \in [Populators -> [Keys -> Nat]]

\* A run goes on if its entry is handled.
LEMMA AdvanceFine ==
  ASSUME SoTInv, Ids \subseteq Ids', NEW r \in Populators, pc[r] # "done",
         NEW n \in Nat, Advance(r, n),
         n # 0 => <<Item(r).key, n>> \in Ids',
         \/ n # 0 \/ Item(r) \in Dropped \/ Item(r).kind \in Tolerant
         \/ known[r][Item(r).key] # 0
  PROVE  RunsTyped' /\ RunFine(r)'
<1>1. /\ RunsTyped' /\ pc'[r] # "create" /\ pos'[r] \in Turns(r)
      /\ \A k \in Keys : known'[r][k] = IF n # 0 /\ k = Item(r).key THEN n ELSE known[r][k]
      /\ \A i \in Handled(r)' : i = pos[r] \/ i \in Handled(r)
  BY AdvanceIs DEF RunsTyped
<1>2. ASSUME NEW k \in Keys, known'[r][k] # 0
      PROVE  <<k, known'[r][k]>> \in Ids'
  BY <1>1, <1>2 DEF SoTInv, KnownInv
<1>3. ASSUME NEW i \in Handled(r)'
      PROVE  \/ Seed[i] \in Dropped \/ Seed[i].kind \in Tolerant
             \/ known'[r][Seed[i].key] # 0
  <2>1. CASE i = pos[r]
    <3>1. Seed[i] = Item(r) /\ Item(r).key \in Keys
      BY <2>1, ItemType DEF SoTInv
    <3>2. QED
      BY <1>1, <3>1
  <2>2. CASE i \in Handled(r)
    <3>1. Seed[i].key \in Keys
      BY <2>2, TurnsAre, PlaceIs DEF Handled
    <3>2. QED
      BY <1>1, <2>2, <3>1 DEF SoTInv, HandledInv
  <2>3. QED
    BY <1>1, <1>3, <2>1, <2>2
<1>4. QED
  BY <1>1, <1>2, <1>3 DEF RunFine

LEMMA RunStep ==
  ASSUME SoTInv, Ids \subseteq Ids', NEW r \in Populators, RunGoes(r)
  PROVE  RunsTyped' /\ RunFine(r)'
<1>1. ASSUME NEW to \in {"next", "failed"}, Reset(r, to)
      PROVE  RunsTyped' /\ RunFine(r)'
  BY <1>1, ResetIs DEF RunsTyped, RunFine
<1>2. ASSUME pc[r] # "done", Passes(r)
      PROVE  RunsTyped' /\ RunFine(r)'
  BY <1>2, AdvanceFine DEF Passes
<1>3. ASSUME pc[r] # "done", Finds(r)
      PROVE  RunsTyped' /\ RunFine(r)'
  <2>1. PICK o \in Having(Item(r).key) : Advance(r, o.nth)
    BY <1>3 DEF Finds
  <2>2. /\ o \in store /\ Id(o) = <<Item(r).key, o.nth>> /\ o.nth \in Nat
        /\ o.nth # 0
    BY DEF Having, Id, SoTInv, SoTTypeOK, StoreInv
  <2>3. <<Item(r).key, o.nth>> \in Ids'
    BY <2>2 DEF Ids
  <2>4. QED
    BY <1>3, <2>1, <2>2, <2>3, AdvanceFine
<1>4. ASSUME Makes(r)
      PROVE  RunsTyped' /\ RunFine(r)'
  <2>1. CASE Reset(r, "failed")
    BY <1>1, <2>1
  <2>2. CASE Advance(r, NewObject(r).nth)
    <3> DEFINE n == NewObject(r).nth
    <3>1. n \in Nat /\ n # 0 /\ NewObject(r).key = Item(r).key
      BY <1>4, NewObjectIs DEF Makes
    <3>2. <<Item(r).key, n>> \in Ids'
      BY <1>4, <3>1 DEF Makes, Ids, Id
    <3>3. Advance(r, n) /\ pc[r] # "done"
      BY <1>4, <2>2 DEF Makes
    <3> HIDE DEF n
    <3>4. QED
      BY <3>1, <3>2, <3>3, AdvanceFine
  <2>3. QED
    BY <1>4, <2>1, <2>2 DEF Makes
<1>5. ASSUME pc[r] # "done", Asks(r)
      PROVE  RunsTyped' /\ RunFine(r)'
  <2>1. RunsTyped /\ RunFine(r) /\ ~Skipped(r, Item(r))
    BY <1>5 DEF SoTInv, SoTTypeOK, PlaceInv, KnownInv, HandledInv, CreateInv,
                RunsTyped, RunFine, Asks
  <2>2. /\ pos' = pos /\ known' = known /\ RunsTyped' /\ pc'[r] = "create"
    BY <1>5, <2>1 DEF Asks, RunsTyped
  <2>3. Handled(r)' = Handled(r)
    BY <1>5, <2>2 DEF Handled
  <2>4. Skipped(r, Item(r))' = Skipped(r, Item(r))
    BY <2>2 DEF Skipped, Item, Knows, References
  <2>5. QED
    BY <2>1, <2>2, <2>3, <2>4 DEF RunFine
<1>6. ASSUME pc[r] # "done", Resolves(r)
      PROVE  RunsTyped' /\ RunFine(r)'
  <2>1. /\ RunsTyped' /\ pos' = pos /\ pc'[r] = "resolved"
        /\ \A k \in Keys : known[r][k] # 0 => known'[r][k] # 0
        /\ \A k \in Keys : known'[r][k] # 0 => <<k, known'[r][k]>> \in Ids
    BY <1>6, ResolvesIs DEF RunsTyped, Resolves, SoTInv, SoTTypeOK
  <2>2. Handled(r)' = Handled(r) /\ \A i \in Handled(r) : Seed[i].key \in Keys
    BY <1>6, <2>1, TurnsAre, PlaceIs DEF Handled
  <2>3. QED
    BY <2>1, <2>2 DEF RunFine, SoTInv, PlaceInv, HandledInv
<1>7. QED
  BY <1>1, <1>2, <1>3, <1>4, <1>5, <1>6 DEF RunGoes, Starts

\* A step of one run leaves the others where they are.
LEMMA OthersStay ==
  ASSUME SoTInv, NEW r \in Populators, RunGoes(r), NEW q \in Populators \ {r}
  PROVE  pc'[q] = pc[q] /\ pos'[q] = pos[q] /\ known'[q] = known[q]
<1>1. ASSUME NEW n \in Nat, Advance(r, n)
      PROVE  pc'[q] = pc[q] /\ pos'[q] = pos[q] /\ known'[q] = known[q]
  BY <1>1, AdvanceIs
<1>2. ASSUME NEW to \in {"next", "failed"}, Reset(r, to)
      PROVE  pc'[q] = pc[q] /\ pos'[q] = pos[q] /\ known'[q] = known[q]
  BY <1>2, ResetIs
<1>3. ASSUME Asks(r)
      PROVE  pc'[q] = pc[q] /\ pos'[q] = pos[q] /\ known'[q] = known[q]
  BY <1>3 DEF Asks, SoTInv, SoTTypeOK
<1>4. ASSUME Resolves(r), pc[r] # "done"
      PROVE  pc'[q] = pc[q] /\ pos'[q] = pos[q] /\ known'[q] = known[q]
  BY <1>4, ResolvesIs DEF Resolves
<1>5. \A o \in store : o.nth \in Nat
  BY DEF SoTInv, SoTTypeOK
<1>6. QED
  BY <1>1, <1>2, <1>3, <1>4, <1>5, NewObjectIs
     DEF RunGoes, Starts, Passes, Finds, Having, Makes

LEMMA RunsStep ==
  ASSUME SoTInv, [SoTNext]_sotVars
  PROVE  RunsTyped' /\ PlaceInv' /\ KnownInv' /\ HandledInv' /\ CreateInv'
<1>1. Ids \subseteq Ids'
  BY StoreStep
<1>2. RunsTyped /\ \A q \in Populators : RunFine(q)
  BY DEF SoTInv, SoTTypeOK, PlaceInv, KnownInv, HandledInv, CreateInv, RunsTyped, RunFine
<1>3. ASSUME NEW q \in Populators,
             pc'[q] = pc[q], pos'[q] = pos[q], known'[q] = known[q]
      PROVE  RunFine(q)'
  <2>1. Handled(q)' = Handled(q) /\ Item(q)' = Item(q)
    BY <1>3 DEF Handled, Item
  <2>2. Skipped(q, Item(q))' = Skipped(q, Item(q))
    BY <1>3, <2>1 DEF Skipped, Knows, References
  <2>3. QED
    BY <1>1, <1>2, <1>3, <2>1, <2>2 DEF RunFine
<1>4. RunsTyped' /\ \A q \in Populators : RunFine(q)'
  <2>1. CASE UNCHANGED <<store, pc, pos, known>>
    BY <1>2, <1>3, <2>1 DEF RunsTyped
  <2>2. CASE \E r \in Populators : RunGoes(r)
    <3>1. PICK r \in Populators : RunGoes(r)
      BY <2>2
    <3>2. RunsTyped' /\ RunFine(r)'
      BY <1>1, <3>1, RunStep
    <3>3. \A q \in Populators \ {r} : RunFine(q)'
      BY <1>3, <3>1, OthersStay
    <3>4. QED
      BY <3>2, <3>3
  <2>3. QED
    BY <2>1, <2>2, PopulatorStep
<1>5. QED
  BY <1>4 DEF RunFine, PlaceInv, KnownInv, HandledInv, CreateInv

-----------------------------------------------------------------------------
(* At most one copy of an object for each run.                             *)

LEMMA CopiesAreFinite ==
  ASSUME SoTInv, NEW k, NEW n
  PROVE  /\ IsFiniteSet(Found(k, n)) /\ IsFiniteSet(Creating(k, n))
         /\ Cardinality(Found(k, n)) \in Nat /\ Cardinality(Creating(k, n)) \in Nat
         /\ IsFiniteSet(Populators) /\ Cardinality(Populators) \in Nat
<1>1. Found(k, n) \subseteq Having(k) /\ Creating(k, n) \subseteq Populators
  BY DEF Found, Creating
<1>2. IsFiniteSet(Having(k)) /\ IsFiniteSet(Populators)
  BY HavingIs, SourceOfTruthAssumption
<1>3. QED
  BY <1>1, <1>2, FS_Subset, FS_CardinalityType

\* Only the run that has found none becomes one more that creates.
LEMMA CreatingStep ==
  ASSUME SoTInv, NEW r \in Populators, RunGoes(r), ~Asks(r), NEW k, NEW n
  PROVE  Creating(k, n)' \subseteq Creating(k, n) \ {r}
<1>1. pc'[r] # "create"
  <2>1. \A o \in store : o.nth \in Nat
    BY DEF SoTInv, SoTTypeOK
  <2>2. QED
    BY <2>1, AdvanceIs, ResetIs, ResolvesIs, NewObjectIs
       DEF RunGoes, Starts, Passes, Finds, Having, Makes
<1>2. ASSUME NEW q \in Creating(k, n)'
      PROVE  q \in Creating(k, n) \ {r}
  <2>1. q \in Populators /\ q # r
    BY <1>1 DEF Creating
  <2>2. pc'[q] = pc[q] /\ pos'[q] = pos[q] /\ known'[q] = known[q]
    BY <2>1, OthersStay
  <2>3. Item(q)' = Item(q)
    BY <2>2 DEF Item
  <2>4. QED
    BY <2>1, <2>2, <2>3 DEF Creating
<1>3. QED
  BY <1>2

LEMMA CopiesStep ==
  ASSUME SoTInv, [SoTNext]_sotVars, StoreInv'
  PROVE  CopiesInv'
<1> DEFINE P == Cardinality(Populators)
           Unique1(k) == KindOf[k] \in Unique => Cardinality(Having(k)) <= 1
           Few(k, n) == Cardinality(Found(k, n)) + Cardinality(Creating(k, n)) <= P
<1>1. \A k \in Keys : Unique1(k) /\ \A n \in Nat : Few(k, n)
  BY DEF SoTInv, CopiesInv
<1> SUFFICES ASSUME NEW k \in Keys
             PROVE  Unique1(k)' /\ \A n \in Nat : Few(k, n)'
  BY DEF CopiesInv
<1>2. CASE UNCHANGED <<store, pc, pos, known>>
  <2>1. Having(k)' = Having(k)
    BY <1>2 DEF Having
  <2>2. \A n \in Nat : Found(k, n)' = Found(k, n) /\ Creating(k, n)' = Creating(k, n)
    BY <1>2, <2>1 DEF Found, Creating, Item
  <2>3. QED
    BY <1>1, <2>1, <2>2
<1>3. ASSUME NEW r \in Populators, RunGoes(r), ~Asks(r), store' = store
      PROVE  Unique1(k)' /\ \A n \in Nat : Few(k, n)'
  <2>1. Having(k)' = Having(k)
    BY <1>3 DEF Having
  <2>2. ASSUME NEW n \in Nat PROVE Few(k, n)'
    <3>1. Found(k, n)' = Found(k, n)
      BY <2>1 DEF Found
    <3>2. Creating(k, n)' \subseteq Creating(k, n)
      BY <1>3, CreatingStep
    <3>3. /\ Cardinality(Creating(k, n)') <= Cardinality(Creating(k, n))
          /\ Cardinality(Creating(k, n)') \in Nat
      BY <3>2, CopiesAreFinite, FS_Subset, FS_CardinalityType
    <3>4. QED
      BY <1>1, <3>1, <3>3, CopiesAreFinite
  <2>3. QED
    BY <1>1, <2>1, <2>2
<1>4. ASSUME NEW r \in Populators, RunGoes(r), Asks(r)
      PROVE  Unique1(k)' /\ \A n \in Nat : Few(k, n)'
  <2>1. Having(k)' = Having(k) /\ pos' = pos /\ known' = known
    BY <1>4 DEF Having, Asks
  <2>2. /\ \A q \in Populators : Item(q)' = Item(q)
        /\ \A q \in Populators \ {r} : pc'[q] = pc[q]
    BY <1>4, <2>1, OthersStay DEF Item
  <2>3. ASSUME NEW n \in Nat PROVE Few(k, n)'
    <3>1. Found(k, n)' = Found(k, n)
      BY <2>1 DEF Found
    <3>2. CASE r \notin Creating(k, n)'
      <4>1. Creating(k, n)' \subseteq Creating(k, n)
        BY <2>1, <2>2, <3>2 DEF Creating
      <4>2. /\ Cardinality(Creating(k, n)') <= Cardinality(Creating(k, n))
            /\ Cardinality(Creating(k, n)') \in Nat
        BY <4>1, CopiesAreFinite, FS_Subset, FS_CardinalityType
      <4>3. QED
        BY <1>1, <3>1, <4>2, CopiesAreFinite
    <3>3. CASE r \in Creating(k, n)'
      <4>1. /\ Item(r).key = k
            /\ KindOf[k] = "interface" => known[r][EntryOf[k].owner] = n
        BY <2>1, <2>2, <3>3 DEF Creating
      <4>2. EntryOf[k] = Item(r) /\ KindOf[k] = Item(r).kind
        BY <4>1, ItemType DEF SoTInv
      <4>3. Found(k, n) = {}
        BY <1>4, <4>1, <4>2 DEF Asks, Matches, Found
      <4>4. Creating(k, n)' \subseteq Populators
        BY DEF Creating
      <4>5. /\ Cardinality(Creating(k, n)') <= P /\ Cardinality(Found(k, n)) = 0
            /\ Cardinality(Creating(k, n)') \in Nat
        BY <4>3, <4>4, CopiesAreFinite, FS_Subset, FS_CardinalityType, FS_EmptySet
      <4>6. QED
        BY <3>1, <4>5, CopiesAreFinite
    <3>4. QED
      BY <3>2, <3>3
  <2>4. QED
    BY <1>1, <2>1, <2>3
<1>5. ASSUME NEW r \in Populators, RunGoes(r), Makes(r)
      PROVE  Unique1(k)' /\ \A n \in Nat : Few(k, n)'
  <2> DEFINE new == NewObject(r)
  <2>1. /\ new.key = Item(r).key /\ new.refs = References(r, Item(r))
        /\ pc[r] = "create" /\ store' = store \cup {new} /\ ~Conflicts(Item(r))
    BY <1>5, NewObjectIs DEF Makes
  <2> HIDE DEF new
  <2>2. /\ k # new.key => Having(k)' = Having(k)
        /\ Having(k)' \subseteq Having(k) \cup {new}
    BY <2>1 DEF Having
  <2>3. Unique1(k)'
    <3>1. CASE k # new.key
      BY <1>1, <2>2, <3>1
    <3>2. CASE k = new.key /\ KindOf[k] \in Unique
      <4>1. KindOf[k] = Item(r).kind
        BY <2>1, <3>2, ItemType DEF SoTInv
      <4>2. Having(k) = {}
        BY <2>1, <3>2, <4>1 DEF Conflicts
      <4>3. Having(k)' \subseteq {new}
        BY <2>2, <4>2
      <4>4. IsFiniteSet({new}) /\ Cardinality({new}) = 1
        BY FS_Singleton
      <4>5. QED
        BY <4>3, <4>4, FS_Subset
    <3>3. QED
      BY <3>1, <3>2
  <2>4. ASSUME NEW n \in Nat PROVE Few(k, n)'
    <3>1. Creating(k, n)' \subseteq Creating(k, n) \ {r}
      <4>1. ~Asks(r)
        BY <2>1 DEF Asks
      <4>2. QED
        BY <1>5, <4>1, CreatingStep
    <3>2. Found(k, n)' \subseteq Found(k, n) \cup {new}
      BY <2>2 DEF Found
    <3>3. CASE new \notin Found(k, n)'
      <4>1. /\ Found(k, n)' \subseteq Found(k, n)
            /\ Creating(k, n)' \subseteq Creating(k, n)
        BY <3>1, <3>2, <3>3
      <4>2. /\ Cardinality(Found(k, n)') <= Cardinality(Found(k, n))
            /\ Cardinality(Creating(k, n)') <= Cardinality(Creating(k, n))
            /\ Cardinality(Found(k, n)') \in Nat /\ Cardinality(Creating(k, n)') \in Nat
        BY <4>1, CopiesAreFinite, FS_Subset, FS_CardinalityType
      <4>3. QED
        BY <1>1, <4>2, CopiesAreFinite
    <3>4. CASE new \in Found(k, n)'
      <4>1. /\ k = new.key
            /\ KindOf[k] = "interface" => <<EntryOf[k].owner, n>> \in new.refs
        BY <3>4 DEF Found, Having
      <4>2. KindOf[k] = "interface" => known[r][EntryOf[k].owner] = n
        BY <2>1, <4>1 DEF References
      <4>3. r \in Creating(k, n)
        BY <2>1, <4>1, <4>2 DEF Creating
      <4>4. /\ Cardinality(Creating(k, n) \ {r}) = Cardinality(Creating(k, n)) - 1
            /\ IsFiniteSet(Creating(k, n) \ {r})
        BY <4>3, CopiesAreFinite, FS_RemoveElement
      <4>5. /\ Cardinality(Creating(k, n)') <= Cardinality(Creating(k, n)) - 1
            /\ Cardinality(Creating(k, n)') \in Nat
        BY <3>1, <4>4, FS_Subset, FS_CardinalityType
      <4>6. /\ Cardinality(Found(k, n) \cup {new}) <= Cardinality(Found(k, n)) + 1
            /\ IsFiniteSet(Found(k, n) \cup {new})
        <5>1. IsFiniteSet(Found(k, n)) /\ Cardinality(Found(k, n)) \in Nat
          BY CopiesAreFinite
        <5> HIDE DEF Few
        <5>2. /\ IsFiniteSet(Found(k, n) \cup {new})
              /\ \/ Cardinality(Found(k, n) \cup {new}) = Cardinality(Found(k, n))
                 \/ Cardinality(Found(k, n) \cup {new}) = Cardinality(Found(k, n)) + 1
          BY <5>1, FS_AddElement
        <5>3. QED
          BY <5>1, <5>2
      <4>7. /\ Cardinality(Found(k, n)') <= Cardinality(Found(k, n)) + 1
            /\ Cardinality(Found(k, n)') \in Nat
        <5>1. /\ Cardinality(Found(k, n)') <= Cardinality(Found(k, n) \cup {new})
              /\ IsFiniteSet(Found(k, n)')
          BY <3>2, <4>6, FS_Subset
        <5>2. QED
          BY <4>6, <5>1, CopiesAreFinite, FS_CardinalityType
      <4>8. QED
        BY <1>1, <4>5, <4>7, CopiesAreFinite
    <3>5. QED
      BY <3>3, <3>4
  <2>5. QED
    BY <2>3, <2>4
<1>6. QED
  BY <1>2, <1>3, <1>4, <1>5, PopulatorStep DEF RunGoes, Passes, Finds, Resolves, Starts

-----------------------------------------------------------------------------
(* The loaders, and all of it.                                             *)

LEMMA LoaderStep ==
  ASSUME SoTInv, [SoTNext]_sotVars
  PROVE  /\ schema' \subseteq Batches
         /\ loader' \in [Loaders -> Batches \cup {Failed, Successful}]
         /\ failures' \in 0 .. MaxFailures
         /\ LoaderInv'
<1>1. failures' \in 0 .. MaxFailures
  BY FailuresAssumption
     DEF SoTInv, SoTTypeOK, SoTNext, sotVars, Failure, Load, LoadBatch, LoadFails, LoadAgain,
         Populate, ResolvePool, Skip, Query, QueryUnknownKind, Create, CreateConflicts,
         RunAgain, CreateRefused, CreateUnanswered, Die
<1>2. CASE UNCHANGED <<schema, loader>>
  BY <1>1, <1>2 DEF SoTInv, SoTTypeOK, LoaderInv
<1>3. ASSUME NEW l \in Loaders, LoadBatch(l)
      PROVE  /\ schema' \subseteq Batches
             /\ loader' \in [Loaders -> Batches \cup {Failed, Successful}]
             /\ LoaderInv'
  <2>1. /\ loader[l] \in Batches /\ loader' = [loader EXCEPT ![l] = loader[l] + 1]
        /\ schema' = schema \cup ({loader[l]} \ EmptyBatches)
    BY <1>3 DEF LoadBatch
  <2>2. /\ loader \in [Loaders -> Batches \cup {Failed, Successful}]
        /\ schema \subseteq Batches
    BY DEF SoTInv, SoTTypeOK
  <2>3. loader[l] + 1 \in Batches \cup {Failed, Successful}
    BY <2>1 DEF Batches, Successful
  <2>4. ASSUME NEW m \in Loaders, NEW b \in Batches, b < loader'[m]
        PROVE  b \in schema' \cup EmptyBatches
    <3>1. CASE b < loader[m]
      BY <2>1, <3>1 DEF SoTInv, LoaderInv
    <3>2. CASE ~(b < loader[m])
      <4>1. m = l /\ loader'[m] = loader[l] + 1
        BY <2>1, <2>2, <2>4, <3>2
      <4>2. b = loader[l]
        BY <2>1, <2>4, <3>2, <4>1 DEF Batches
      <4>3. QED
        BY <2>1, <4>2
    <3>3. QED
      BY <3>1, <3>2
  <2>5. QED
    BY <2>1, <2>2, <2>3, <2>4 DEF LoaderInv
<1>4. ASSUME NEW l \in Loaders,
             LoadFails(l) \/ LoadAgain(l, Failed) \/ LoadAgain(l, Successful)
      PROVE  /\ schema' \subseteq Batches
             /\ loader' \in [Loaders -> Batches \cup {Failed, Successful}]
             /\ LoaderInv'
  <2>1. /\ \/ loader' = [loader EXCEPT ![l] = 1]
           \/ loader' = [loader EXCEPT ![l] = Failed]
        /\ \/ schema' = schema
           \/ loader[l] \in Batches /\ schema' = schema \cup {loader[l]}
    BY <1>4 DEF LoadFails, LoadAgain
  <2>2. /\ loader \in [Loaders -> Batches \cup {Failed, Successful}]
        /\ schema \subseteq Batches
    BY DEF SoTInv, SoTTypeOK
  <2>3. /\ schema' \subseteq Batches /\ schema \subseteq schema'
        /\ loader' \in [Loaders -> Batches \cup {Failed, Successful}]
    <3>1. 1 \in Batches
      BY DEF Batches
    <3>2. QED
      BY <2>1, <2>2, <3>1
  <2>4. ASSUME NEW m \in Loaders, NEW b \in Batches, b < loader'[m]
        PROVE  b \in schema' \cup EmptyBatches
    <3>1. m = l => loader'[m] \in {0, 1}
      BY <2>1, <2>2 DEF Failed
    <3>2. m # l => loader'[m] = loader[m]
      BY <2>1, <2>2
    <3>3. m # l
      BY <2>4, <3>1 DEF Batches
    <3>4. QED
      BY <2>3, <2>4, <3>2, <3>3 DEF SoTInv, LoaderInv
  <2>5. QED
    BY <2>3, <2>4 DEF LoaderInv
<1>5. QED
  BY <1>1, <1>2, <1>3, <1>4
     DEF SoTNext, sotVars, Load, Populate, ResolvePool, Skip, Query, QueryUnknownKind, Create,
         CreateConflicts, RunAgain, CreateRefused, CreateUnanswered, Die

LEMMA SoTInitially == SoTInit => SoTInv
<1> SUFFICES ASSUME SoTInit PROVE SoTInv
  OBVIOUS
<1>1. \A r \in Populators :
        /\ First[r] \in Turns(r) /\ First[r] \in DOMAIN Seed
        /\ \A i \in Turns(r) : ~Before(i, First[r])
  BY FirstIs, TurnsAre
<1>2. First \in [Populators -> DOMAIN Seed]
  BY <1>1 DEF First
<1>3. Nothing \in [Keys -> Nat] /\ \A k \in Keys : Nothing[k] = 0
  BY DEF Nothing
<1>4. SoTTypeOK
  BY <1>2, <1>3, FailuresAssumption DEF SoTInit, SoTTypeOK, Batches
<1>5. PlaceInv /\ LoaderInv /\ KnownInv /\ HandledInv /\ CreateInv
  BY <1>1, <1>3
     DEF SoTInit, PlaceInv, LoaderInv, KnownInv, HandledInv, Handled, CreateInv, Batches
<1>6. StoreInv /\ ReferencesAsSeeded
  BY FS_EmptySet DEF SoTInit, StoreInv, ReferencesAsSeeded
<1>7. CopiesInv
  <2>1. \A k, n : Having(k) = {} /\ Found(k, n) = {} /\ Creating(k, n) = {}
    BY DEF SoTInit, Having, Found, Creating
  <2>2. Cardinality({}) = 0 /\ Cardinality(Populators) \in Nat
    BY FS_EmptySet, FS_CardinalityType, SourceOfTruthAssumption
  <2>3. QED
    BY <2>1, <2>2 DEF CopiesInv
<1>8. QED
  BY <1>4, <1>5, <1>6, <1>7 DEF SoTInv

LEMMA SoTInvariance == SoTSpec => []SoTInv
<1>1. SoTInv /\ [SoTNext]_sotVars => SoTInv'
  BY StoreStep, RunsStep, CopiesStep, LoaderStep DEF SoTInv, SoTTypeOK, RunsTyped
<1>2. QED
  BY SoTInitially, <1>1, PTL DEF SoTSpec

\* The population scripts and the objects they make stay within their types.
THEOREM PopulationTyped == SoTSpec => []SoTTypeOK
BY SoTInvariance, PTL DEF SoTInv

\* A script that has exited with 0 has done its work.
THEOREM SuccessComplete == SoTSpec => []SuccessIsComplete
<1>1. SoTInv => SuccessIsComplete
  <2> SUFFICES ASSUME SoTInv PROVE SuccessIsComplete
    OBVIOUS
  <2>1. ASSUME NEW l \in Loaders, loader[l] = Successful
        PROVE  Batches \ EmptyBatches \subseteq schema
    BY <2>1 DEF SoTInv, LoaderInv, Batches, Successful
  <2>2. ASSUME NEW r \in Populators, pc[r] = "done", NEW k \in Required[r]
        PROVE  k \in Stored
    <3>1. PICK i \in Turns(r) :
            Seed[i].key = k /\ Seed[i] \notin Dropped /\ Seed[i].kind \notin Tolerant
      BY DEF Required
    <3>2. known[r][k] # 0 /\ k \in Keys
      BY <2>2, <3>1, TurnsAre, PlaceIs DEF SoTInv, HandledInv, Handled
    <3>3. PICK o \in store : Id(o) = <<k, known[r][k]>>
      BY <3>2 DEF SoTInv, KnownInv, Ids
    <3>4. QED
      BY <3>3 DEF Id, Stored
  <2>3. QED
    BY <2>1, <2>2 DEF SuccessIsComplete
<1>2. QED
  BY <1>1, SoTInvariance, PTL

\* Every object refers to what the seed names for it, and to nothing else.
THEOREM ReferencesSeeded == SoTSpec => []ReferencesAsSeeded
BY SoTInvariance, PTL DEF SoTInv

\* The twins of an interface are found by a query with its device.
LEMMA TwinsAreFound ==
  ASSUME SoTInv, NEW o \in store
  PROVE  \E n \in Nat : Twins(o) \subseteq Found(o.key, n)
<1> DEFINE e == EntryOf[o.key]
<1>1. /\ o.key \in Keys /\ o.key \notin OrphanKeys
      /\ o.refs \subseteq Keys \X Nat
      /\ {id[1] : id \in o.refs} = Intended[o.key]
  BY DEF SoTInv, SoTTypeOK, StoreInv, ReferencesAsSeeded
<1>2. e \in Items /\ e.key = o.key /\ KindOf[o.key] = e.kind
  BY <1>1, KeyIs
<1>3. CASE KindOf[o.key] # "interface"
  <2>1. Twins(o) \subseteq Found(o.key, 0)
    BY <1>3 DEF Twins, Found
  <2>2. QED
    BY <2>1
<1>4. CASE KindOf[o.key] = "interface"
  <2>1. e.owner # NoOwner
    <3>1. "interface" \in DOMAIN OwnerKind
      BY DEF OwnerKind
    <3>2. QED
      BY <1>2, <1>4, <3>1, SeedAssumption
  <2>2. e.owner \in Named(e) /\ (e.owner \in Keys => KindOf[e.owner] = "device")
    BY <1>2, <1>4, <2>1, OwnerIs
  <2>3. e.owner \in Keys
    BY <1>1, <1>2, <2>1 DEF OrphanKeys, Orphans
  <2>4. e.owner \notin OrphanKeys
    <3> SUFFICES ASSUME NEW i \in Orphans, i.key = e.owner PROVE FALSE
      BY DEF OrphanKeys
    <3>1. i \in Items /\ i.kind = "device"
      BY <2>2, <2>3, ItemIs DEF Orphans
    <3>2. i.owner = NoOwner
      BY <3>1, OwnerIs
    <3>3. QED
      BY <3>1, <3>2 DEF Orphans
  <2>5. e.owner \in Intended[o.key]
    BY <1>1, <2>2, <2>3, <2>4 DEF Intended
  <2>6. PICK id \in o.refs : id[1] = e.owner
    BY <1>1, <2>5
  <2>7. id[2] \in Nat /\ id = <<e.owner, id[2]>>
    BY <1>1, <2>6
  <2>8. Twins(o) \subseteq Found(o.key, id[2])
    BY <1>4, <2>2, <2>3, <2>6, <2>7 DEF Twins, Found
  <2>9. QED
    BY <2>7, <2>8
<1>5. QED
  BY <1>3, <1>4

\* However often runs die and are repeated, nothing is created twice by them,
\* except by runs that go on at the same time.
THEOREM OneEachRun == SoTSpec => []OneForEachRun
<1>1. SoTInv => OneForEachRun
  <2> SUFFICES ASSUME SoTInv, NEW o \in store
               PROVE  Cardinality(Twins(o)) <=
                        IF KindOf[o.key] \in Unique THEN 1 ELSE Cardinality(Populators)
    BY DEF OneForEachRun
  <2>1. o.key \in Keys
    BY DEF SoTInv, SoTTypeOK
  <2>2. CASE KindOf[o.key] \in Unique
    <3>1. Twins(o) \subseteq Having(o.key) /\ Cardinality(Having(o.key)) <= 1
      BY <2>1, <2>2 DEF Twins, SoTInv, CopiesInv
    <3>2. Cardinality(Twins(o)) <= Cardinality(Having(o.key)) /\ IsFiniteSet(Twins(o))
      BY <3>1, HavingIs, FS_Subset
    <3>3. QED
      BY <2>2, <3>1, <3>2, HavingIs, FS_CardinalityType
  <2>3. CASE KindOf[o.key] \notin Unique
    <3>1. PICK n \in Nat : Twins(o) \subseteq Found(o.key, n)
      BY TwinsAreFound
    <3>2. /\ Cardinality(Twins(o)) <= Cardinality(Found(o.key, n))
          /\ Cardinality(Twins(o)) \in Nat
      BY <3>1, CopiesAreFinite, FS_Subset, FS_CardinalityType
    <3>3. Cardinality(Found(o.key, n)) + Cardinality(Creating(o.key, n))
            <= Cardinality(Populators)
      BY <2>1 DEF SoTInv, CopiesInv
    <3>4. QED
      BY <2>3, <3>2, <3>3, CopiesAreFinite
  <2>4. QED
    BY <2>2, <2>3
<1>2. QED
  BY <1>1, SoTInvariance, PTL
=============================================================================
