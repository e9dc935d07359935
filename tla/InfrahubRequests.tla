-------------------------- MODULE InfrahubRequests --------------------------
(***************************************************************************)
(* What may go wrong between a client and Infrahub: a request that fails,  *)
(* an answer that is lost, a process that is killed in between.            *)
(***************************************************************************)
EXTENDS Integers

CONSTANT MaxFailures   \* bound on all of these together

ASSUME FailuresAssumption == MaxFailures \in Nat

VARIABLE failures      \* how many there were

Failure == failures < MaxFailures /\ failures' = failures + 1
=============================================================================
