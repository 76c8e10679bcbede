--------------------------- MODULE MCProgressSidecar ---------------------------
(* The jobs whose heartbeat is dropped before the next update, with and        *)
(* without faults, and the route command, whose heartbeat is not.              *)
EXTENDS ProgressSidecar

MCGuardedJobs ==
  [steps : {ExtensionJob, BridgeJob}, faults : {{}, {"write"}, {"write", "rename"}}]
\* The proofs are about guarded jobs.
ASSUME GuardedAssumption == \A j \in MCGuardedJobs : Guarded(j)

MCRouteJob == {[steps |-> RouteJob, faults |-> {}]}
=============================================================================
