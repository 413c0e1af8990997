------------------------ MODULE MCCommitCoordination ------------------------
(* CommitCoordination on one router (n1) and on clusters of two (n1, n2).    *)
(* Configurations are interchangeable: every deployment starts with c1.     *)
EXTENDS CommitCoordination, TLC

CONSTANTS a, b, g, n1, n2, c1, c2, c3

\* NETCONF sessions a, b and gRPC session g of one router.
OneRouter == [s \in {a, b, g} |-> n1]

\* A router with gRPC session g, and its neighbour with NETCONF session b.
OneEach == (a :> None) @@ (g :> n1) @@ (b :> n2)

Deploy(home, configs, faults, maxOps) ==
  [home |-> home, configs |-> configs, initial |-> c1, faults |-> faults, maxOps |-> maxOps]

\* A lone router whose applies and NETCONF persists fail, a cluster where
\* everything fails that can, and one whose applies and synchronizations fail.
AllDeployments ==
  {Deploy(OneRouter, Config, {"apply", "netconf persist"}, 3),
   Deploy(OneEach, {c1, c2}, Fault, 2),
   Deploy(OneEach, {c1, c2}, {"apply", "sync"}, 3)}

\* Single deployments.
FailingGrpcPersist == {Deploy(OneRouter, Config, {"grpc persist"}, 3)}
CrashingRouter == {Deploy(OneRouter, Config, {"crash"}, 3)}
FaultlessCluster == {Deploy(OneEach, Config, {}, 3)}
=============================================================================
