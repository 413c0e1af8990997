\* Two routers with an etcd store and no failure at all.
CONSTANTS
  a = a
  b = b
  g = g
  n1 = n1
  n2 = n2
  c1 = c1
  c2 = c2
  c3 = c3
  Node = {n1, n2}
  Netconf = {a, b}
  Grpc = {g}
  Config = {c1, c2, c3}
  Deployments <- FaultlessCluster
  None = None
SPECIFICATION Spec
PROPERTIES SyncSparesLocalCommit
