\* A lone router and two kinds of cluster.
CONSTANTS
  a = a
  b = b
  g = g
  n1 = n1
  n2 = n2
  c1 = c1
  c2 = c2
  c3 = c3
  Node = {n1, n2}
  Netconf = {a, b}
  Grpc = {g}
  Config = {c1, c2, c3}
  Deployments <- AllDeployments
  None = None
SPECIFICATION Spec
INVARIANTS TypeOK StoredIsRunning
PROPERTIES NoLostUpdate CommitIsOfItsBase Converges
