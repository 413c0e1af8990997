\* One router: the daemon can be killed and restarted.
CONSTANTS
  a = a
  b = b
  g = g
  n1 = n1
  n2 = n2
  c1 = c1
  c2 = c2
  c3 = c3
  Node = {n1, n2}
  Netconf = {a, b}
  Grpc = {g}
  Config = {c1, c2, c3}
  Deployments <- CrashingRouter
  None = None
SPECIFICATION Spec
PROPERTIES RestartReapplies
