CONSTANTS
  Addrs = {a1}
  Paths = {1, 2}
  d1 = d1
  d2 = d2
  Configs <- OneOrAny
  MaxAttempts = 1
  EnvOps = {"attach", "detach", "nodes", "close", "open_fails"}
  None = None
SPECIFICATION Spec
INVARIANTS KernelAgrees PortsWatched
PROPERTY DeadBridgesEnd
