CONSTANTS
  Addrs = {a1, a2}
  Paths = {1, 2}
  d1 = d1
  d2 = d2
  Configs <- OneOrAny
  MaxAttempts = 2
  EnvOps = {"detach", "load_fails", "open_fails", "connect_fails", "bt_errors", "close", "stop"}
  None = None
SPECIFICATION Spec
SYMMETRY Symmetry
INVARIANTS PortsExclusive OneConnection ChannelsWatched FileServed
PROPERTY UnpluggedBetween
