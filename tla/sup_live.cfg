CONSTANTS
  Addrs = {a1, a2}
  Ports = {p1}
  Profiles = {d}
  Slots = {s1}
  EnvOps = {"attach", "detach", "fails", "offline", "stop"}
  None = None
SPECIFICATION FairSpec
PROPERTIES ControllerServed StopEnds DetachedRetires
CHECK_DEADLOCK FALSE
