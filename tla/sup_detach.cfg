CONSTANTS
  Addrs = {a1}
  Ports = {p1}
  Profiles = {d}
  Slots = {s1}
  EnvOps = {"detach", "back_to_back", "fails"}
  None = None
SPECIFICATION FairSpec
PROPERTIES RequestServed
