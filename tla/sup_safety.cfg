CONSTANTS
  Addrs = {a1, a2}
  Ports = {p1}
  Profiles = {d1, d2}
  Slots = {s1, s2}
  EnvOps = {"attach", "detach", "back_to_back", "fails", "provider", "scan_fails", "slow_scan"}
  None = None
SPECIFICATION Spec
SYMMETRY Symmetry
INVARIANTS TypeOK WorkersExclusive DelayServed NoStaleWorker
