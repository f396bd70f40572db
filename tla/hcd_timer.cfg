CONSTANTS
  Urbs = {u1, u2}
  Reports = {r1}
  Kinds = {"control", "iso_out"}
  EnvOps = {}
  IsoDuration = 2
  HidInterval = 1
  MaxEvents = 2
  MaxSubmits = 1
  MaxInputs = 0
  NoUrb = NoUrb
  NoArg = NoArg
SPECIFICATION Spec
INVARIANTS NotAsleepBehindIso
