CONSTANTS
  Urbs = {u1, u2}
  Reports = {r1}
  Kinds = {"get_feature", "hid_out"}
  EnvOps = {"disconnect"}
  IsoDuration = 1
  HidInterval = 1
  MaxEvents = 1
  MaxSubmits = 1
  MaxInputs = 0
  NoUrb = NoUrb
  NoArg = NoArg
SPECIFICATION Spec
INVARIANTS NoUseAfterFree
