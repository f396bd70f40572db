CONSTANTS
  Urbs = {u1, u2}
  Reports = {r1}
  Kinds = {"get_feature", "iso_out", "hid_in", "control", "hid_out", "set_feature"}
  EnvOps = {"unlink", "early_unlink"}
  IsoDuration = 2
  HidInterval = 1
  MaxEvents = 1
  MaxSubmits = 1
  MaxInputs = 2
  NoUrb = NoUrb
  NoArg = NoArg
SPECIFICATION FairDaemonSpec
INVARIANTS IsoRealtime NoInputHeldBack UnlinkWins
PROPERTIES ServiceSafe GivenBack
