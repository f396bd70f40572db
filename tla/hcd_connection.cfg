CONSTANTS
  Urbs = {u1}
  Reports = {r1}
  Kinds = {"set_config", "set_interface", "hid_in", "iso_in", "get_feature"}
  EnvOps = {"early_unlink", "unlink_before_wait", "unasked_reply","disconnect", "release", "set_profile", "stop", "hub"}
  IsoDuration = 1
  HidInterval = 1
  MaxEvents = 2
  MaxSubmits = 1
  MaxInputs = 0
  NoUrb = NoUrb
  NoArg = NoArg
SPECIFICATION Spec
INVARIANTS TypeOK ListsMatchState HubSeesEveryChange ConnectionAgrees DrainedBeforeExit
CHECK_DEADLOCK FALSE
