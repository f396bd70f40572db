-------------------------- MODULE MCBridgeSession --------------------------
(* Model-checking instances of BridgeSession.                              *)
EXTENDS BridgeSession

Force == [Effects!Keep EXCEPT !.trigger = "set", !.force = "on"]
Clear == [Effects!Keep EXCEPT !.clear = TRUE, !.light = "set"]

Quiet == [host |-> {}, commands |-> {}, packets |-> {}, ops |-> {}, frames |-> 0,
          reports |-> 0, effects |-> 0]

(* The session ends in every way.                                          *)
Ending == [Quiet EXCEPT !.host = {"hid_out"}, !.frames = 1,
                        !.ops = {"stop", "told", "bt_lost", "pipe_breaks"}]
(* It ends while the host waits for the controller.                        *)
Asking == [Quiet EXCEPT !.host = {"capture_open", "feature_get", "feature_set"},
                        !.frames = 1, !.ops = {"told"}]
(* It ends while the controller reports.                                   *)
Reporting == [Quiet EXCEPT !.reports = 1, !.ops = {"told", "pipe_breaks", "mute"}]
(* Writes fail, which may end the writer for good.                         *)
Failing == [Quiet EXCEPT !.host = {"pcm", "hid_out"}, !.frames = 1, !.ops = {"write_fails"}]
(* The controller's state is changed by all who may change it.             *)
Headset == [Quiet EXCEPT !.host = {"audio_open", "pcm"}, !.frames = 1, !.reports = 1,
                         !.ops = {"headset"}]
Streaming == [Quiet EXCEPT !.host = {"pcm", "audio_open", "audio_close"}, !.frames = 2]
Talking == [Quiet EXCEPT
              !.host = {"capture_open", "capture_close", "feature_get", "test_command"},
              !.frames = 2, !.reports = 1, !.ops = {"mute"}]
(* Games author effects while audio is sent.                               *)
Gaming == [Quiet EXCEPT !.host = {"pcm", "hid_effects"}, !.frames = 1,
                        !.packets = {<<"light">>, <<"other">>}, !.effects = 1]
(* The user's command beside a packet; effects of an earlier run.          *)
Contending == [Quiet EXCEPT !.commands = {Force, Clear}, !.packets = {<<"reset", "trigger">>},
                            !.effects = 1]
Restoring == [Quiet EXCEPT !.host = {"hid_effects"}, !.frames = 1, !.ops = {"effects_saved"},
                           !.commands = {Clear}, !.effects = 2]

(* Forced effects meet a game's and the capture or the mute button.        *)
Capturing == [Quiet EXCEPT !.host = {"hid_effects", "capture_open"}, !.frames = 2,
                           !.ops = {"effects_saved"}]
Muting == [Quiet EXCEPT !.host = {"hid_effects"}, !.frames = 1, !.reports = 1,
                        !.ops = {"mute", "effects_saved"}]

Twelve == {Ending, Asking, Reporting, Failing, Headset, Streaming, Talking,
           Gaming, Contending, Restoring, Capturing, Muting}
=============================================================================
