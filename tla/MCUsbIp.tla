------------------------------ MODULE MCUsbIp ------------------------------
(* Model-checking instances of UsbIp.                                      *)
EXTENDS UsbIp

(* Requests that wait for the daemon's answer, which may be late.          *)
Asking == [kinds |-> {"get_report", "control"}, ops |-> {"unlink", "close", "late", "no_reply"},
           time |-> 0, reports |-> 0, frames |-> 1, sessions |-> 1]
(* Input and output reports.                                               *)
Reporting == [kinds |-> {"hid_in", "hid_out"}, ops |-> {"close"},
              time |-> 0, reports |-> 2, frames |-> 1, sessions |-> 1]
(* Isochronous URBs that wait for their time.                              *)
Streaming == [kinds |-> {"audio_out", "audio_in", "set_interface"},
              ops |-> {"unlink", "mic"},
              time |-> 1, reports |-> 0, frames |-> 1, sessions |-> 1]
(* Everything ends, in every way; a second session follows a first.        *)
Ending == [kinds |-> {"get_report", "audio_out"},
           ops |-> {"close", "no_reply", "daemon_ends", "attach_fails", "stop"},
           time |-> 0, reports |-> 0, frames |-> 1, sessions |-> 2]
Four == {Asking, Reporting, Streaming, Ending}
=============================================================================
