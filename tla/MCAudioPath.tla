----------------------------- MODULE MCAudioPath -----------------------------
(* Model-checking instances of AudioPath: worlds that each give two of the  *)
(* three sources, or two sessions, their turn.                              *)
EXTENDS AudioPath

Quiet == [window |-> 1, frames |-> 0, streams |-> 0, published |-> 0,
          commands |-> 0, sessions |-> 1]
(* The host streams and changes the interface, and packets fill no chunk.   *)
Hosting  == [Quiet EXCEPT !.window = 2, !.frames = 4, !.commands = 3]
(* The desktop's audio beside the host's.                                   *)
Mixing   == [Quiet EXCEPT !.frames = 2, !.streams = 1, !.published = 2]
(* More of the desktop's audio than the ring and the queue hold.            *)
Crowding == [Quiet EXCEPT !.streams = 1, !.published = 4]
(* Streams that end and begin beside a tone.                                *)
Toning   == [Quiet EXCEPT !.streams = 2, !.published = 1, !.commands = 2]
(* A second session while a stream goes on.                                 *)
Rejoining == [Quiet EXCEPT !.streams = 2, !.published = 2, !.sessions = 2]

Five == {Hosting, Mixing, Crowding, Toning, Rejoining}
=============================================================================
