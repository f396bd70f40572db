------------------------------- MODULE UsbIp -------------------------------
(***************************************************************************)
(* One virtual port of the USB/IP server in                                *)
(* src/src/platform/win32/vds_usbip.cc: VirtualPort::Impl with its four    *)
(* threads, the server's listener and the two peers they talk to.          *)
(*                                                                         *)
(*   owner    constructs the port, and stops it                            *)
(*   listener Server::listener_loop: takes clients, one at a time          *)
(*   session  handle_import_session: serves one USB/IP client, one         *)
(*            command at a time                                            *)
(*   reader   pipe_reader_loop: sorts the daemon's frames into queues      *)
(*   pacer    iso_pacer_loop: sends isochronous replies when they are due  *)
(*   host     the USB/IP client driver behind the socket (external)        *)
(*   daemon   the bridge session behind the named pipe: it opens the pipe  *)
(*            once, answers GET_REPORTs in order and writes input reports  *)
(*            and microphone frames                                        *)
(*                                                                         *)
(* A URB is named by its sequence number, a GET_REPORT's answer by the     *)
(* number of the request it answers, an input report by its place in time. *)
(* A socket's handle is the number of its session: handles are not used    *)
(* again.  Times are in milliseconds of audio, the microphone's buffer too.*)
(* A definition whose comment begins with "Mutant" is the definition after *)
(* it with a bug put in.                                                   *)
(***************************************************************************)
EXTENDS Integers, SequencesExt

CONSTANTS
  MaxSeq,             \* USBIP_CMD_SUBMITs the host sends
  Worlds,             \* what host and daemon may do
  Packets,            \* packets of an isochronous URB, a millisecond each
  StaleAfter,         \* how late a stream may be before it starts anew
  MicPrime, MicMax    \* kMicPrimeBytes, kMicMaxBufferBytes

AllKinds == {"control", "set_interface", "get_report", "hid_in", "hid_out",
             "audio_out", "audio_in"}
Iso      == {"audio_out", "audio_in"}
AllEnvOps == {"unlink", "close", "no_reply", "late", "mic", "daemon_ends",
              "attach_fails", "stop"}

(* The transfers the host submits, what else may happen, and the bounds: of *)
(* idle time, input reports, frames in the pipe and sessions.               *)
World == [kinds : SUBSET AllKinds, ops : SUBSET AllEnvOps,
          time : Nat, reports : Nat, frames : Nat, sessions : Nat]

ASSUME UsbIpAssumption ==
  /\ Worlds \subseteq World /\ {MaxSeq, StaleAfter} \subseteq Nat
  /\ Packets \in Nat \ {0}
  /\ MicPrime \in Nat /\ MicMax \in Nat /\ MicPrime <= MicMax

Seqs    == 1..MaxSeq
Nothing == 0                       \* no URB, no answer, an empty answer
Paced   == [seq : Seqs, no : Nat, due : Nat]
NoReply == [seq |-> Nothing, no |-> 0, due |-> 0]

VARIABLES
  owner, stop_requested,
  session, current, session_no, client_socket, attached,
  link, inbox,                     \* the connection and what it carries here
  host, kind, answer,              \* the client driver's record of its URBs
  pipe, daemon, asked, frames,     \* the named pipe and its other end
  reader, hid_in_queue, feature_reply_queue, mic_ring_buffer, mic_primed,
  pacer, in_hand, paced_replies, iso_next_due,
  listener, world, now, hid_written

ownerVars == <<owner, stop_requested>>
sessVars  == <<session, current, session_no, client_socket, attached>>
linkVars  == <<link, inbox>>
hostVars  == <<host, kind, answer>>
pipeVars  == <<pipe, daemon, asked, frames>>
demuxVars == <<hid_in_queue, feature_reply_queue, mic_ring_buffer, mic_primed>>
pacerVars == <<pacer, in_hand, paced_replies, iso_next_due>>
timeVars  == <<listener, world, now, hid_written>>
vars == <<ownerVars, sessVars, linkVars, hostVars, pipeVars, reader,
          demuxVars, pacerVars, timeVars>>

Init ==
  /\ owner = "creating" /\ stop_requested = FALSE
  /\ session = "none" /\ current = Nothing /\ session_no = 0
  /\ client_socket = FALSE /\ attached = FALSE
  /\ link = "closed" /\ inbox = <<>>
  /\ host = [s \in Seqs |-> "idle"] /\ kind = [s \in Seqs |-> "control"]
  /\ answer = [s \in Seqs |-> Nothing]
  /\ pipe = "closed" /\ daemon = "absent" /\ asked = <<>> /\ frames = <<>>
  /\ reader = "none"
  /\ hid_in_queue = <<>> /\ feature_reply_queue = <<>>
  /\ mic_ring_buffer = 0 /\ mic_primed = FALSE
  /\ pacer = "none" /\ in_hand = NoReply /\ paced_replies = <<>>
  /\ iso_next_due = [k \in Iso |-> -1]
  /\ listener = "none" /\ world \in Worlds /\ now = 0 /\ hid_written = 0

-----------------------------------------------------------------------------
(* The host.                                                                *)

Submit(s, k) ==
  /\ link = "up" /\ host[s] = "idle" /\ \A t \in Seqs : t < s => host[t] # "idle"
  /\ host' = [host EXCEPT ![s] = "sent"] /\ kind' = [kind EXCEPT ![s] = k]
  /\ inbox' = Append(inbox, [op |-> "submit", seq |-> s])
  /\ UNCHANGED <<ownerVars, sessVars, link, answer, pipeVars, reader, demuxVars,
                 pacerVars, timeVars>>

Unlink(s) ==
  /\ "unlink" \in world.ops /\ link = "up" /\ host[s] = "sent"
  /\ host' = [host EXCEPT ![s] = "unlinking"]
  /\ inbox' = Append(inbox, [op |-> "unlink", seq |-> s])
  /\ UNCHANGED <<ownerVars, sessVars, link, kind, answer, pipeVars, reader,
                 demuxVars, pacerVars, timeVars>>

(* The connection ends: what the host still expects will not come.  When    *)
(* the host has closed it, what came before may still be received, or be    *)
(* lost with a reset; once this end has shut or closed its socket, nothing. *)
Lost == [s \in Seqs |-> IF host[s] \in {"sent", "unlinking"} THEN "lost" ELSE host[s]]
PeerCloses == link = "up" /\ link' = "closed" /\ host' = Lost /\ UNCHANGED inbox
LinkEnds(how) ==
  /\ inbox' = <<>>
  /\ IF link = "up" THEN link' = how /\ host' = Lost ELSE UNCHANGED <<link, host>>

HostCloses ==
  /\ "close" \in world.ops /\ PeerCloses
  /\ UNCHANGED <<ownerVars, sessVars, kind, answer, pipeVars, reader,
                 demuxVars, pacerVars, timeVars>>

(* What the driver makes of a RET_SUBMIT and of a RET_UNLINK.               *)
Completed(s, a) ==
  /\ host' = [host EXCEPT ![s] = IF @ = "unlinked" THEN "late" ELSE "done"]
  /\ answer' = [answer EXCEPT ![s] = a]
Unlinked(s) ==
  host' = [host EXCEPT ![s] = IF @ = "unlinking" THEN "unlinked" ELSE @]

-----------------------------------------------------------------------------
(* The daemon.                                                              *)

PipeUp == pipe = "connected" /\ daemon = "open"

DaemonOpens ==
  /\ owner = "open" /\ daemon = "absent" /\ pipe = "free"
  /\ daemon' = "open" /\ pipe' = "connected"
  /\ UNCHANGED <<ownerVars, sessVars, linkVars, hostVars, asked, frames, reader,
                 demuxVars, pacerVars, timeVars>>

DaemonAnswers ==
  /\ PipeUp /\ asked # <<>> /\ Len(frames) < world.frames
  /\ asked' = Tail(asked)
  /\ frames' = Append(frames, [type |-> "FEATURE_REPLY", of |-> Head(asked)])
  /\ UNCHANGED <<ownerVars, sessVars, linkVars, hostVars, pipe, daemon, reader,
                 demuxVars, pacerVars, timeVars>>

(* The controller does not give the report: no frame is written.            *)
DaemonFails ==
  /\ "no_reply" \in world.ops /\ PipeUp /\ asked # <<>>
  /\ asked' = Tail(asked)
  /\ UNCHANGED <<ownerVars, sessVars, linkVars, hostVars, pipe, daemon, frames,
                 reader, demuxVars, pacerVars, timeVars>>

DaemonReports ==
  /\ PipeUp /\ hid_written < world.reports /\ Len(frames) < world.frames
  /\ hid_written' = hid_written + 1
  /\ frames' = Append(frames, [type |-> "HID_IN", of |-> hid_written'])
  /\ UNCHANGED <<ownerVars, sessVars, linkVars, hostVars, pipe, daemon, asked,
                 reader, demuxVars, pacerVars, listener, world, now>>

DaemonRecords ==
  /\ "mic" \in world.ops /\ PipeUp /\ Len(frames) < world.frames
  /\ frames' = Append(frames, [type |-> "AUDIO_IN", of |-> Nothing])
  /\ UNCHANGED <<ownerVars, sessVars, linkVars, hostVars, pipe, daemon, asked,
                 reader, demuxVars, pacerVars, timeVars>>

(* The bridge session closes its end, before it destroys the port.          *)
DaemonCloses ==
  /\ "daemon_ends" \in world.ops /\ daemon = "open" /\ daemon' = "gone"
  /\ UNCHANGED <<ownerVars, sessVars, linkVars, hostVars, pipe, asked, frames,
                 reader, demuxVars, pacerVars, timeVars>>

-----------------------------------------------------------------------------
(* The server's listener.  It serves one client at a time, and begins when  *)
(* the first port is registered.                                            *)

ListenerReady ==
  /\ listener = "binding"
  /\ \/ listener' = "accepting"
     \/ "attach_fails" \in world.ops /\ listener' = "failed"
  /\ UNCHANGED <<ownerVars, sessVars, linkVars, hostVars, pipeVars, reader,
                 demuxVars, pacerVars, world, now, hid_written>>

Registered == owner \in {"attaching", "open", "detaching", "detached"}
FindPort   == Registered /\ ~stop_requested

(* handle_client: a client asks for the port.  Any other request, and one   *)
(* for a port that is not found, is answered and changes nothing.           *)
ClientAsks ==
  /\ listener = "accepting" /\ FindPort /\ session_no < world.sessions
  /\ listener' = "found"
  /\ UNCHANGED <<ownerVars, sessVars, linkVars, hostVars, pipeVars, reader,
                 demuxVars, pacerVars, world, now, hid_written>>

(* begin_import_session looks at the port again, under session_mutex.       *)
(* Mutant: it trusts find_port.                                             *)
TrustFound == session = "none"
Admissible == session = "none" /\ ~stop_requested
Refuse ==
  /\ listener = "found" /\ ~Admissible /\ listener' = "accepting"
  /\ UNCHANGED <<ownerVars, sessVars, linkVars, hostVars, pipeVars, reader,
                 demuxVars, pacerVars, world, now, hid_written>>

Admit ==
  /\ listener = "found" /\ Admissible /\ listener' = "accepting"
  /\ session' = "admitted" /\ session_no' = session_no + 1
  /\ link' = "up" /\ inbox' = <<>>
  /\ UNCHANGED <<ownerVars, current, client_socket, attached, hostVars, pipeVars,
                 reader, demuxVars, pacerVars, world, now, hid_written>>

(* The session's thread cannot be created: the client's socket is closed    *)
(* and the port is free for the next one.                                   *)
AdmitFails ==
  /\ "attach_fails" \in world.ops
  /\ listener = "found" /\ Admissible /\ listener' = "accepting"
  /\ UNCHANGED <<ownerVars, sessVars, linkVars, hostVars, pipeVars, reader,
                 demuxVars, pacerVars, world, now, hid_written>>

-----------------------------------------------------------------------------
(* The session thread.                                                      *)

Begin ==
  /\ session = "admitted" /\ session' = "importing" /\ client_socket' = TRUE
  /\ UNCHANGED <<ownerVars, current, session_no, attached, linkVars, hostVars,
                 pipeVars, reader, demuxVars, pacerVars, timeVars>>

(* The import reply, which may seem sent to a host that has gone, too.      *)
Import ==
  /\ session = "importing"
  /\ \/ link # "shut" /\ session' = "connect" /\ attached' = TRUE
     \/ link # "up" /\ session' = "finishing" /\ UNCHANGED attached
  /\ UNCHANGED <<ownerVars, current, session_no, client_socket, linkVars,
                 hostVars, pipeVars, reader, demuxVars, pacerVars, timeVars>>

(* while (!stop_requested.load()).                                          *)
Continue == session' = IF stop_requested THEN "cleanup" ELSE "receive"

(* The pipe is connected; the reader is started by the first session only:  *)
(* its thread stays joinable after it has ended.                            *)
Serve ==
  /\ Continue /\ reader' = IF reader = "none" THEN "reading" ELSE reader

ConnectNamedPipe ==
  /\ session = "connect"
  /\ \/ PipeUp /\ Serve /\ UNCHANGED pipe
     \/ pipe = "connected" /\ daemon = "gone"
        /\ session' = "cleanup" /\ UNCHANGED <<pipe, reader>>
     \/ pipe # "connected" /\ pipe' = "free"
        /\ session' = "connecting" /\ UNCHANGED reader
  /\ UNCHANGED <<ownerVars, current, session_no, client_socket, attached,
                 linkVars, hostVars, daemon, asked, frames, demuxVars,
                 pacerVars, timeVars>>

PipeConnected ==
  /\ session = "connecting" /\ pipe = "connected" /\ Serve
  /\ UNCHANGED <<ownerVars, current, session_no, client_socket, attached,
                 linkVars, hostVars, pipeVars, demuxVars, pacerVars, timeVars>>

(* send_exact fails once the connection has ended, and the session with it; *)
(* what a host that has gone is sent may still seem sent.                   *)
Reply(s, a) ==
  \/ link = "up" /\ Completed(s, a) /\ Continue
  \/ link # "up" /\ session' = "cleanup" /\ UNCHANGED <<host, answer>>
  \/ link = "closed" /\ Continue /\ UNCHANGED <<host, answer>>

ReceiveUnlink ==
  /\ session = "receive" /\ inbox # <<>> /\ Head(inbox).op = "unlink"
  /\ inbox' = Tail(inbox) /\ Unlinked(Head(inbox).seq) /\ Continue
  /\ UNCHANGED <<ownerVars, current, session_no, client_socket, attached, link,
                 kind, answer, pipeVars, reader, demuxVars, pacerVars, timeVars>>

(* A command and all its data have been read.  (The exits for a direction,  *)
(* a length or packets out of bounds are not taken: the client driver sends *)
(* none such.)                                                              *)
ReceiveSubmit ==
  /\ session = "receive" /\ inbox # <<>> /\ Head(inbox).op = "submit"
  /\ inbox' = Tail(inbox) /\ current' = Head(inbox).seq /\ session' = "handle"
  /\ UNCHANGED <<ownerVars, session_no, client_socket, attached, link, hostVars,
                 pipeVars, reader, demuxVars, pacerVars, timeVars>>

ReceiveFails ==
  /\ session = "receive" /\ link # "up" /\ session' = "cleanup"
  /\ UNCHANGED <<ownerVars, current, session_no, client_socket, attached,
                 linkVars, hostVars, pipeVars, reader, demuxVars, pacerVars,
                 timeVars>>

(* handle_cmd_submit.                                                       *)
Handles(ks) == session = "handle" /\ kind[current] \in ks

(* Descriptors, the feature unit, what is stalled.                          *)
HandleControl ==
  /\ Handles({"control"}) /\ Reply(current, Nothing)
  /\ UNCHANGED <<ownerVars, current, session_no, client_socket, attached,
                 linkVars, kind, pipeVars, reader, demuxVars, pacerVars, timeVars>>

(* A frame the daemon does not take ends the session.                       *)
Writing == {"set_interface", "get_report", "hid_out", "audio_out"}
WriteFails ==
  /\ Handles(Writing) /\ ~PipeUp /\ session' = "cleanup"
  /\ mic_ring_buffer' = IF kind[current] = "set_interface" THEN 0 ELSE mic_ring_buffer
  /\ mic_primed' = (mic_primed /\ kind[current] # "set_interface")
  /\ UNCHANGED <<ownerVars, current, session_no, client_socket, attached,
                 linkVars, hostVars, pipeVars, reader, hid_in_queue,
                 feature_reply_queue, pacerVars, timeVars>>

(* SET_INTERFACE of the microphone: its buffer starts from empty.           *)
SetInterface ==
  /\ Handles({"set_interface"}) /\ PipeUp /\ Reply(current, Nothing)
  /\ mic_ring_buffer' = 0 /\ mic_primed' = FALSE
  /\ UNCHANGED <<ownerVars, current, session_no, client_socket, attached,
                 linkVars, kind, pipeVars, reader, hid_in_queue,
                 feature_reply_queue, pacerVars, timeVars>>

(* HID OUT, SET_REPORT and the other interfaces.                            *)
HidOut ==
  /\ Handles({"hid_out"}) /\ PipeUp /\ Reply(current, Nothing)
  /\ UNCHANGED <<ownerVars, current, session_no, client_socket, attached,
                 linkVars, kind, pipeVars, reader, demuxVars, pacerVars, timeVars>>

(* GET_REPORT asks the daemon and waits half a second for a FEATURE_REPLY.  *)
GetReport ==
  /\ Handles({"get_report"}) /\ PipeUp
  /\ asked' = Append(asked, current) /\ session' = "wait_feature"
  /\ UNCHANGED <<ownerVars, current, session_no, client_socket, attached,
                 linkVars, hostVars, pipe, daemon, frames, reader, demuxVars,
                 pacerVars, timeVars>>

(* Mutant: the reply that is used stays at the front of its queue.          *)
KeepReply == UNCHANGED feature_reply_queue
TakeReply == feature_reply_queue' = Tail(feature_reply_queue)

FeatureReply ==
  /\ session = "wait_feature" /\ feature_reply_queue # <<>>
  /\ Reply(current, Head(feature_reply_queue)) /\ TakeReply
  /\ UNCHANGED <<ownerVars, current, session_no, client_socket, attached,
                 linkVars, kind, pipeVars, reader, hid_in_queue,
                 mic_ring_buffer, mic_primed, pacerVars, timeVars>>

(* 500 ms pass, or the port stops.  A daemon that still has the request     *)
(* answers in time unless it may be late.                                   *)
StillComing ==
  \/ asked # <<>> /\ PipeUp
  \/ reader = "reading" /\ \E i \in DOMAIN frames : frames[i].type = "FEATURE_REPLY"
FeatureTimeout ==
  /\ session = "wait_feature" /\ feature_reply_queue = <<>>
  /\ "late" \in world.ops \/ stop_requested \/ ~StillComing
  /\ Reply(current, Nothing)
  /\ UNCHANGED <<ownerVars, current, session_no, client_socket, attached,
                 linkVars, kind, pipeVars, reader, demuxVars, pacerVars, timeVars>>

(* HID IN: the held report, or the next one within 50 ms, or nothing.       *)
HidIn ==
  /\ Handles({"hid_in"}) /\ hid_in_queue # <<>>
  /\ Reply(current, Head(hid_in_queue)) /\ hid_in_queue' = Tail(hid_in_queue)
  /\ UNCHANGED <<ownerVars, current, session_no, client_socket, attached,
                 linkVars, kind, pipeVars, reader, feature_reply_queue,
                 mic_ring_buffer, mic_primed, pacerVars, timeVars>>

HidInTimeout ==
  /\ Handles({"hid_in"}) /\ hid_in_queue = <<>> /\ Reply(current, Nothing)
  /\ UNCHANGED <<ownerVars, current, session_no, client_socket, attached,
                 linkVars, kind, pipeVars, reader, demuxVars, pacerVars, timeVars>>

(* The pacing of one direction: the first URB of a stream is due at once,   *)
(* every other one when the audio before it has had its time.               *)
(* Mutant: every URB starts the stream anew.                                *)
DueNow(anchor)  == now
DueTime(anchor) == IF anchor = -1 \/ anchor < now - StaleAfter THEN now ELSE anchor

(* std::multimap::emplace: behind all that are due no later.                *)
DueBefore(r) == {i \in DOMAIN paced_replies : paced_replies[i].due <= r.due}
Scheduled(r) == InsertAt(paced_replies, Cardinality(DueBefore(r)) + 1, r)

(* Mutant: the pacer sleeps on.                                             *)
LeaveAsleep == UNCHANGED pacer
NotifyPacer == pacer' = IF pacer \in {"waiting", "timed"} THEN "look" ELSE pacer

Paces == pacer # "park"            \* pacer_mutex is free
Pace(k) ==
  LET due == DueTime(iso_next_due[k]) IN
  /\ Paces
  /\ iso_next_due' = [iso_next_due EXCEPT ![k] = due + Packets]
  /\ paced_replies' = Scheduled([seq |-> current, no |-> session_no, due |-> due])
  /\ NotifyPacer /\ UNCHANGED in_hand
  /\ Continue

AudioOut ==
  /\ Handles({"audio_out"}) /\ PipeUp /\ Pace("audio_out")
  /\ UNCHANGED <<ownerVars, current, session_no, client_socket, attached,
                 linkVars, hostVars, pipeVars, reader, demuxVars, timeVars>>

(* take_mic_bytes: silence until the buffer is primed, and again once it    *)
(* has run dry.                                                             *)
Primed == mic_primed \/ mic_ring_buffer >= MicPrime
AudioIn ==
  /\ Handles({"audio_in"}) /\ Pace("audio_in")
  /\ mic_primed' = (Primed /\ mic_ring_buffer >= Packets)
  /\ mic_ring_buffer' =
       IF ~Primed THEN mic_ring_buffer
       ELSE IF mic_ring_buffer >= Packets THEN mic_ring_buffer - Packets ELSE 0
  /\ UNCHANGED <<ownerVars, current, session_no, client_socket, attached,
                 linkVars, hostVars, pipeVars, reader, hid_in_queue,
                 feature_reply_queue, timeVars>>

(* Mutant: the next session inherits the replies.                           *)
KeepPaced == UNCHANGED paced_replies
DropPaced == paced_replies' = <<>>

(* cleanup_connection.                                                      *)
Cleanup ==
  /\ session = "cleanup" /\ Paces
  /\ attached' = FALSE
  /\ DropPaced /\ iso_next_due' = [k \in Iso |-> -1]
  /\ pipe' = "disconnected" /\ asked' = <<>> /\ frames' = <<>>
  /\ session' = "finishing"
  /\ UNCHANGED <<ownerVars, current, session_no, client_socket, linkVars,
                 hostVars, daemon, reader, demuxVars, pacer, in_hand, timeVars>>

(* finish_import_session, and the thread's Socket closes.                   *)
Finish ==
  /\ session = "finishing" /\ session' = "none" /\ client_socket' = FALSE
  /\ current' = Nothing
  /\ LinkEnds("closed")
  /\ UNCHANGED <<ownerVars, session_no, attached, kind, answer, pipeVars, reader,
                 demuxVars, pacerVars, timeVars>>

-----------------------------------------------------------------------------
(* The pipe reader.                                                         *)

(* Only the newest input report is kept.                                    *)
NewestReport(n) == hid_in_queue' = <<n>>

(* Mutant: the buffer grows by one frame too many.                          *)
Uncapped(n) == IF n > MicMax + 1 THEN MicMax ELSE n
Capped(n)   == IF n > MicMax THEN MicMax ELSE n

ReaderReads ==
  /\ reader = "reading" /\ pipe = "connected" /\ frames # <<>>
  /\ frames' = Tail(frames)
  /\ IF stop_requested
       THEN reader' = "exited" /\ UNCHANGED demuxVars
       ELSE /\ UNCHANGED reader
            /\ \/ /\ Head(frames).type = "HID_IN" /\ NewestReport(Head(frames).of)
                  /\ UNCHANGED <<feature_reply_queue, mic_ring_buffer, mic_primed>>
               \/ /\ Head(frames).type = "FEATURE_REPLY"
                  /\ feature_reply_queue' = Append(feature_reply_queue, Head(frames).of)
                  /\ UNCHANGED <<hid_in_queue, mic_ring_buffer, mic_primed>>
               \/ /\ Head(frames).type = "AUDIO_IN"
                  /\ mic_ring_buffer' = Capped(mic_ring_buffer + 1)
                  /\ UNCHANGED <<hid_in_queue, feature_reply_queue, mic_primed>>
  /\ UNCHANGED <<ownerVars, sessVars, linkVars, hostVars, pipe, daemon, asked,
                 pacerVars, listener, world, now, hid_written>>

(* The pipe is disconnected or closed, or the daemon's end and all it has   *)
(* written are gone.                                                        *)
ReaderFails ==
  /\ reader = "reading"
  /\ pipe = "connected" => daemon = "gone" /\ frames = <<>>
  /\ reader' = "exited"
  /\ UNCHANGED <<ownerVars, sessVars, linkVars, hostVars, pipeVars, demuxVars,
                 pacerVars, timeVars>>

-----------------------------------------------------------------------------
(* The pacer.  It holds pacer_mutex while it looks and until it waits, so   *)
(* nobody but stop(), which notifies without the mutex, comes in between.   *)

PacerLooks ==
  /\ pacer = "look"
  /\ \/ stop_requested /\ pacer' = "exited" /\ UNCHANGED <<in_hand, paced_replies>>
     \/ /\ ~stop_requested /\ paced_replies = <<>>
        /\ pacer' = "park" /\ UNCHANGED <<in_hand, paced_replies>>
     \/ /\ ~stop_requested /\ paced_replies # <<>> /\ Head(paced_replies).due > now
        /\ pacer' = "timed" /\ UNCHANGED <<in_hand, paced_replies>>
     \/ /\ ~stop_requested /\ paced_replies # <<>> /\ Head(paced_replies).due <= now
        /\ in_hand' = Head(paced_replies) /\ paced_replies' = Tail(paced_replies)
        /\ pacer' = "sending"
  /\ UNCHANGED <<ownerVars, sessVars, linkVars, hostVars, pipeVars, reader,
                 demuxVars, iso_next_due, timeVars>>

PacerWaits ==
  /\ \/ pacer = "park" /\ pacer' = "waiting"
     \/ /\ pacer = "timed" /\ pacer' = "look"
        /\ paced_replies # <<>> => Head(paced_replies).due <= now
  /\ UNCHANGED <<ownerVars, sessVars, linkVars, hostVars, pipeVars, reader,
                 demuxVars, in_hand, paced_replies, iso_next_due, timeVars>>

(* The reply goes out unlocked, to the socket it was made for.              *)
PacerSends ==
  /\ pacer = "sending" /\ pacer' = "look" /\ in_hand' = NoReply
  /\ IF link = "up" /\ in_hand.no = session_no
       THEN Completed(in_hand.seq, Nothing)
       ELSE UNCHANGED <<host, answer>>
  /\ UNCHANGED <<ownerVars, sessVars, linkVars, kind, pipeVars, reader,
                 demuxVars, paced_replies, iso_next_due, timeVars>>

Tick ==
  /\ now < world.time \/ \E i \in DOMAIN paced_replies : paced_replies[i].due > now
  /\ now' = now + 1
  /\ UNCHANGED <<ownerVars, sessVars, linkVars, hostVars, pipeVars, reader,
                 demuxVars, pacerVars, listener, world, hid_written>>

-----------------------------------------------------------------------------
(* The owner: VirtualPort's constructor, destructor and stop().             *)

(* start(): the pipe and the pacer, then the server.                        *)
Start ==
  /\ owner = "creating" /\ owner' = "registering"
  /\ pipe' = "free" /\ pacer' = "look"
  /\ UNCHANGED <<stop_requested, sessVars, linkVars, hostVars, daemon, asked,
                 frames, reader, demuxVars, in_hand, paced_replies, iso_next_due,
                 timeVars>>

ServerStarts ==
  /\ owner = "registering" /\ listener = "none" /\ listener' = "binding"
  /\ UNCHANGED <<ownerVars, sessVars, linkVars, hostVars, pipeVars, reader,
                 demuxVars, pacerVars, world, now, hid_written>>

RegisterPort ==
  /\ owner = "registering" /\ listener = "accepting" /\ owner' = "attaching"
  /\ UNCHANGED <<stop_requested, sessVars, linkVars, hostVars, pipeVars, reader,
                 demuxVars, pacerVars, timeVars>>

(* usbip.exe has had the port imported.                                     *)
OwnerAttached ==
  /\ owner = "attaching" /\ attached /\ owner' = "open"
  /\ UNCHANGED <<stop_requested, sessVars, linkVars, hostVars, pipeVars, reader,
                 demuxVars, pacerVars, timeVars>>

(* The bridge session is over and has closed its end of the pipe: the       *)
(* destructor asks usbip.exe for the client's port and has it detached.     *)
(* Either may fail or take ten seconds, and is given up.                    *)
AttachedClientPort ==
  /\ "stop" \in world.ops /\ owner = "open" /\ daemon # "open"
  /\ owner' = "detached" \/ (link = "up" /\ owner' = "detaching")
  /\ UNCHANGED <<stop_requested, sessVars, linkVars, hostVars, pipeVars, reader,
                 demuxVars, pacerVars, timeVars>>

DetachClient ==
  /\ owner = "detaching" /\ owner' = "detached"
  /\ PeerCloses \/ UNCHANGED <<linkVars, host>>
  /\ UNCHANGED <<stop_requested, sessVars, kind, answer, pipeVars, reader,
                 demuxVars, pacerVars, timeVars>>

(* stop() is called by the destructor, or by the constructor when a step of *)
(* it fails or usbip.exe fails or takes ten seconds.                        *)
StopRequested ==
  /\ \/ owner = "detached"
     \/ owner \in {"creating", "registering", "attaching"} /\ "attach_fails" \in world.ops
  /\ listener # "binding"
  /\ stop_requested' = TRUE /\ owner' = "notify"
  /\ UNCHANGED <<sessVars, linkVars, hostVars, pipeVars, reader, demuxVars,
                 pacerVars, timeVars>>

StopNotifies ==
  /\ owner = "notify" /\ owner' = "shutdown" /\ NotifyPacer
  /\ UNCHANGED <<stop_requested, sessVars, linkVars, hostVars, pipeVars, reader,
                 demuxVars, in_hand, paced_replies, iso_next_due, timeVars>>

(* Mutant: the session's socket is left alone.                              *)
LeaveSocket == UNCHANGED <<linkVars, host>>
ShutSocket  == IF client_socket THEN LinkEnds("shut") ELSE UNCHANGED <<linkVars, host>>

StopShutsDown ==
  /\ owner = "shutdown" /\ owner' = "cancel"
  /\ ShutSocket /\ client_socket' = FALSE
  /\ UNCHANGED <<stop_requested, session, current, session_no, attached, kind,
                 answer, pipeVars, reader, demuxVars, pacerVars, timeVars>>

(* CancelIoEx ends what is pending on the pipe now, nothing that comes      *)
(* later.                                                                   *)
StopCancels ==
  /\ owner = "cancel" /\ owner' = "await"
  /\ session' = IF session = "connecting" THEN "cleanup" ELSE session
  /\ reader' = IF reader = "reading" THEN "exited" ELSE reader
  /\ UNCHANGED <<stop_requested, current, session_no, client_socket, attached,
                 linkVars, hostVars, pipeVars, demuxVars, pacerVars, timeVars>>

StopAwaitsSession ==
  /\ owner = "await" /\ session = "none" /\ owner' = "join_reader"
  /\ pipe' = "closed" /\ frames' = <<>> /\ asked' = <<>>
  /\ UNCHANGED <<stop_requested, sessVars, linkVars, hostVars, daemon, reader,
                 demuxVars, pacerVars, timeVars>>

StopJoinsReader ==
  /\ owner = "join_reader" /\ reader # "reading" /\ owner' = "join_pacer"
  /\ NotifyPacer
  /\ UNCHANGED <<stop_requested, sessVars, linkVars, hostVars, pipeVars, reader,
                 demuxVars, in_hand, paced_replies, iso_next_due, timeVars>>

StopJoinsPacer ==
  /\ owner = "join_pacer" /\ pacer \in {"none", "exited"} /\ owner' = "stopped"
  /\ UNCHANGED <<stop_requested, sessVars, linkVars, hostVars, pipeVars, reader,
                 demuxVars, pacerVars, timeVars>>

-----------------------------------------------------------------------------
Host == \/ \E s \in Seqs, k \in world.kinds : Submit(s, k)
        \/ \E s \in Seqs : Unlink(s)
        \/ HostCloses
Serving ==
  \/ DaemonOpens \/ DaemonAnswers
Daemon == \/ DaemonFails \/ DaemonReports \/ DaemonRecords \/ DaemonCloses
Session ==
  \/ Begin \/ Import \/ ConnectNamedPipe \/ PipeConnected
  \/ ReceiveUnlink \/ ReceiveSubmit \/ ReceiveFails
  \/ HandleControl \/ WriteFails \/ SetInterface \/ HidOut
  \/ GetReport \/ FeatureReply \/ FeatureTimeout
  \/ HidIn \/ HidInTimeout \/ AudioOut \/ AudioIn
  \/ Cleanup \/ Finish
Reader == ReaderReads \/ ReaderFails
Pacer  == PacerLooks \/ PacerWaits \/ PacerSends
Stopping ==
  \/ StopNotifies \/ StopShutsDown \/ StopCancels \/ StopAwaitsSession
  \/ StopJoinsReader \/ StopJoinsPacer
Owner == Start \/ ServerStarts \/ RegisterPort \/ OwnerAttached
           \/ DetachClient \/ Stopping
Listener == ListenerReady \/ Refuse

Next == Host \/ Serving \/ Daemon \/ Listener \/ ClientAsks \/ Admit \/ AdmitFails
          \/ Session \/ Reader \/ Pacer \/ Owner \/ AttachedClientPort \/ StopRequested \/ Tick

Spec == Init /\ [][Next]_vars

(* Every thread of the process is scheduled, time passes, and the daemon    *)
(* opens the pipe of an attached port and answers what it is asked, unless  *)
(* it ends.  Nothing is assumed of the host.                                *)
FairSpec ==
  /\ Spec /\ WF_vars(Session) /\ WF_vars(Reader) /\ WF_vars(Pacer)
  /\ WF_vars(Owner) /\ WF_vars(Listener) /\ WF_vars(Tick) /\ WF_vars(Serving)

-----------------------------------------------------------------------------
Phases == {"none", "admitted", "importing", "connect", "connecting", "receive",
           "handle", "wait_feature", "cleanup", "finishing"}
TypeOK ==
  /\ owner \in {"creating", "registering", "attaching", "open", "detaching", "detached",
                "notify", "shutdown", "cancel", "await", "join_reader", "join_pacer", "stopped"}
  /\ stop_requested \in BOOLEAN
  /\ session \in Phases /\ current \in Seqs \cup {Nothing}
  /\ session_no \in 0..world.sessions
  /\ client_socket \in BOOLEAN /\ attached \in BOOLEAN
  /\ link \in {"up", "closed", "shut"}
  /\ inbox \in Seq([op : {"submit", "unlink"}, seq : Seqs])
  /\ host \in [Seqs -> {"idle", "sent", "unlinking", "done", "unlinked", "late", "lost"}]
  /\ kind \in [Seqs -> AllKinds] /\ answer \in [Seqs -> Nat]
  /\ pipe \in {"free", "connected", "disconnected", "closed"}
  /\ daemon \in {"absent", "open", "gone"}
  /\ asked \in Seq(Seqs)
  /\ frames \in Seq([type : {"HID_IN", "FEATURE_REPLY", "AUDIO_IN"}, of : Nat])
  /\ reader \in {"none", "reading", "exited"}
  /\ hid_in_queue \in Seq(Nat) /\ feature_reply_queue \in Seq(Nat)
  /\ mic_ring_buffer \in 0..MicMax /\ mic_primed \in BOOLEAN
  /\ pacer \in {"none", "look", "park", "waiting", "timed", "sending", "exited"}
  /\ in_hand \in Paced \cup {NoReply} /\ paced_replies \in Seq(Paced)
  /\ iso_next_due \in [Iso -> Nat \cup {-1}]
  /\ listener \in {"none", "binding", "failed", "accepting", "found"}
  /\ world \in Worlds /\ now \in Nat /\ hid_written \in Nat

(* Isochronous completions keep real time: none is sent before it is due,   *)
(* and in one direction a URB is due only when the audio of the one before  *)
(* it has had its time, so that the host cannot be driven faster.           *)
Pending == Range(paced_replies) \cup ({in_hand} \ {NoReply})
IsoRealtime ==
  /\ in_hand.due <= now
  /\ \A r, q \in Pending :
       /\ r.seq < q.seq /\ r.no = q.no /\ kind[r.seq] = kind[q.seq]
       => r.due + Packets <= q.due

(* Nothing outlives its session, and no session its port.  Replies still to *)
(* be sent are replies to the session that is served (the one in the        *)
(* pacer's hands may outlive it), and once stop() has seen the sessions end *)
(* no client that had found the port before begins another.                 *)
SessionsApart ==
  /\ paced_replies # <<>> =>
       /\ session \in {"receive", "handle", "wait_feature", "cleanup"}
       /\ \A r \in Range(paced_replies) : r.no = session_no
  /\ owner \in {"join_reader", "join_pacer", "stopped"} => session = "none"

(* What else makes types and sessions an inductive invariant: a command is  *)
(* being handled, a client that has found the port may still be admitted,   *)
(* and who stops has said so.                                               *)
Stops == {"notify", "shutdown", "cancel", "await", "join_reader", "join_pacer", "stopped"}
PortInv ==
  /\ TypeOK /\ SessionsApart
  /\ session \in {"handle", "wait_feature"} => current \in Seqs
  /\ listener = "found" => session_no < world.sessions
  /\ owner \in Stops => stop_requested

(* What makes IsoRealtime inductive.  The host numbers its commands upwards, *)
(* so what waits here is newer than the command in hand, and that is newer  *)
(* than every reply of its session that waits for its time; those have had  *)
(* their time before the stream's next one is due.                          *)
Used(s) == host[s] # "idle"
Submitted == {i \in DOMAIN inbox : inbox[i].op = "submit"}
Numbered ==
  /\ \A s, t \in Seqs : t < s /\ Used(s) => Used(t)
  /\ \A i \in Submitted : Used(inbox[i].seq) /\ current < inbox[i].seq
  /\ \A i, j \in Submitted : i < j => inbox[i].seq < inbox[j].seq
  /\ current # Nothing => Used(current)
PacedBefore ==
  \A r \in Pending :
    /\ Used(r.seq) /\ r.no <= session_no /\ kind[r.seq] \in Iso
    /\ r.no = session_no /\ session \in {"receive", "handle", "wait_feature"} =>
         /\ r.seq <= current /\ (session = "handle" => r.seq < current)
         /\ r.due + Packets <= iso_next_due[kind[r.seq]]
    /\ session \in {"admitted", "importing", "connect", "connecting"} => r.no < session_no
IsoInv == IsoRealtime /\ Numbered /\ PacedBefore

(* A GET_REPORT gets the reply to another one only after one before it went *)
(* without: replies carry no number, and a late one is the next one's.      *)
FeatureOwnAnswer ==
  \A s \in Seqs :
    kind[s] = "get_report" /\ answer[s] \notin {s, Nothing} =>
      \E t \in Seqs : /\ t < s /\ kind[t] = "get_report"
                      /\ host[t] \notin {"idle", "sent"} /\ answer[t] # t

(* What makes that inductive.  The requests on their way - asked of the      *)
(* daemon, answered in the pipe, sorted into the queue of replies - are one *)
(* ascending line; each is a GET_REPORT whose own answer nobody has, and    *)
(* that is still waited for or no longer expects it.  Whatever is on its    *)
(* way or has been answered is older than what still waits for the session. *)
Replying(g) == {i \in 1..Len(g) : g[i].type = "FEATURE_REPLY"}
OnTheWay(q, g, a) ==
  {q[i] : i \in 1..Len(q)} \cup {g[i].of : i \in Replying(g)} \cup {a[i] : i \in 1..Len(a)}
Rising(q, g, a) ==
  /\ \A i, j \in 1..Len(q) : i < j => q[i] < q[j]
  /\ \A i, j \in Replying(g) : i < j => g[i].of < g[j].of
  /\ \A i, j \in 1..Len(a) : i < j => a[i] < a[j]
  /\ \A i \in 1..Len(q), j \in Replying(g) : q[i] < g[j].of
  /\ \A i \in 1..Len(q), j \in 1..Len(a) : q[i] < a[j]
  /\ \A i \in Replying(g), j \in 1..Len(a) : g[i].of < a[j]
Expected == OnTheWay(feature_reply_queue, frames, asked)
LinkLost == link # "up" => \A s \in Seqs : host[s] \notin {"sent", "unlinking"}
OwnReplyAhead ==
  \A t \in Expected :
    /\ t \in Seqs /\ kind[t] = "get_report" /\ Used(t) /\ answer[t] # t
    /\ host[t] # "sent" \/ (t = current /\ session = "wait_feature")
Older ==
  \A t \in Seqs : t \in Expected \/ answer[t] # Nothing =>
    /\ Used(t) /\ \A i \in Submitted : t < inbox[i].seq
    /\ session = "handle" => t < current
    /\ session = "wait_feature" => t <= current /\ (answer[t] # Nothing => t < current)
ReplyInv ==
  /\ LinkLost /\ Rising(feature_reply_queue, frames, asked)
  /\ OwnReplyAhead /\ Older /\ FeatureOwnAnswer

(* Nobody will connect the pipe any more: the daemon opens it once, and not *)
(* after the port has begun to stop.                                        *)
Stranded ==
  /\ session = "connecting" /\ pipe # "connected"
  /\ daemon # "absent" \/ owner \notin {"attaching", "open"}
(* The pacer missed the notification that precedes its being joined.        *)
Missed == stop_requested /\ pacer = "waiting" /\ owner = "join_pacer"

(* stop() comes to its end, whatever it interrupts, but for two lost        *)
(* cancellations: a session that reaches its wait for the pipe after the    *)
(* one CancelIoEx, and a pacer that checked stop_requested before and       *)
(* begins to wait after the notifications.                                  *)
StopEnds ==
  owner = "notify" ~>
    owner = "stopped" \/ (Stranded /\ owner = "await") \/ Missed

(* Whatever the host submits is answered or lost with its connection, but   *)
(* for a session that nobody will connect the pipe for.                     *)
Answered ==
  \A s \in Seqs : host[s] = "sent" ~> host[s] # "sent" \/ Stranded
=============================================================================
