---------------------------- MODULE BridgeSession ----------------------------
(***************************************************************************)
(* One bridge session of the Windows daemon: run_bridge_session in         *)
(* src/src/platform/win32/vdsd.cc with the HID transport of vds_bt.cc.     *)
(*                                                                         *)
(*   main       opens the session, starts the threads and joins them       *)
(*   monitor    stop_monitor: looks for a request to stop every 100 ms     *)
(*   virtual    virtual_to_bluetooth_loop: frames of the virtual device    *)
(*   bluetooth  bluetooth_to_virtual_loop: reports of the controller       *)
(*   flush      audio_flush_loop: effects and audio                        *)
(*   writer     output_writer_loop: the only thread that writes reports    *)
(*                                                                         *)
(* A section under state.mutex is one step; bluetooth_mutex is held over   *)
(* several.  Who writes the effects is in EffectsStore.  The output state  *)
(* is the trigger's and the light's effect (the user's number, or minus    *)
(* the number of the host's report that set it), the mute light and who    *)
(* has set it, the number of the host's last output report, the audio      *)
(* route and whether the microphone is live.                               *)
(* Reports of the controller that change none of them are left out, as are *)
(* the chunks' contents and the times at which the flush thread sends them.*)
(* A definition whose comment begins with "Mutant" is the definition after *)
(* it with a bug put in.                                                   *)
(***************************************************************************)
EXTENDS Integers, SequencesExt

CONSTANTS
  Worlds,              \* what the host, the controller and others may do
  BufferChunks,        \* current_audio_buffer_chunks()
  SlackChunks,         \* kAudioPendingSlackChunks
  MaxPendingHidOutputWrites,
  None

AllFrameKinds == {"audio_open", "audio_close", "pcm", "hid_out", "hid_effects",
                  "capture_open", "capture_close", "feature_get", "feature_set",
                  "test_command"}
AllEnvOps == {"stop", "told", "bt_lost", "pipe_breaks", "write_fails", "headset", "mute",
              "effects_saved"}
(* The host's frames, the control commands and the DSX packets that set     *)
(* effects, what else may happen, and how many frames of the host, reports  *)
(* of the controller and changes of the effects there are.                  *)
WorldFields == {"host", "commands", "packets", "ops", "frames", "reports", "effects"}

Workers == {"virtual", "bluetooth", "flush"}
Senders == Workers \cup {"main"}

ASSUME BridgeAssumption ==
  /\ \A w \in Worlds :
       /\ DOMAIN w = WorldFields /\ w.host \subseteq AllFrameKinds
       /\ w.ops \subseteq AllEnvOps /\ {w.frames, w.reports, w.effects} \subseteq Nat
  /\ SlackChunks \in Nat
  /\ {BufferChunks, MaxPendingHidOutputWrites} \subseteq Nat \ {0}
  /\ None \notin Senders

Stoppers == {"virtual", "bluetooth", "monitor"}    \* who may request a restart
MaxPending == BufferChunks + SlackChunks

(* The mute light shows what the user or the host's n-th report has asked   *)
(* for, or whether the microphone is muted.                                 *)
MuteLights == [by : {"user", "host", "mic"}, n : Nat]
DsState == [trigger : Int, light : Nat, mute_light : MuteLights, game : Nat,
            route : {"initial", "speaker", "headphones"}, mic : BOOLEAN]
InitialState == [trigger |-> 0, light |-> 0, mute_light |-> [by |-> "mic", n |-> 0],
                 game |-> 0, route |-> "initial", mic |-> FALSE]
Kinds == {"init", "state", "mic_state", "mic", "audio", "concealment"}
Audio == {"audio", "concealment"}
Report == [kind : Kinds, ds : DsState]

VARIABLES
  stop_requested, session_stop_requested, bridge_restart_requested,
  pc,                    \* where each thread is
  aborted,               \* the threads whose I/O CancelIoEx has ended
  pipe_up,
  world,
  frames, reports,       \* how many the host and the controller have sent
  store, effects, request, saved,          \* see EffectsStore
  applied_effects_generation, authored_effects,
  taken,                 \* what the flush thread has read of the store
  output_state, last_sent_state,
  audio_out_stream_active, audio_pcm_stream_active, pending_audio_chunks,
  last_audio_chunk, headset_plugged,
  audio_in_stream_active, mic_muted, feature_cached,
  bluetooth_mutex, out, then,
  cancelled,             \* the transport's stop_event_
  output_queue, output_stop_requested, output_error, writing,
  controller,            \* what the controller has been told
  older, stale, overtaken, misrecorded, lost    \* history, for the properties

stopVars  == <<stop_requested, session_stop_requested, bridge_restart_requested>>
ioVars    == <<aborted, pipe_up>>
storeVars == <<store, effects, request, saved>>
userVars  == <<storeVars, applied_effects_generation, authored_effects, taken>>
envVars   == <<world, frames, reports, userVars>>
stateVars == <<output_state, last_sent_state>>
audioVars == <<audio_out_stream_active, audio_pcm_stream_active,
               pending_audio_chunks, last_audio_chunk>>
micVars   == <<headset_plugged, audio_in_stream_active, mic_muted, feature_cached>>
lockVars  == <<bluetooth_mutex, out, then>>
outVars   == <<cancelled, output_queue, output_stop_requested, output_error,
               writing, controller>>
Effects   == INSTANCE EffectsStore
ASSUME EffectsAssumption ==
  \A w \in Worlds : /\ w.commands \subseteq Effects!Fields
                    /\ \A p \in w.packets : Range(p) \subseteq Effects!Instructions

history   == <<older, stale, overtaken, misrecorded, lost>>
vars == <<stopVars, pc, ioVars, envVars, stateVars, audioVars, micVars, lockVars,
          outVars, history>>

(* What an earlier run of the daemon may have left in the settings file.    *)
SavedEffects == [trigger |-> 1, light |-> 0, mute_light |-> 1, force |-> TRUE]

Init ==
  /\ stop_requested = FALSE /\ session_stop_requested = FALSE
  /\ bridge_restart_requested = FALSE
  /\ pc = [t \in Senders \cup {"monitor", "writer"} |->
             CASE t \in Workers   -> "unborn"
               [] t = "main"      -> "send"
               [] t = "monitor"   -> "poll"
               [] t = "writer"    -> "wait"]
  /\ aborted = {} /\ pipe_up = TRUE
  /\ world \in Worlds /\ frames = 0 /\ reports = 0
  /\ Effects!Load(IF "effects_saved" \in world.ops THEN SavedEffects ELSE Effects!Cleared)
  /\ applied_effects_generation = 0 /\ authored_effects = Effects!Cleared
  /\ taken = None
  /\ output_state = InitialState /\ last_sent_state = None
  /\ audio_out_stream_active = FALSE /\ audio_pcm_stream_active = FALSE
  /\ pending_audio_chunks = 0 /\ last_audio_chunk = FALSE
  /\ headset_plugged = FALSE /\ audio_in_stream_active = FALSE
  /\ mic_muted = FALSE /\ feature_cached = FALSE
  /\ bluetooth_mutex = None
  /\ out = [t \in Senders |->
              IF t = "main" THEN <<[kind |-> "init", ds |-> InitialState]>> ELSE <<>>]
  /\ then = [t \in Senders |-> IF t = "main" THEN "record" ELSE "check"]
  /\ cancelled = FALSE /\ output_queue = <<>> /\ output_stop_requested = FALSE
  /\ output_error = FALSE /\ writing = None /\ controller = None
  /\ older = [t \in Senders |-> {}] /\ stale = [t \in Senders |-> FALSE]
  /\ overtaken = FALSE /\ misrecorded = FALSE /\ lost = FALSE

Goto(t, l) == pc' = [pc EXCEPT ![t] = l]
Over == stop_requested \/ bridge_restart_requested

-----------------------------------------------------------------------------
(* Sending.  Reports are built under state.mutex, in one step with what     *)
(* they tell of, and then sent under bluetooth_mutex one by one.            *)

(* t has built reports rs of the state s and goes on at l once they are     *)
(* sent.                                                                    *)
Hold(t, rs, l) ==
  /\ out' = [out EXCEPT ![t] = rs] /\ then' = [then EXCEPT ![t] = l]
  /\ older' = [older EXCEPT ![t] = {u \in Senders \ {t} : out[u] # <<>>}]
  /\ Goto(t, "send")
Holds(t, kinds, s, l) ==
  Hold(t, [i \in 1..Len(kinds) |-> [kind |-> kinds[i], ds |-> s]], l)

After(t) == IF t = "flush" THEN "audio" ELSE "check"

(* build_bt_state_if_changed: the state is recorded as sent here.           *)
BuildIfChanged(t) ==
  /\ pc[t] = "build"
  /\ \/ /\ last_sent_state = output_state
        /\ Goto(t, After(t)) /\ UNCHANGED <<out, then, older, last_sent_state, misrecorded>>
     \/ /\ last_sent_state # output_state
        /\ Holds(t, <<"state">>, output_state, After(t))
        /\ misrecorded' = FALSE /\ last_sent_state' = output_state
  /\ UNCHANGED <<stopVars, ioVars, envVars, output_state, audioVars, micVars,
                 bluetooth_mutex, outVars, stale, overtaken, lost>>

Lock(t) ==
  /\ pc[t] = "send" /\ bluetooth_mutex = None
  /\ bluetooth_mutex' = t /\ Goto(t, "hold")
  /\ UNCHANGED <<stopVars, ioVars, envVars, stateVars, audioVars, micVars, out,
                 then, outVars, history>>

(* The report of t is dealt with: release the lock, go on.                  *)
Advance(t, l) ==
  LET rest == Tail(out[t]) IN
  /\ bluetooth_mutex' = None
  /\ out' = [out EXCEPT ![t] = rest]
  /\ Goto(t, IF rest = <<>> THEN l ELSE "send")
  /\ UNCHANGED then

(* enqueue_output_report: one audio report may wait, the newest.            *)
IsAudio(r) == r.kind \in Audio
WaitingAudio(q) == {i \in DOMAIN q : IsAudio(q[i])}
(* Mutant: audio reports pile up.                                           *)
PileUp(q, r) == q
(* What is left of the queue when r comes: coalesce_oldest_audio, which is  *)
(* repeated until no audio waits, so once at most (OutputBounded).          *)
Coalesce(q, r) ==
  IF IsAudio(r) /\ WaitingAudio(q) # {} THEN RemoveAt(q, Min(WaitingAudio(q))) ELSE q
Room(t) == Len(Coalesce(output_queue, Head(out[t]))) < MaxPendingHidOutputWrites

Accepted(t) ==
  /\ output_queue' = Append(Coalesce(output_queue, Head(out[t])), Head(out[t]))
  /\ stale' = [u \in Senders |->
                 IF u = t THEN FALSE ELSE stale[u] \/ (u \in older[t] /\ out[u] # <<>>)]
  /\ older' = [older EXCEPT ![t] = {}]
  /\ overtaken' = (stale[t] \/ (overtaken /\ Head(out[t]).kind \in {"mic", "mic_state"}))

(* try_write_interrupt_packet and the first half of write_interrupt_packet; *)
(* an error of the writer is thrown and caught by try_send_bt_output_report.*)
Enqueue(t) ==
  /\ pc[t] = "hold"
  /\ \/ /\ output_error \/ ~Room(t)
        /\ IF IsAudio(Head(out[t]))
             THEN bluetooth_mutex' = None /\ Goto(t, "blocked") /\ UNCHANGED <<out, then>>
             ELSE Advance(t, then[t])
        /\ UNCHANGED <<output_queue, stale, older, overtaken>>
     \/ /\ ~output_error /\ Room(t) /\ IsAudio(Head(out[t]))
        /\ Accepted(t) /\ bluetooth_mutex' = None /\ Goto(t, "sent")
        /\ UNCHANGED <<out, then>>
     \/ /\ ~output_error /\ Room(t) /\ ~IsAudio(Head(out[t]))
        /\ Accepted(t) /\ Goto(t, "idle") /\ UNCHANGED lockVars
  /\ UNCHANGED <<stopVars, ioVars, envVars, stateVars, audioVars, micVars, cancelled,
                 output_stop_requested, output_error, writing, controller, misrecorded,
                 lost>>

(* wait_for_output_idle, with bluetooth_mutex held.                         *)
OutputIdle(t) ==
  /\ pc[t] = "idle"
  /\ output_stop_requested \/ output_error \/ (output_queue = <<>> /\ writing = None)
  /\ Advance(t, then[t])
  /\ UNCHANGED <<stopVars, ioVars, envVars, stateVars, audioVars, micVars, outVars,
                 history>>

Sending(t) == BuildIfChanged(t) \/ Lock(t) \/ Enqueue(t) \/ OutputIdle(t)

-----------------------------------------------------------------------------
(* The writer.                                                              *)

WriterTakes ==
  /\ pc["writer"] = "wait" /\ ~output_stop_requested /\ output_queue # <<>>
  /\ writing' = Head(output_queue) /\ output_queue' = Tail(output_queue)
  /\ Goto("writer", "write")
  /\ UNCHANGED <<stopVars, ioVars, envVars, stateVars, audioVars, micVars, lockVars,
                 cancelled, output_stop_requested, output_error, controller, history>>

(* What a report tells the controller: all of the state, or the microphone  *)
(* and its light.                                                           *)
Told(r) ==
  CASE r.kind = "mic" -> controller
    [] r.kind = "mic_state" ->
         IF controller = None THEN None
         ELSE [controller EXCEPT !.mic = r.ds.mic, !.mute_light = r.ds.mute_light]
    [] OTHER -> r.ds

WriteSucceeds ==
  /\ pc["writer"] = "write"
  /\ controller' = Told(writing) /\ writing' = None /\ Goto("writer", "wait")
  /\ lost' = (lost /\ writing.kind \in {"mic", "mic_state"})
  /\ UNCHANGED <<stopVars, ioVars, envVars, stateVars, audioVars, micVars, lockVars,
                 cancelled, output_queue, output_stop_requested, output_error, older,
                 stale, overtaken, misrecorded>>

(* A failed audio report is forgotten, any other ends the writer for good.  *)
WriteFails ==
  /\ pc["writer"] = "write"
  /\ (cancelled \/ "write_fails" \in world.ops)
  /\ writing' = None
  /\ IF IsAudio(writing)
       THEN Goto("writer", "wait") /\ lost' = TRUE /\ UNCHANGED output_error
       ELSE Goto("writer", "ended") /\ output_error' = TRUE /\ UNCHANGED lost
  /\ UNCHANGED <<stopVars, ioVars, envVars, stateVars, audioVars, micVars, lockVars,
                 cancelled, output_queue, output_stop_requested, controller, older,
                 stale, overtaken, misrecorded>>

WriterStops ==
  /\ pc["writer"] = "wait" /\ output_stop_requested /\ Goto("writer", "ended")
  /\ UNCHANGED <<stopVars, ioVars, envVars, stateVars, audioVars, micVars, lockVars,
                 outVars, history>>

Writer == WriterTakes \/ WriteSucceeds \/ WriteFails \/ WriterStops

-----------------------------------------------------------------------------
(* request_bridge_restart.                                                  *)

stopRest == <<session_stop_requested, stop_requested>>

Request(t) ==
  /\ pc[t] = "request"
  /\ bridge_restart_requested' = TRUE
  /\ Goto(t, IF bridge_restart_requested THEN "ended" ELSE "cancel_virtual")
  /\ UNCHANGED <<stopRest, ioVars, envVars, stateVars, audioVars, micVars, lockVars,
                 outVars, history>>

(* CancelIoEx ends the I/O that is pending now.                             *)
CancelVirtual(t) ==
  /\ pc[t] = "cancel_virtual" /\ Goto(t, "cancel_bluetooth")
  /\ aborted' = aborted \cup (IF pc["virtual"] = "reading" THEN {"virtual"} ELSE {})
                        \cup (IF pc["bluetooth"] = "writing" THEN {"bluetooth"} ELSE {})
  /\ UNCHANGED <<stopVars, pipe_up, envVars, stateVars, audioVars, micVars, lockVars,
                 outVars, history>>

(* Mutant: the writer is stopped but readers are not told.                  *)
StopWriterOnly ==
  /\ output_stop_requested' = TRUE /\ output_queue' = <<>> /\ UNCHANGED cancelled
(* HidBluetoothTransport::cancel, up to the join of the writer.             *)
StopTransport ==
  /\ output_stop_requested' = TRUE /\ output_queue' = <<>> /\ cancelled' = TRUE

CancelBluetooth(t) ==
  /\ pc[t] = "cancel_bluetooth" /\ Goto(t, "join_writer") /\ StopTransport
  /\ UNCHANGED <<stopVars, ioVars, envVars, stateVars, audioVars, micVars, lockVars,
                 output_error, writing, controller, history>>

JoinWriter(t) ==
  /\ pc[t] = "join_writer" /\ pc["writer"] = "ended" /\ Goto(t, "ended")
  /\ UNCHANGED <<stopVars, ioVars, envVars, stateVars, audioVars, micVars, lockVars,
                 outVars, history>>

Stopping(t) == Request(t) \/ CancelVirtual(t) \/ CancelBluetooth(t) \/ JoinWriter(t)

(* A thread's exception: not reported when the daemon stops.                *)
Throw(t) == Goto(t, IF stop_requested THEN "ended" ELSE "request")

-----------------------------------------------------------------------------
(* virtual_to_bluetooth_loop.                                               *)

LoopCheck(t, l) ==
  /\ pc[t] = "check" /\ Goto(t, IF Over THEN "ended" ELSE l)
  /\ UNCHANGED <<stopVars, ioVars, envVars, stateVars, audioVars, micVars, lockVars,
                 outVars, history>>

VirtualReads ==
  /\ pc["virtual"] = "enter" /\ Goto("virtual", "reading")
  /\ UNCHANGED <<stopVars, ioVars, envVars, stateVars, audioVars, micVars, lockVars,
                 outVars, history>>

VirtualReadEnds ==
  /\ pc["virtual"] = "reading"
  /\ ("virtual" \in aborted \/ ~pipe_up \/ stop_requested)
  /\ Throw("virtual")
  /\ UNCHANGED <<stopVars, ioVars, envVars, stateVars, audioVars, micVars, lockVars,
                 outVars, history>>

(* Where audio goes: the controller's speaker or what is plugged into it.   *)
Routed(s, active, plugged) ==
  [s EXCEPT !.route = IF active /\ ~plugged THEN "speaker" ELSE "headphones"]

(* A frame f arrives; each is handled in its first section of state.mutex.  *)
Frame(f) ==
  /\ f \in world.host /\ pc["virtual"] = "reading" /\ "virtual" \notin aborted
  /\ pipe_up /\ frames < world.frames /\ frames' = frames + 1
  /\ UNCHANGED <<stopVars, ioVars, world, reports, userVars, last_sent_state, headset_plugged,
                 bluetooth_mutex, outVars, stale, overtaken, misrecorded, lost>>

Build(t) == Goto(t, "build") /\ UNCHANGED <<out, then, older>>
Continue(t) == Goto(t, "check") /\ UNCHANGED <<out, then, older>>

AudioInterface(active) ==
  /\ Frame(IF active THEN "audio_open" ELSE "audio_close")
  /\ output_state' = Routed(output_state, active, headset_plugged)
  /\ audio_out_stream_active' = active /\ audio_pcm_stream_active' = FALSE
  /\ pending_audio_chunks' = 0 /\ last_audio_chunk' = FALSE
  /\ Build("virtual")
  /\ UNCHANGED <<audio_in_stream_active, mic_muted, feature_cached>>

(* PCM of one chunk: the first of a stream starts it anew, the oldest chunk *)
(* makes room for it.                                                       *)
Pcm ==
  LET kept == IF audio_out_stream_active /\ audio_pcm_stream_active
                THEN pending_audio_chunks ELSE 0
  IN
  /\ Frame("pcm")
  /\ audio_out_stream_active' = TRUE /\ audio_pcm_stream_active' = TRUE
  /\ pending_audio_chunks' = IF kept = MaxPending THEN kept ELSE kept + 1
  /\ last_audio_chunk' = (last_audio_chunk /\ audio_out_stream_active
                                           /\ audio_pcm_stream_active)
  /\ IF audio_out_stream_active
       THEN Continue("virtual") /\ UNCHANGED output_state
       ELSE Build("virtual") /\ output_state' = Routed(output_state, TRUE, headset_plugged)
  /\ UNCHANGED <<audio_in_stream_active, mic_muted, feature_cached>>

(* The parts of the output state that effects e claim.                      *)
ApplyAuthored(s, e) ==
  [s EXCEPT !.trigger = IF e.trigger = 0 THEN @ ELSE e.trigger,
            !.light   = IF e.light = 0 THEN @ ELSE e.light,
            !.mute_light = IF e.mute_light = 0 THEN @
                           ELSE [by |-> "user", n |-> e.mute_light]]
Claiming(e) == e.trigger # 0 \/ e.light # 0 \/ e.mute_light # 0

(* apply_usb_output_report: what a report claims, the host takes over; a    *)
(* report with effects claims the trigger and the mute light.               *)
HostReport(f, n) ==
  [output_state EXCEPT !.game = n,
     !.trigger    = IF f = "hid_effects" THEN -n ELSE @,
     !.mute_light = IF f = "hid_effects" THEN [by |-> "host", n |-> n] ELSE @]
Reasserted(s) ==
  IF authored_effects.force /\ Claiming(authored_effects)
    THEN ApplyAuthored(s, authored_effects) ELSE s

HidOut(f) ==
  LET s == Reasserted(HostReport(f, frames + 1)) IN
  /\ Frame(f)
  /\ output_state' = IF audio_out_stream_active THEN Routed(s, TRUE, headset_plugged) ELSE s
  /\ Build("virtual")
  /\ UNCHANGED <<audioVars, audio_in_stream_active, mic_muted, feature_cached>>

(* The interface and its report are two sections.                           *)
Capture(active) ==
  /\ Frame(IF active THEN "capture_open" ELSE "capture_close")
  /\ audio_in_stream_active' = active /\ Goto("virtual", "mic")
  /\ UNCHANGED <<output_state, audioVars, mic_muted, feature_cached, out, then, older>>

(* build_bt_mic_state_report: the microphone takes its light, whoever had   *)
(* set it.                                                                  *)
MicLive(s, muted) ==
  [s EXCEPT !.mic = audio_in_stream_active /\ ~muted,
            !.mute_light = [by |-> "mic", n |-> IF muted THEN 1 ELSE 0]]

MicState ==
  /\ pc["virtual"] = "mic" /\ output_state' = MicLive(output_state, mic_muted)
  /\ Holds("virtual", <<"mic_state", "mic">>, output_state', "check")
  /\ UNCHANGED <<stopVars, ioVars, envVars, last_sent_state, audioVars, micVars,
                 bluetooth_mutex, outVars, stale, overtaken, misrecorded, lost>>

(* A cached report is answered at once; others need the controller.         *)
Feature(f) ==
  /\ Frame(f)
  /\ feature_cached' = (feature_cached \/ f = "test_command")
  /\ IF f = "test_command" \/ (f = "feature_get" /\ feature_cached)
       THEN Continue("virtual")
       ELSE /\ Goto("virtual", IF f = "feature_get" THEN "get" ELSE "set")
            /\ UNCHANGED <<out, then, older>>
  /\ UNCHANGED <<output_state, audioVars, audio_in_stream_active, mic_muted>>

(* read_feature_report and write_feature_report, with the lock held.        *)
FeatureLock ==
  /\ pc["virtual"] \in {"get", "set"} /\ bluetooth_mutex = None
  /\ bluetooth_mutex' = "virtual"
  /\ Goto("virtual", IF pc["virtual"] = "get" THEN "getting" ELSE "setting")
  /\ UNCHANGED <<stopVars, ioVars, envVars, stateVars, audioVars, micVars, out, then,
                 outVars, history>>
FeatureDone ==
  /\ pc["virtual"] \in {"getting", "setting"} /\ bluetooth_mutex' = None
  /\ \/ pc["virtual"] = "getting" /\ feature_cached' = TRUE
     \/ UNCHANGED feature_cached
  /\ Goto("virtual", "check")
  /\ UNCHANGED <<stopVars, ioVars, envVars, stateVars, audioVars, headset_plugged,
                 audio_in_stream_active, mic_muted, out, then, outVars, history>>

HostSends ==
  \/ \E active \in BOOLEAN : AudioInterface(active) \/ Capture(active)
  \/ Pcm \/ HidOut("hid_out") \/ HidOut("hid_effects")
  \/ \E f \in {"feature_get", "feature_set", "test_command"} : Feature(f)

Virtual ==
  \/ LoopCheck("virtual", "enter") \/ VirtualReads \/ VirtualReadEnds
  \/ MicState \/ FeatureLock \/ FeatureDone
  \/ Sending("virtual") \/ Stopping("virtual")

-----------------------------------------------------------------------------
(* bluetooth_to_virtual_loop.  A report is first passed to the host.        *)

ControllerReports ==
  /\ pc["bluetooth"] = "reading" /\ reports < world.reports
  /\ reports' = reports + 1 /\ Goto("bluetooth", "writing")
  /\ UNCHANGED <<stopVars, ioVars, world, frames, userVars, stateVars, audioVars, micVars,
                 lockVars, outVars, history>>

(* read_input_frame throws: two seconds without a report, a failed read, or *)
(* the transport has been cancelled.                                        *)
BluetoothThrows ==
  /\ Throw("bluetooth")
  /\ UNCHANGED <<stopVars, ioVars, envVars, stateVars, audioVars, micVars, lockVars,
                 outVars, history>>
ControllerLost == "bt_lost" \in world.ops /\ pc["bluetooth"] = "reading" /\ BluetoothThrows
BluetoothReadEnds == cancelled /\ pc["bluetooth"] = "reading" /\ BluetoothThrows
BluetoothWriteEnds ==
  /\ pc["bluetooth"] = "writing"
  /\ ("bluetooth" \in aborted \/ ~pipe_up \/ stop_requested)
  /\ BluetoothThrows


(* An input report: the headset may have come or gone, the mute button may  *)
(* have been pressed.                                                       *)
InputReport(plugged, toggled) ==
  LET changed == plugged # headset_plugged
      routed  == IF changed /\ audio_out_stream_active
                   THEN Routed(output_state, TRUE, plugged) ELSE output_state
      muted   == mic_muted # toggled
      s       == IF toggled THEN MicLive(routed, muted) ELSE routed
      next    == IF changed THEN "build" ELSE "check"
  IN
  /\ pc["bluetooth"] = "writing" /\ "bluetooth" \notin aborted /\ pipe_up
  /\ headset_plugged' = plugged /\ mic_muted' = muted /\ output_state' = s
  /\ \/ toggled /\ Holds("bluetooth", <<"mic_state">>, s, next)
     \/ ~toggled /\ Goto("bluetooth", next) /\ UNCHANGED <<out, then, older>>
  /\ UNCHANGED <<stopVars, ioVars, envVars, last_sent_state, audioVars,
                 audio_in_stream_active, feature_cached, bluetooth_mutex, outVars,
                 stale, overtaken, misrecorded, lost>>

BluetoothHandles ==
  \E plugged, toggled \in BOOLEAN :
    /\ plugged # headset_plugged => "headset" \in world.ops
    /\ toggled => "mute" \in world.ops
    /\ InputReport(plugged, toggled)

Bluetooth ==
  \/ LoopCheck("bluetooth", "reading") \/ BluetoothReadEnds
  \/ BluetoothWriteEnds \/ BluetoothHandles
  \/ Sending("bluetooth") \/ Stopping("bluetooth")

-----------------------------------------------------------------------------
(* audio_flush_loop: effects, then audio.                                   *)

EffectsSet ==
  /\ \/ /\ effects < world.effects
        /\ \/ \E c \in world.commands : Effects!CommandCopies(c)
           \/ \E p \in world.packets : Effects!DsxPacket(p)
     \/ Effects!CommandStores \/ Effects!CommandSaves
  /\ UNCHANGED <<stopVars, pc, ioVars, world, frames, reports, applied_effects_generation,
                 authored_effects, taken, stateVars, audioVars, micVars, lockVars, outVars,
                 history>>

(* A pass of the loop begins: to its end when there are new effects to      *)
(* apply, else it is one step with its look at the audio.                   *)
FlushEnds ==
  /\ pc["flush"] = "check" /\ Over /\ Goto("flush", "ended")
  /\ UNCHANGED <<stopVars, ioVars, envVars, stateVars, audioVars, micVars, lockVars,
                 outVars, history>>

(* The store is read under its own mutex, the session's state is changed    *)
(* under the session's.                                                     *)
TakeEffects ==
  /\ pc["flush"] = "check" /\ ~Over /\ applied_effects_generation # effects
  /\ taken' = [generation |-> effects, effects |-> store] /\ Goto("flush", "apply")
  /\ UNCHANGED <<stopVars, ioVars, world, frames, reports, storeVars,
                 applied_effects_generation, authored_effects, stateVars, audioVars, micVars,
                 lockVars, outVars, history>>

(* Mutant: the generation is read again.                                    *)
ReadAgain(t) == effects
TakenGeneration(t) == t.generation

(* Effects that claim nothing leave the output state as it is.              *)
ApplyEffects ==
  /\ pc["flush"] = "apply" /\ Goto("flush", "build") /\ taken' = None
  /\ applied_effects_generation' = TakenGeneration(taken)
  /\ authored_effects' = taken.effects
  /\ output_state' = IF Claiming(taken.effects) THEN ApplyAuthored(output_state, taken.effects)
                     ELSE output_state
  /\ UNCHANGED <<stopVars, ioVars, world, frames, reports, storeVars, last_sent_state,
                 audioVars, micVars, lockVars, outVars, history>>

FlushFrame ==
  /\ \/ pc["flush"] = "audio"
     \/ pc["flush"] = "check" /\ ~Over /\ applied_effects_generation = effects
  /\ UNCHANGED <<stopVars, ioVars, envVars, micVars, bluetooth_mutex, outVars, stale,
                 overtaken, lost>>

(* Nothing to send, or not yet.                                             *)
FlushWaits ==
  /\ FlushFrame /\ Continue("flush")
  /\ UNCHANGED <<stateVars, audioVars, misrecorded>>

SendAudio(k) == Holds("flush", <<k>>, output_state, "check")

FlushChunk ==
  /\ FlushFrame /\ pending_audio_chunks > 0 /\ SendAudio("audio")
  /\ pending_audio_chunks' = IF pending_audio_chunks > BufferChunks
                               THEN BufferChunks ELSE pending_audio_chunks
  /\ UNCHANGED <<stateVars, audio_out_stream_active, audio_pcm_stream_active,
                 last_audio_chunk, misrecorded>>

Starved == /\ pending_audio_chunks = 0
           /\ audio_out_stream_active /\ audio_pcm_stream_active
FlushConceals ==
  /\ FlushFrame /\ Starved /\ last_audio_chunk /\ SendAudio("concealment")
  /\ UNCHANGED <<stateVars, audioVars, misrecorded>>

(* The stream has run dry: the route is closed, with a report if need be.   *)
FlushUnderflow ==
  LET s == Routed(output_state, FALSE, headset_plugged) IN
  /\ FlushFrame /\ Starved
  /\ audio_out_stream_active' = FALSE /\ audio_pcm_stream_active' = FALSE
  /\ last_audio_chunk' = FALSE /\ output_state' = s /\ last_sent_state' = s
  /\ IF last_sent_state = s
       THEN Continue("flush") /\ UNCHANGED misrecorded
       ELSE Holds("flush", <<"state">>, s, "check") /\ misrecorded' = FALSE
  /\ UNCHANGED pending_audio_chunks

AudioDone(l) ==
  /\ pc["flush"] = l /\ Goto("flush", "check") /\ out' = [out EXCEPT !["flush"] = <<>>]
  /\ UNCHANGED <<stopVars, ioVars, envVars, output_state, audio_out_stream_active,
                 audio_pcm_stream_active, micVars, bluetooth_mutex, then, outVars,
                 older, stale, overtaken, lost>>

(* Mutant: the queue is thought to be as it was before the report was sent. *)
PoppedUnasked == pending_audio_chunks - 1
Popped == IF pending_audio_chunks > 0 THEN pending_audio_chunks - 1 ELSE 0

(* Sent: the front chunk goes, and the state of now is recorded as sent.    *)
AudioSent ==
  LET r == Head(out["flush"]) IN
  /\ AudioDone("sent")
  /\ pending_audio_chunks' = IF r.kind = "audio" THEN Popped ELSE pending_audio_chunks
  /\ last_audio_chunk' = (last_audio_chunk \/ r.kind = "audio")
  /\ last_sent_state' = output_state /\ misrecorded' = (r.ds # output_state)

AudioBlocked ==
  /\ AudioDone("blocked")
  /\ pending_audio_chunks' = IF Head(out["flush"]).kind = "audio"
                               THEN Popped ELSE pending_audio_chunks
  /\ UNCHANGED <<last_audio_chunk, last_sent_state, misrecorded>>

Flush ==
  \/ FlushEnds \/ TakeEffects \/ ApplyEffects \/ FlushWaits \/ FlushChunk
  \/ FlushConceals \/ FlushUnderflow \/ AudioSent \/ AudioBlocked
  \/ Sending("flush")

-----------------------------------------------------------------------------
(* The monitor and main.                                                    *)

MonitorPolls ==
  /\ pc["monitor"] = "poll" /\ (Over \/ session_stop_requested)
  /\ Goto("monitor", IF stop_requested \/ session_stop_requested
                        THEN "request" ELSE "ended")
  /\ UNCHANGED <<stopVars, ioVars, envVars, stateVars, audioVars, micVars, lockVars,
                 outVars, history>>

Monitor == MonitorPolls \/ Stopping("monitor")

MainFrame == UNCHANGED <<stopRest, ioVars, envVars, output_state, audioVars, micVars,
                         lockVars, output_error, writing, controller, history>>

(* The rest of send_initial_bluetooth_reports.                              *)
RecordInitial ==
  /\ pc["main"] = "record" /\ last_sent_state' = output_state /\ Goto("main", "info")
  /\ UNCHANGED <<bridge_restart_requested, cancelled, output_queue,
                 output_stop_requested>>
  /\ MainFrame

(* read_controller_device_info is over, and with it the time in which a     *)
(* request ends the session before its threads have begun.                  *)
MainStarts ==
  /\ pc["main"] = "info"
  /\ pc' = IF bridge_restart_requested
             THEN [pc EXCEPT !["main"] = "join_monitor"]
             ELSE [t \in DOMAIN pc |->
                     IF t \in Workers THEN "check" ELSE IF t = "main" THEN "join" ELSE pc[t]]
  /\ UNCHANGED <<bridge_restart_requested, last_sent_state, cancelled, output_queue,
                 output_stop_requested>>
  /\ MainFrame

MainJoins ==
  /\ pc["main"] = "join" /\ \A t \in Workers : pc[t] = "ended"
  /\ bridge_restart_requested' = TRUE /\ Goto("main", "join_monitor")
  /\ UNCHANGED <<last_sent_state, cancelled, output_queue, output_stop_requested>>
  /\ MainFrame

(* The monitor has been joined; the destructors follow.                     *)
MainDestroys ==
  /\ pc["main"] = "join_monitor" /\ pc["monitor"] = "ended"
  /\ StopTransport /\ Goto("main", "join_writer")
  /\ UNCHANGED <<bridge_restart_requested, last_sent_state>>
  /\ MainFrame

Main ==
  \/ RecordInitial \/ MainStarts \/ MainJoins \/ MainDestroys
  \/ JoinWriter("main") \/ Sending("main")

-----------------------------------------------------------------------------
(* The rest of the world.                                                   *)

EnvFrame == UNCHANGED <<pc, aborted, envVars, stateVars, audioVars, micVars, lockVars,
                        outVars, history>>
StopDaemon ==
  /\ "stop" \in world.ops /\ ~stop_requested /\ stop_requested' = TRUE
  /\ UNCHANGED <<session_stop_requested, bridge_restart_requested, pipe_up>> /\ EnvFrame
StopSession ==
  /\ "told" \in world.ops /\ ~session_stop_requested /\ session_stop_requested' = TRUE
  /\ UNCHANGED <<stop_requested, bridge_restart_requested, pipe_up>> /\ EnvFrame
PipeBreaks ==
  /\ "pipe_breaks" \in world.ops /\ pipe_up /\ pipe_up' = FALSE
  /\ UNCHANGED stopVars /\ EnvFrame

Next ==
  \/ Main \/ Monitor \/ Virtual \/ Bluetooth \/ Flush \/ Writer
  \/ HostSends \/ ControllerReports \/ ControllerLost \/ EffectsSet
  \/ StopDaemon \/ StopSession \/ PipeBreaks

Spec == Init /\ [][Next]_vars

(* Threads run, writes and feature requests come to an end, and nobody is   *)
(* kept from bluetooth_mutex for ever; nothing is assumed of the host, the  *)
(* controller or whoever stops the session.                                 *)
FairSpec ==
  /\ Spec
  /\ WF_vars(Main) /\ WF_vars(Monitor) /\ WF_vars(Virtual) /\ WF_vars(Bluetooth)
  /\ WF_vars(Flush) /\ WF_vars(Writer)
  /\ \A t \in Senders : SF_vars(Lock(t))

-----------------------------------------------------------------------------
Labels == {"unborn", "apply", "check", "enter", "reading", "writing", "mic", "get", "getting",
           "set", "setting", "build", "send", "hold", "idle", "audio", "sent",
           "blocked", "request", "cancel_virtual", "cancel_bluetooth", "join_writer",
           "record", "info", "join", "join_monitor", "poll", "wait", "write", "ended"}
TypeOK ==
  /\ {stop_requested, session_stop_requested, bridge_restart_requested, pipe_up,
      audio_out_stream_active, audio_pcm_stream_active, last_audio_chunk,
      headset_plugged, audio_in_stream_active, mic_muted, feature_cached, cancelled,
      output_stop_requested, output_error, overtaken, misrecorded, lost} \subseteq BOOLEAN
  /\ pc \in [Senders \cup {"monitor", "writer"} -> Labels]
  /\ aborted \subseteq {"virtual", "bluetooth"}
  /\ world \in Worlds /\ frames \in 0..world.frames
  /\ reports \in 0..world.reports
  /\ effects \in 0..world.effects + 2 /\ {store, saved} \subseteq Effects!Authored
  /\ applied_effects_generation \in 0..effects /\ authored_effects \in Effects!Authored
  /\ output_state \in DsState /\ last_sent_state \in DsState \cup {None}
  /\ pending_audio_chunks \in 0..MaxPending
  /\ bluetooth_mutex \in Senders \cup {None}
  /\ out \in [Senders -> Seq(Report)] /\ then \in [Senders -> Labels]
  /\ output_queue \in Seq(Report) /\ writing \in Report \cup {None}
  /\ controller \in DsState \cup {None}
  /\ older \in [Senders -> SUBSET Senders] /\ stale \in [Senders -> BOOLEAN]

(* At most one audio report waits and at most one other, because whoever    *)
(* sends one that is not audio keeps bluetooth_mutex until it is written:   *)
(* the limit of 64 writes is never met while the transport is open.         *)
OutputBounded ==
  ~output_stop_requested =>
    \A i, j \in DOMAIN output_queue :
      (IsAudio(output_queue[i]) <=> IsAudio(output_queue[j])) => i = j

(* What makes types and the queue's bound inductive.  One thread at a time  *)
(* is between lock and unlock of bluetooth_mutex, and whoever is sending    *)
(* has a report to send.  The threads are born once, after main has sent    *)
(* its report.  A report that is not audio waits only while its sender      *)
(* does, unless the writer has failed or the transport is closed.           *)
Locked == {"hold", "idle", "getting", "setting"}
HasReport == {"send", "hold", "idle", "sent", "blocked"}
Early == HasReport \cup {"record", "info"}
LockInv == \A t \in Senders : pc[t] \in Locked <=> bluetooth_mutex = t
SendInv ==
  /\ \A t \in Senders : pc[t] \in HasReport => out[t] # <<>>
  /\ then \in [Senders -> {"check", "build", "audio", "record"}]
  /\ pc["writer"] = "write" => writing \in Report
MainInv ==
  /\ then["main"] = "record"
  /\ pc["main"] \in Early \cup {"join", "join_monitor", "join_writer", "ended"}
  /\ pc["main"] \in Early => \A t \in Workers : pc[t] = "unborn"
EffectsInv ==
  /\ pc["flush"] = "apply" => taken \in [generation : 0..effects, effects : Effects!Authored]
  /\ request \in [pc : {"none", "store", "save"}, effects : Effects!Authored]
  /\ effects <= world.effects + 1 /\ (request.pc = "store" => effects <= world.effects)
OneAudio == \A i, j \in WaitingAudio(output_queue) : i = j
WaitingOther == DOMAIN output_queue \ WaitingAudio(output_queue)
OneOther ==
  ~output_stop_requested =>
    /\ \A i, j \in WaitingOther : i = j
    /\ ~output_error /\ (\A t \in Senders : pc[t] # "idle") => WaitingOther = {}
SessionInv ==
  TypeOK /\ LockInv /\ SendInv /\ MainInv /\ EffectsInv /\ OneAudio /\ OneOther

(* The reader of the virtual device entered its read after the one          *)
(* CancelIoEx: it waits for a frame.                                        *)
Blind == /\ bridge_restart_requested /\ cancelled /\ ~stop_requested
         /\ pc["virtual"] = "reading" /\ "virtual" \notin aborted

(* A session that is to end, for whatever reason, ends: every thread is     *)
(* woken and joined, but for the read above.                                *)
SessionEnds ==
  (Over \/ session_stop_requested) ~> (pc["main"] = "ended" \/ Blind)


(* In the end the session holds the newest effects of the store, whoever    *)
(* wrote it and in whatever order, and shows those that are forced whatever *)
(* the host's reports have asked for ("every time after a game's output     *)
(* report vDS writes its own effects back": docs/effects-CN.md:19), but for *)
(* the mute light when the microphone has taken it: opening or closing the  *)
(* capture and pressing mute do not write the effects back.                 *)
TakenByMic == output_state.mute_light.by = "mic"
Shown(e) ==
  /\ e.trigger # 0 => output_state.trigger = e.trigger
  /\ e.light # 0 => output_state.light = e.light
  /\ e.mute_light # 0 =>
       TakenByMic \/ output_state.mute_light = [by |-> "user", n |-> e.mute_light]
EffectsReach ==
  <>[](\/ authored_effects = store /\ (store.force => Shown(store))
       \/ Over \/ session_stop_requested)
=============================================================================
