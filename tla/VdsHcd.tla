------------------------------- MODULE VdsHcd -------------------------------
(***************************************************************************)
(* The virtual DualSense host controller of src/module/vds_hcd_core.c with *)
(* the parts of src/module/vds_usb_core.c its URB paths run through: one   *)
(* port, its URB contexts and the three lists they move between, the       *)
(* giveback thread, the frame queue read by vdsd, the root-hub port and    *)
(* the connection state.                                                   *)
(*                                                                         *)
(* The grain is the lock: every section of the code that holds dev->lock   *)
(* (or usb.lock) is one action, and whatever the code does after releasing *)
(* it is another.  A submitting thread, the giveback thread, the daemon's  *)
(* thread and the thread closing the device file therefore interleave      *)
(* exactly where the code lets them.                                       *)
(*                                                                         *)
(* Two things the code can come to are undefined in C.  A step that would  *)
(* touch a context after kfree() is not in the model: a behaviour that     *)
(* gets there does not continue that thread, and NoUseAfterFree tells      *)
(* whether one does.  The step that adds a context to a second list is in  *)
(* the model, and relinked is TRUE from then on: what the lists hold later *)
(* is what they would hold if each kept its own links, and the properties  *)
(* that depend on the lists are claimed until then.                        *)
(*                                                                         *)
(* A definition whose comment begins with "Mutant" is not part of the      *)
(* model: it is the definition after it with a bug put in, by which a run  *)
(* shows that a property depends on the code being right there.            *)
(***************************************************************************)
EXTENDS Integers, SequencesExt

CONSTANTS
  Urbs,          \* URBs of the USB drivers above this port
  Reports,       \* HID feature report ids
  Kinds,         \* the kinds of transfer the drivers submit
  EnvOps,        \* what the surroundings may do beyond the plain traffic
  IsoDuration,   \* duration of the PCM of one ISO URB, in ticks
  HidInterval,   \* profile->hid_in_interval_us, in ticks
  MaxEvents,     \* frames queued to userspace (16384 in the code)
  MaxSubmits,    \* bound: submissions per URB
  MaxInputs,     \* bound: input reports the daemon writes
  NoUrb, NoArg

AllKinds == {"control", "get_feature", "set_feature", "set_config",
             "set_interface", "hid_in", "hid_out", "iso_out", "iso_in"}

AllEnvOps == {"unlink", "early_unlink", "unlink_before_wait", "disconnect",
              "release", "unasked_reply", "stop", "set_profile", "hub"}

ASSUME HcdAssumption ==
  /\ IsFiniteSet(Urbs) /\ NoUrb \notin Urbs
  /\ NoArg \notin Reports \cup BOOLEAN
  /\ Kinds \subseteq AllKinds
  /\ EnvOps \subseteq AllEnvOps
  /\ IsoDuration \in Nat \ {0} /\ HidInterval \in Nat \ {0}
  /\ MaxEvents \in Nat /\ MaxSubmits \in Nat /\ MaxInputs \in Nat

VARIABLES
  \* struct vds_urb_context, one per URB handed to the driver
  state,               \* context->state; "FREE" without a context
  ready,               \* context->ready_time; 0 for an untimed context
  status,              \* context->status
  \* the submitting thread inside vds_urb_enqueue
  pc, ret,
  kind, arg,           \* the transfer, and its report id or value
  \* usb core's record of the URB
  owned,               \* handed over and not given back (urb->use_count)
  unlinked,            \* usb_hcd_check_unlink_urb has accepted an unlink
  submits,
  relinked,            \* history: a context was put on a second list
  \* lists and frame queue under dev->lock
  pending_hid_in, pending_feature_get, completed_urbs,
  events, input_packet,
  next_iso_out_ready, next_iso_in_ready, next_hid_in_ready,
  status_flags, port_status, stopping, opened,
  \* struct vds_usb_device under usb.lock
  configuration, audio_out_altsetting, feature_cache,
  \* the giveback thread
  gb_pc, gb_urb, gb_until, should_stop,
  \* the surroundings: clock, hub driver, daemon, closing thread
  now, hub_view, hub_reading, user, replying, closer, requests, inputs

ctxVars    == <<state, ready, status>>
submitVars == <<pc, ret, kind, arg>>
coreVars   == <<owned, unlinked, submits, relinked>>
listVars   == <<pending_hid_in, pending_feature_get, completed_urbs>>
nextVars   == <<next_iso_out_ready, next_iso_in_ready, next_hid_in_ready>>
portVars   == <<status_flags, port_status, stopping, opened>>
usbVars    == <<configuration, audio_out_altsetting, feature_cache>>
gbVars     == <<gb_pc, gb_urb, gb_until, should_stop>>
hubVars    == <<hub_view, hub_reading>>
userVars   == <<user, replying, closer, requests, inputs>>

vars == <<ctxVars, submitVars, coreVars, listVars, events, input_packet,
          nextVars, portVars, usbVars, gbVars, now, hubVars, userVars>>

CtxStates == {"FREE", "ACTIVE", "PENDING_HID_IN", "PENDING_FEATURE_GET",
              "PENDING_GIVEBACK", "GIVING_BACK"}
Statuses  == {"OK", "ERROR", "UNLINKED", "SHUTDOWN"}
SubmitPcs == {"idle", "dispatch", "defer", "frame", "config_status",
              "audio_status", "event", "queue"}
Flags     == {"CONNECTED", "CONFIGURED", "HID_ENABLED", "AUDIO_ENABLED"}
PortBits  == {"POWER", "CONNECTION", "ENABLE", "HIGH_SPEED",
              "C_CONNECTION", "C_RESET"}
FrameTypes == {"HID_OUT", "FEATURE_GET", "FEATURE_SET", "AUDIO_OUT",
               "INTERFACE"}
Args      == Reports \cup BOOLEAN \cup {NoArg}
Frames    == {f \in [type : FrameTypes, arg : Args] :
                f.type = "FEATURE_GET" => f.arg \in Reports}
UserPcs   == {"idle", "reply", "reset_usb"}
CloserPcs == {"idle", "disconnect", "reset_usb"}

NoInput == 0   \* input reports are numbered from 1 in the order written

Init ==
  /\ state = [u \in Urbs |-> "FREE"]
  /\ ready = [u \in Urbs |-> 0]
  /\ status = [u \in Urbs |-> "OK"]
  /\ pc = [u \in Urbs |-> "idle"]
  /\ ret = [u \in Urbs |-> "OK"]
  /\ kind = [u \in Urbs |-> "control"]
  /\ arg = [u \in Urbs |-> NoArg]
  /\ owned = {} /\ unlinked = {}
  /\ submits = [u \in Urbs |-> 0] /\ relinked = FALSE
  /\ pending_hid_in = <<>> /\ pending_feature_get = <<>>
  /\ completed_urbs = <<>>
  /\ events = <<>> /\ input_packet = NoInput
  /\ next_iso_out_ready = 0 /\ next_iso_in_ready = 0
  /\ next_hid_in_ready = 0
  /\ status_flags = {} /\ port_status = {"POWER"}
  /\ stopping = FALSE /\ opened = FALSE
  /\ configuration = FALSE /\ audio_out_altsetting = FALSE
  /\ feature_cache = {}
  /\ gb_pc = "wait" /\ gb_urb = NoUrb /\ gb_until = 0
  /\ should_stop = FALSE
  /\ now = 1 /\ hub_view = FALSE /\ hub_reading = FALSE
  /\ user = "idle" /\ replying = NoArg /\ closer = "idle"
  /\ requests = {} /\ inputs = 0
-----------------------------------------------------------------------------
(* Helpers: the giveback queue, the frame queue, completion times.         *)

Laterof(a, b) == IF a > b THEN a ELSE b

(* Where vds_queue_urb_giveback_locked puts a context with ready_time t: an *)
(* untimed one before the first timed one, a timed one before the first     *)
(* timed one that is ready later.                                           *)
InsertIndex(q, t) ==
  LET behind == {i \in DOMAIN q : ready[q[i]] # 0 /\ (t = 0 \/ ready[q[i]] > t)}
  IN IF behind = {} THEN Len(q) + 1
     ELSE CHOOSE i \in behind : \A j \in behind : i <= j

(* Queue q with the contexts of list l inserted, all with ready_time t.     *)
Inserted(q, l, t) ==
  LET k == InsertIndex(q, t)
  IN SubSeq(q, 1, k - 1) \o l \o SubSeq(q, k, Len(q))

(* The list without context u, if it is there (list_del_init).              *)
Unlisted(l, u) ==
  IF \E i \in DOMAIN l : l[i] = u
  THEN RemoveAt(l, CHOOSE i \in DOMAIN l : l[i] = u)
  ELSE l

(* Lists that hold the members of S in the order they have in list l.       *)
InOrder(S, l) ==
  {t \in SetToSeqs(S) :
     \A i, j \in DOMAIN t : i < j =>
       \E m, n \in DOMAIN l : m < n /\ l[m] = t[i] /\ l[n] = t[j]}

(* The contexts of list l go to the giveback queue with status st.          *)
QueueGiveback(l, st, t) ==
  /\ completed_urbs' = Inserted(completed_urbs, l, t)
  /\ state' = [u \in Urbs |->
                 IF u \in ToSet(l) THEN "PENDING_GIVEBACK" ELSE state[u]]
  /\ status' = [u \in Urbs |-> IF u \in ToSet(l) THEN st ELSE status[u]]

(* Mutant: a context queued for giveback stays on its pending list.         *)
StaysPending(u) == UNCHANGED <<pending_hid_in, pending_feature_get>>

UnlistPending(u) ==
  /\ pending_hid_in' = Unlisted(pending_hid_in, u)
  /\ pending_feature_get' = Unlisted(pending_feature_get, u)

Queued(u) == state[u] \in {"PENDING_GIVEBACK", "GIVING_BACK"}

(* vds_enqueue_frame fails when stopping or with the queue at its limit.    *)
CanEnqueue == ~stopping /\ Len(events) < MaxEvents
(* Mutant: the frame does not say what it is about.                         *)
EmptyFrame(ty, a) == [type |-> ty, arg |-> NoArg]

Frame(ty, a) == [type |-> ty, arg |-> a]
EnqueueBestEffort(ty, a) ==
  events' = IF CanEnqueue THEN Append(events, Frame(ty, a)) ELSE events

SetFlags(fs, on) == IF on THEN status_flags \cup fs ELSE status_flags \ fs

(* A submitting thread goes on with its URB's context, which must exist.    *)
At(u, label) == pc[u] = label /\ state[u] # "FREE"
GoTo(u, label) == pc' = [pc EXCEPT ![u] = label]
Answer(u, r) == GoTo(u, "queue") /\ ret' = [ret EXCEPT ![u] = r]

(* The context's state and list node are set without a look at the state it *)
(* is in: one that an unlink has queued for giveback in the meantime ends   *)
(* up on two lists.                                                         *)
Waits(u, st) ==
  /\ state' = [state EXCEPT ![u] = st]
  /\ relinked' = (relinked \/ Queued(u))

-----------------------------------------------------------------------------
(* Submission: vds_urb_enqueue.                                             *)

(* The values a transfer of kind k can carry.                               *)
ArgsOf(k) ==
  CASE k = "get_feature" -> Reports
    [] k \in {"set_config", "set_interface"} -> BOOLEAN
    [] OTHER -> {NoArg}

(* The context is allocated and linked to the endpoint.  Drivers submit to  *)
(* a device the hub driver has enumerated.                                  *)
Submit(u, k, a) ==
  /\ u \notin owned /\ pc[u] = "idle"
  /\ submits[u] < MaxSubmits
  /\ hub_view /\ ~stopping
  /\ owned' = owned \cup {u}
  /\ submits' = [submits EXCEPT ![u] = @ + 1]
  /\ state' = [state EXCEPT ![u] = "ACTIVE"]
  /\ kind' = [kind EXCEPT ![u] = k]
  /\ arg' = [arg EXCEPT ![u] = a]
  /\ GoTo(u, "dispatch")
  /\ UNCHANGED <<ready, status, ret, unlinked, relinked, listVars, events,
                 input_packet, nextVars, portVars, usbVars, gbVars, now,
                 hubVars, userVars>>

(* A control request answered on the spot, or any transfer the endpoint     *)
(* checks refuse with -EPIPE.                                               *)
AnswerControl(u) ==
  /\ At(u, "dispatch") /\ kind[u] = "control"
  /\ \E r \in {"OK", "ERROR"} : Answer(u, r)
  /\ UNCHANGED <<ctxVars, kind, arg, coreVars, listVars, events, input_packet,
                 nextVars, portVars, usbVars, gbVars, now, hubVars, userVars>>

(* GET_REPORT(feature) reads the cache under usb.lock.                      *)
LookupFeature(u) ==
  /\ At(u, "dispatch") /\ kind[u] = "get_feature"
  /\ IF arg[u] \in feature_cache THEN Answer(u, "OK")
     ELSE GoTo(u, "defer") /\ UNCHANGED ret
  /\ UNCHANGED <<ctxVars, kind, arg, coreVars, listVars, events, input_packet,
                 nextVars, portVars, usbVars, gbVars, now, hubVars, userVars>>

(* After a miss the context waits on pending_feature_get, whatever has      *)
(* become of it since the miss; only for a context that the giveback thread *)
(* has taken may the URB's pointer to it already be gone.                   *)
DeferFeature(u) ==
  /\ At(u, "defer")
  /\ \/ /\ stopping /\ Answer(u, "SHUTDOWN")
        /\ UNCHANGED <<state, pending_feature_get, relinked>>
     \/ /\ state[u] = "GIVING_BACK" /\ Answer(u, "ERROR")
        /\ UNCHANGED <<state, pending_feature_get, relinked>>
     \/ /\ ~stopping
        /\ Waits(u, "PENDING_FEATURE_GET")
        /\ pending_feature_get' = Append(pending_feature_get, u)
        /\ GoTo(u, "frame") /\ UNCHANGED ret
  /\ UNCHANGED <<ready, status, kind, arg, owned, unlinked, submits,
                 pending_hid_in, completed_urbs, events, input_packet,
                 nextVars, portVars, usbVars, gbVars, now, hubVars, userVars>>

(* Mutant: a request that could not be queued is not reported.              *)
ForgetRequest(u) == GoTo(u, "idle") /\ UNCHANGED ret

RequestFails(u) == Answer(u, "ERROR")

(* Then the daemon is asked; without a frame the URB fails.                 *)
RequestFeature(u) ==
  /\ pc[u] = "frame"
  /\ IF CanEnqueue
     THEN /\ events' = Append(events, Frame("FEATURE_GET", arg[u]))
          /\ GoTo(u, "idle") /\ UNCHANGED ret
     ELSE RequestFails(u) /\ UNCHANGED events
  /\ UNCHANGED <<ctxVars, kind, arg, coreVars, listVars, input_packet,
                 nextVars, portVars, usbVars, gbVars, now, hubVars, userVars>>

(* SET_REPORT(feature) and interrupt OUT hand their data to the daemon; the *)
(* output report is best effort, the feature report is not.                 *)
SendOut(u) ==
  /\ At(u, "dispatch")
  /\ \/ /\ kind[u] = "hid_out"
        /\ EnqueueBestEffort("HID_OUT", NoArg) /\ Answer(u, "OK")
     \/ /\ kind[u] = "set_feature"
        /\ EnqueueBestEffort("FEATURE_SET", NoArg)
        /\ Answer(u, IF CanEnqueue THEN "OK" ELSE "ERROR")
  /\ UNCHANGED <<ctxVars, kind, arg, coreVars, listVars, input_packet,
                 nextVars, portVars, usbVars, gbVars, now, hubVars, userVars>>

(* SET_CONFIGURATION and SET_INTERFACE: the device state under usb.lock,    *)
(* then each status flag under dev->lock, then the event.  Interfaces other *)
(* than audio OUT have no flag.                                             *)
SetConfiguration(u) ==
  /\ At(u, "dispatch") /\ kind[u] = "set_config"
  /\ configuration' = arg[u] /\ audio_out_altsetting' = FALSE
  /\ GoTo(u, "config_status")
  /\ UNCHANGED <<ctxVars, ret, kind, arg, coreVars, listVars, events,
                 input_packet, nextVars, portVars, feature_cache, gbVars, now,
                 hubVars, userVars>>

SetConfiguredStatus(u) ==
  /\ At(u, "config_status")
  /\ status_flags' = SetFlags({"CONFIGURED", "HID_ENABLED"}, arg[u])
  /\ GoTo(u, "audio_status")
  /\ UNCHANGED <<ctxVars, ret, kind, arg, coreVars, listVars, events,
                 input_packet, nextVars, port_status, stopping, opened,
                 usbVars, gbVars, now, hubVars, userVars>>

SetInterface(u) ==
  /\ At(u, "dispatch") /\ kind[u] = "set_interface"
  /\ \/ audio_out_altsetting' = arg[u] /\ GoTo(u, "audio_status")
     \/ UNCHANGED audio_out_altsetting /\ GoTo(u, "event")
  /\ UNCHANGED <<ctxVars, ret, kind, arg, coreVars, listVars, events,
                 input_packet, nextVars, portVars, configuration,
                 feature_cache, gbVars, now, hubVars, userVars>>

SetAudioStatus(u) ==
  /\ At(u, "audio_status")
  /\ \/ /\ kind[u] = "set_config"
        /\ status_flags' = SetFlags({"AUDIO_ENABLED"}, FALSE)
        /\ Answer(u, "OK")
     \/ /\ kind[u] = "set_interface"
        /\ status_flags' = SetFlags({"AUDIO_ENABLED"}, arg[u])
        /\ GoTo(u, "event") /\ UNCHANGED ret
  /\ UNCHANGED <<ctxVars, kind, arg, coreVars, listVars, events, input_packet,
                 nextVars, port_status, stopping, opened, usbVars, gbVars,
                 now, hubVars, userVars>>

SendInterfaceEvent(u) ==
  /\ At(u, "event")
  /\ EnqueueBestEffort("INTERFACE", arg[u])
  /\ Answer(u, "OK")
  /\ UNCHANGED <<ctxVars, kind, arg, coreVars, listVars, input_packet,
                 nextVars, portVars, usbVars, gbVars, now, hubVars, userVars>>

(* Interrupt IN takes the stored report, paced, or waits for the next one.  *)
TakeInput(u) ==
  /\ At(u, "dispatch") /\ kind[u] = "hid_in"
  /\ IF input_packet # NoInput
     THEN /\ input_packet' = NoInput
          /\ next_hid_in_ready' = Laterof(next_hid_in_ready, now) + HidInterval
          /\ ready' = [ready EXCEPT ![u] = next_hid_in_ready']
          /\ Answer(u, "OK")
          /\ UNCHANGED <<state, pending_hid_in, relinked>>
     ELSE /\ Waits(u, "PENDING_HID_IN")
          /\ pending_hid_in' = Append(pending_hid_in, u)
          /\ GoTo(u, "idle")
          /\ UNCHANGED <<input_packet, next_hid_in_ready, ready, ret>>
  /\ UNCHANGED <<status, kind, arg, owned, unlinked, submits,
                 pending_feature_get, completed_urbs, events,
                 next_iso_out_ready, next_iso_in_ready, portVars, usbVars,
                 gbVars, now, hubVars, userVars>>

(* Isochronous transfers are paced by the duration of the PCM they carry.   *)
ScheduleIso(u) ==
  /\ At(u, "dispatch")
  /\ \/ /\ kind[u] = "iso_out"
        /\ next_iso_out_ready' = Laterof(next_iso_out_ready, now) + IsoDuration
        /\ ready' = [ready EXCEPT ![u] = next_iso_out_ready']
        /\ UNCHANGED next_iso_in_ready
     \/ /\ kind[u] = "iso_in"
        /\ next_iso_in_ready' = Laterof(next_iso_in_ready, now) + IsoDuration
        /\ ready' = [ready EXCEPT ![u] = next_iso_in_ready']
        /\ UNCHANGED next_iso_out_ready
  /\ Answer(u, "OK")
  /\ UNCHANGED <<state, status, kind, arg, coreVars, listVars, events,
                 input_packet, next_hid_in_ready, portVars, usbVars, gbVars,
                 now, hubVars, userVars>>

(* The answered URB is queued for giveback, unless it already is.           *)
QueueAnswer(u) ==
  /\ At(u, "queue")
  /\ IF Queued(u) THEN UNCHANGED <<ctxVars, listVars>>
     ELSE /\ QueueGiveback(<<u>>, ret[u], ready[u])
          /\ UnlistPending(u) /\ UNCHANGED ready
  /\ GoTo(u, "idle")
  /\ ret' = [ret EXCEPT ![u] = "OK"]
  /\ UNCHANGED <<kind, arg, coreVars, events, input_packet, nextVars,
                 portVars, usbVars, gbVars, now, hubVars, userVars>>

SubmitStep(u) ==
  \/ AnswerControl(u) \/ LookupFeature(u) \/ DeferFeature(u)
  \/ RequestFeature(u) \/ SendOut(u) \/ SetConfiguration(u)
  \/ SetConfiguredStatus(u) \/ SetInterface(u) \/ SetAudioStatus(u)
  \/ SendInterfaceEvent(u) \/ TakeInput(u) \/ ScheduleIso(u) \/ QueueAnswer(u)

-----------------------------------------------------------------------------
(* vds_urb_dequeue on a URB whose giveback is already queued ...            *)

(* Mutant: only its time is cleared.                                        *)
HastenQueued(u) ==
  ready' = [ready EXCEPT ![u] = 0] /\ UNCHANGED <<state, status, listVars>>

UnlinkQueued(u) ==
  /\ status' = [status EXCEPT ![u] = "UNLINKED"]
  /\ ready' = [ready EXCEPT ![u] = 0]
  /\ UNCHANGED <<state, listVars>>

(* ... and on one that is not.                                              *)
UnlinkWaiting(u) ==
  /\ QueueGiveback(<<u>>, "UNLINKED", ready[u])
  /\ UnlistPending(u) /\ UNCHANGED ready

(* usb_hcd_check_unlink_urb lets one unlink through for a URB that is still *)
(* linked to its endpoint.  With "early_unlink" it may come while           *)
(* vds_urb_enqueue is still running for that URB, and with                  *)
(* "unlink_before_wait" also before the lock section that may put the URB   *)
(* on a pending list.                                                       *)
MayWait(u) ==
  kind[u] \in {"hid_in", "get_feature"} /\ pc[u] \in {"dispatch", "defer"}

Dequeue(u) ==
  /\ \/ "unlink" \in EnvOps /\ pc[u] = "idle"
     \/ "early_unlink" \in EnvOps /\ ~MayWait(u)
     \/ "unlink_before_wait" \in EnvOps /\ MayWait(u)
  /\ state[u] \notin {"FREE", "GIVING_BACK"} /\ u \notin unlinked
  /\ unlinked' = unlinked \cup {u}
  /\ \/ state[u] = "PENDING_GIVEBACK" /\ UnlinkQueued(u)
     \/ state[u] # "PENDING_GIVEBACK" /\ UnlinkWaiting(u)
  /\ UNCHANGED <<submitVars, owned, submits, relinked, events, input_packet,
                 nextVars, portVars, usbVars, gbVars, now, hubVars, userVars>>

-----------------------------------------------------------------------------
(* vds_giveback_thread.                                                     *)

(* Mutant: completion times are ignored.                                    *)
AlwaysDue(u) == TRUE
Due(u) == ready[u] <= now

TimerExpired == gb_until <= now

(* Mutant: a stopped thread leaves without looking at the queue.            *)
NothingToDrain == TRUE
Drained == completed_urbs = <<>>

(* The head is not ready yet: the thread sleeps on a timer until it is.     *)
GbSleep ==
  /\ gb_pc = "wait" /\ completed_urbs # <<>>
  /\ ~Due(Head(completed_urbs))
  /\ gb_pc' = "sleep" /\ gb_until' = ready[Head(completed_urbs)]
  /\ UNCHANGED <<ctxVars, submitVars, coreVars, listVars, events,
                 input_packet, nextVars, portVars, usbVars, gb_urb,
                 should_stop, now, hubVars, userVars>>

(* Only the timer or kthread_stop ends that sleep; giveback_wq does not.    *)
GbWake ==
  /\ gb_pc = "sleep" /\ (TimerExpired \/ should_stop)
  /\ gb_pc' = "wait" /\ gb_until' = 0
  /\ UNCHANGED <<ctxVars, submitVars, coreVars, listVars, events,
                 input_packet, nextVars, portVars, usbVars, gb_urb,
                 should_stop, now, hubVars, userVars>>

GbPop ==
  /\ gb_pc = "wait" /\ completed_urbs # <<>>
  /\ Due(Head(completed_urbs))
  /\ gb_pc' = "deliver" /\ gb_urb' = Head(completed_urbs)
  /\ state' = [state EXCEPT ![Head(completed_urbs)] = "GIVING_BACK"]
  /\ completed_urbs' = Tail(completed_urbs)
  /\ UNCHANGED <<ready, status, submitVars, coreVars, pending_hid_in,
                 pending_feature_get, events, input_packet, nextVars,
                 portVars, usbVars, gb_until, should_stop, now, hubVars,
                 userVars>>

(* ISO OUT PCM becomes a frame now, at the paced time, not at submission.   *)
GbDeliver ==
  /\ gb_pc = "deliver"
  /\ gb_pc' = "giveback"
  /\ IF kind[gb_urb] = "iso_out" /\ status[gb_urb] = "OK"
     THEN EnqueueBestEffort("AUDIO_OUT", NoArg) ELSE UNCHANGED events
  /\ UNCHANGED <<ctxVars, submitVars, coreVars, listVars, input_packet,
                 nextVars, portVars, usbVars, gb_urb, gb_until, should_stop,
                 now, hubVars, userVars>>

(* Mutant: usb core's endpoint queue keeps the URB.                         *)
StillLinked(u) == owned' = owned \ {u} /\ UNCHANGED unlinked
LeavesCore(u) == owned' = owned \ {u} /\ unlinked' = unlinked \ {u}

(* usb_hcd_unlink_urb_from_ep, usb_hcd_giveback_urb and kfree(context).     *)
GbGiveback ==
  /\ gb_pc = "giveback"
  /\ gb_pc' = "wait" /\ gb_urb' = NoUrb
  /\ LeavesCore(gb_urb)
  /\ state' = [state EXCEPT ![gb_urb] = "FREE"]
  /\ ready' = [ready EXCEPT ![gb_urb] = 0]
  /\ status' = [status EXCEPT ![gb_urb] = "OK"]
  /\ UNCHANGED <<submitVars, submits, relinked, listVars, events,
                 input_packet, nextVars, portVars, usbVars, gb_until,
                 should_stop, now, hubVars, userVars>>

(* The thread ends only when stopped and with an empty queue.               *)
GbExit ==
  /\ gb_pc = "wait" /\ Drained /\ should_stop
  /\ gb_pc' = "exited"
  /\ UNCHANGED <<ctxVars, submitVars, coreVars, listVars, events,
                 input_packet, nextVars, portVars, usbVars, gb_urb, gb_until,
                 should_stop, now, hubVars, userVars>>

GbStep == GbSleep \/ GbWake \/ GbPop \/ GbDeliver \/ GbGiveback \/ GbExit

-----------------------------------------------------------------------------
(* The daemon's thread: open, read, write and ioctl on the device file.     *)

UserReady == opened /\ user = "idle"

(* misc_deregister comes before stop, so a stopping port is not opened.     *)
Open ==
  /\ ~opened /\ ~stopping /\ user = "idle"
  /\ opened' = TRUE
  /\ UNCHANGED <<ctxVars, submitVars, coreVars, listVars, events,
                 input_packet, nextVars, status_flags, port_status, stopping,
                 usbVars, gbVars, now, hubVars, userVars>>

(* vds_read; the daemon remembers the reports it has been asked for.        *)
Read ==
  /\ UserReady /\ events # <<>>
  /\ events' = Tail(events)
  /\ requests' = IF Head(events).type = "FEATURE_GET"
                 THEN requests \cup {Head(events).arg} ELSE requests
  /\ UNCHANGED <<ctxVars, submitVars, coreVars, listVars, input_packet,
                 nextVars, portVars, usbVars, gbVars, now, hubVars, user,
                 replying, closer, inputs>>

(* Mutant: a report is stored even when a URB waits for one.                *)
AlwaysStore == FALSE
InputAwaited == pending_hid_in # <<>>

(* An input report completes the oldest waiting interrupt IN, paced, or     *)
(* replaces the stored report.                                              *)
WriteInput ==
  /\ UserReady /\ ~stopping /\ inputs < MaxInputs
  /\ inputs' = inputs + 1
  /\ IF InputAwaited
     THEN LET u == Head(pending_hid_in)
              t == Laterof(next_hid_in_ready, now) + HidInterval
          IN /\ next_hid_in_ready' = t
             /\ ready' = [ready EXCEPT ![u] = t]
             /\ QueueGiveback(<<u>>, "OK", t)
             /\ pending_hid_in' = Tail(pending_hid_in)
             /\ UNCHANGED input_packet
     ELSE /\ input_packet' = inputs'
          /\ UNCHANGED <<next_hid_in_ready, ctxVars, pending_hid_in,
                         completed_urbs>>
  /\ UNCHANGED <<submitVars, coreVars, pending_feature_get, events,
                 next_iso_out_ready, next_iso_in_ready, portVars, usbVars,
                 gbVars, now, hubVars, user, replying, closer, requests>>

(* A feature reply, asked for or not, first enters the cache ...            *)
WriteFeatureReply(r) ==
  /\ UserReady /\ ~stopping
  /\ r \in requests \/ "unasked_reply" \in EnvOps
  /\ feature_cache' = feature_cache \cup {r}
  /\ user' = "reply" /\ replying' = r
  /\ UNCHANGED <<ctxVars, submitVars, coreVars, listVars, events,
                 input_packet, nextVars, portVars, configuration,
                 audio_out_altsetting, gbVars, now, hubVars, closer,
                 requests, inputs>>

(* ... and then completes every waiting URB that asked for this report.     *)
CompleteFeatureReplies ==
  /\ user = "reply"
  /\ user' = "idle" /\ replying' = NoArg
  /\ requests' = requests \ {replying}
  /\ LET waiting  == ToSet(pending_feature_get)
         answered == {u \in waiting : arg[u] = replying}
     IN IF stopping THEN UNCHANGED <<ctxVars, listVars>>
        ELSE \E l \in InOrder(answered, pending_feature_get),
                rest \in InOrder(waiting \ answered, pending_feature_get) :
               /\ pending_feature_get' = rest
               /\ QueueGiveback(l, "OK", 0)
               /\ UNCHANGED <<ready, pending_hid_in>>
  /\ UNCHANGED <<submitVars, coreVars, events, input_packet, nextVars,
                 portVars, usbVars, gbVars, now, hubVars, closer, inputs>>

(* vds_cancel_pending_urbs_locked and vds_flush_buffered_frames_locked.     *)
CancelPending ==
  /\ QueueGiveback(pending_hid_in \o pending_feature_get, "SHUTDOWN", 0)
  /\ pending_hid_in' = <<>> /\ pending_feature_get' = <<>>
FlushBuffered == events' = <<>> /\ input_packet' = NoInput

(* vds_set_connection under dev->lock; a stopping port ignores it.          *)
ConnectLocked ==
  IF stopping THEN UNCHANGED <<port_status, status_flags>>
  ELSE /\ port_status' = port_status \cup {"POWER", "CONNECTION"}
            \cup (IF "CONNECTION" \in port_status THEN {} ELSE {"C_CONNECTION"})
       /\ status_flags' = status_flags \cup {"CONNECTED"}

(* Mutants: the change is not reported; the port stays enabled.             *)
PortSilent == port_status \ {"CONNECTION", "ENABLE", "HIGH_SPEED"}
PortStaysEnabled ==
  (port_status \ {"CONNECTION"})
    \cup (IF "CONNECTION" \in port_status THEN {"C_CONNECTION"} ELSE {})

PortAfterDisconnect ==
  (port_status \ {"CONNECTION", "ENABLE", "HIGH_SPEED"})
    \cup (IF "CONNECTION" \in port_status THEN {"C_CONNECTION"} ELSE {})

DisconnectLocked ==
  /\ port_status' = PortAfterDisconnect
  /\ CancelPending /\ FlushBuffered
  /\ next_iso_out_ready' = 0 /\ next_iso_in_ready' = 0
  /\ next_hid_in_ready' = 0
  /\ status_flags' = {}
  /\ UNCHANGED <<ready, stopping>>

(* vds_usb_device_reset_state, after dev->lock has been released.           *)
ResetUsbState ==
  /\ configuration' = FALSE /\ audio_out_altsetting' = FALSE
  /\ feature_cache' = {}

Connect ==
  /\ UserReady
  /\ ConnectLocked
  /\ UNCHANGED <<ctxVars, submitVars, coreVars, listVars, events,
                 input_packet, nextVars, stopping, opened, usbVars, gbVars,
                 now, hubVars, userVars>>

Disconnect ==
  /\ "disconnect" \in EnvOps /\ UserReady /\ ~stopping
  /\ DisconnectLocked
  /\ user' = "reset_usb"
  /\ UNCHANGED <<submitVars, coreVars, opened, usbVars, gbVars, now, hubVars,
                 replying, closer, requests, inputs>>

(* The daemon drops the answers it still owed the old connection.           *)
DisconnectReset ==
  /\ user = "reset_usb"
  /\ ResetUsbState
  /\ user' = "idle" /\ requests' = {}
  /\ UNCHANGED <<ctxVars, submitVars, coreVars, listVars, events,
                 input_packet, nextVars, portVars, gbVars, now, hubVars,
                 replying, closer, inputs>>

(* VDS_IOC_SET_PROFILE resets the device state; refused while connected.    *)
SetProfile ==
  /\ "set_profile" \in EnvOps /\ UserReady /\ ~stopping
  /\ "CONNECTED" \notin status_flags
  /\ ResetUsbState
  /\ status_flags' = SetFlags({"CONFIGURED", "HID_ENABLED", "AUDIO_ENABLED"},
                              FALSE)
  /\ UNCHANGED <<ctxVars, submitVars, coreVars, listVars, events,
                 input_packet, nextVars, port_status, stopping, opened,
                 gbVars, now, hubVars, userVars>>

(* vds_release frees the file for the next opener and only then, with the   *)
(* lock released in between, takes the port's connection down.              *)
Release ==
  /\ "release" \in EnvOps /\ UserReady /\ closer = "idle"
  /\ opened' = FALSE
  /\ closer' = IF "CONNECTED" \in status_flags THEN "disconnect" ELSE "idle"
  /\ requests' = {}
  /\ UNCHANGED <<ctxVars, submitVars, coreVars, listVars, events,
                 input_packet, nextVars, status_flags, port_status, stopping,
                 usbVars, gbVars, now, hubVars, user, replying, inputs>>

ReleaseDisconnect ==
  /\ closer = "disconnect"
  /\ IF stopping
     THEN /\ closer' = "idle"
          /\ UNCHANGED <<ctxVars, listVars, events, input_packet, nextVars,
                         status_flags, port_status, stopping>>
     ELSE DisconnectLocked /\ closer' = "reset_usb"
  /\ UNCHANGED <<submitVars, coreVars, opened, usbVars, gbVars, now, hubVars,
                 user, replying, requests, inputs>>

ReleaseReset ==
  /\ closer = "reset_usb"
  /\ ResetUsbState /\ closer' = "idle"
  /\ UNCHANGED <<ctxVars, submitVars, coreVars, listVars, events,
                 input_packet, nextVars, portVars, gbVars, now, hubVars,
                 user, replying, requests, inputs>>

UserStep == CompleteFeatureReplies \/ DisconnectReset
CloserStep == ReleaseDisconnect \/ ReleaseReset

-----------------------------------------------------------------------------
(* The root hub: vds_hub_control and the hub driver that calls it.          *)

(* Port requests other than the acknowledgement of a connection change.     *)
HubRequest ==
  /\ "hub" \in EnvOps
  /\ \/ port_status' = port_status \ {"ENABLE"}
     \/ port_status' = port_status \ {"POWER"}
     \/ port_status' = port_status \ {"C_RESET"}
     \/ port_status' = port_status \cup {"POWER"}
     \/ /\ "CONNECTION" \in port_status
        /\ port_status' = port_status \cup {"ENABLE", "HIGH_SPEED", "C_RESET"}
  /\ UNCHANGED <<ctxVars, submitVars, coreVars, listVars, events,
                 input_packet, nextVars, status_flags, stopping, opened,
                 usbVars, gbVars, now, hubVars, userVars>>

(* The hub driver acknowledges a connection change and then reads the port  *)
(* again (hub_port_connect_change); hub_view is what it last read, that is  *)
(* whether it has the device enumerated.                                    *)
HubAcknowledge ==
  /\ "C_CONNECTION" \in port_status
  /\ port_status' = port_status \ {"C_CONNECTION"}
  /\ hub_reading' = TRUE
  /\ UNCHANGED <<ctxVars, submitVars, coreVars, listVars, events,
                 input_packet, nextVars, status_flags, stopping, opened,
                 usbVars, gbVars, now, hub_view, userVars>>

HubRead ==
  /\ hub_reading
  /\ hub_reading' = FALSE /\ hub_view' = ("CONNECTION" \in port_status)
  /\ UNCHANGED <<ctxVars, submitVars, coreVars, listVars, events,
                 input_packet, nextVars, portVars, usbVars, gbVars, now,
                 userVars>>

-----------------------------------------------------------------------------
(* Removal: vds_hcd_stop and then kthread_stop.  usb_remove_hcd has         *)
(* disconnected the devices below the root hub before it calls stop, so no  *)
(* driver is inside vds_urb_enqueue.                                        *)
Stop ==
  /\ "stop" \in EnvOps /\ ~stopping
  /\ \A u \in Urbs : pc[u] = "idle"
  /\ stopping' = TRUE
  /\ CancelPending /\ FlushBuffered
  /\ status_flags' = {}
  /\ UNCHANGED <<ready, submitVars, coreVars, nextVars, port_status, opened,
                 usbVars, gbVars, now, hubVars, userVars>>

StopThread ==
  /\ stopping /\ ~should_stop
  /\ should_stop' = TRUE
  /\ UNCHANGED <<ctxVars, submitVars, coreVars, listVars, events,
                 input_packet, nextVars, portVars, usbVars, gb_pc, gb_urb,
                 gb_until, now, hubVars, userVars>>

(* The clock.  It matters only while some completion time lies ahead, so it *)
(* rests otherwise: every time the code computes is relative to now.        *)
Tick ==
  /\ \/ \E u \in Urbs : ready[u] > now
     \/ gb_until > now
     \/ next_iso_out_ready > now \/ next_iso_in_ready > now
     \/ next_hid_in_ready > now
  /\ now' = now + 1
  /\ UNCHANGED <<ctxVars, submitVars, coreVars, listVars, events,
                 input_packet, nextVars, portVars, usbVars, gbVars, hubVars,
                 userVars>>

-----------------------------------------------------------------------------
Next ==
  \/ \E u \in Urbs, k \in Kinds : \E a \in ArgsOf(k) : Submit(u, k, a)
  \/ \E u \in Urbs : SubmitStep(u) \/ Dequeue(u)
  \/ GbStep
  \/ Open \/ Read \/ WriteInput \/ Connect \/ Disconnect \/ SetProfile
  \/ \E r \in Reports : WriteFeatureReply(r)
  \/ UserStep \/ Release \/ CloserStep
  \/ HubRequest \/ HubAcknowledge \/ HubRead
  \/ Stop \/ StopThread \/ Tick

Spec == Init /\ [][Next]_vars

(* The kernel runs every ready thread, time passes, and a daemon that has   *)
(* the device open reads it and answers what it has been asked; nothing is  *)
(* assumed of the drivers above nor of input reports and connections.       *)
Fairness ==
  /\ WF_vars(Tick) /\ WF_vars(GbStep)
  /\ \A u \in Urbs : WF_vars(SubmitStep(u))
  /\ WF_vars(UserStep) /\ WF_vars(CloserStep) /\ WF_vars(StopThread)

DaemonFairness ==
  /\ WF_vars(Read)
  /\ \A r \in Reports : WF_vars(r \in requests /\ WriteFeatureReply(r))

FairSpec == Spec /\ Fairness
FairDaemonSpec == FairSpec /\ DaemonFairness

-----------------------------------------------------------------------------
(* Properties.                                                             *)

(* The transfer of URB u carries what its kind calls for.                   *)
FitsKind(u) ==
  /\ kind[u] = "get_feature" => arg[u] \in Reports
  /\ kind[u] \in {"set_config", "set_interface"} => arg[u] \in BOOLEAN
  /\ pc[u] \in {"defer", "frame"} => kind[u] = "get_feature"

(* Type invariant, one conjunct for each group of variables.                *)
CtxType ==
  /\ state \in [Urbs -> CtxStates]
  /\ ready \in [Urbs -> Nat]
  /\ status \in [Urbs -> Statuses]
SubmitType ==
  /\ pc \in [Urbs -> SubmitPcs] /\ ret \in [Urbs -> Statuses]
  /\ kind \in [Urbs -> AllKinds] /\ arg \in [Urbs -> Args]
  /\ \A u \in Urbs : FitsKind(u)
CoreType ==
  /\ owned \subseteq Urbs /\ unlinked \subseteq Urbs
  /\ submits \in [Urbs -> Nat] /\ relinked \in BOOLEAN
ListType ==
  /\ pending_hid_in \in Seq(Urbs) /\ pending_feature_get \in Seq(Urbs)
  /\ completed_urbs \in Seq(Urbs)
FrameType == events \in Seq(Frames) /\ input_packet \in Nat
TimeType ==
  /\ next_iso_out_ready \in Nat /\ next_iso_in_ready \in Nat
  /\ next_hid_in_ready \in Nat /\ now \in Nat \ {0}
PortType ==
  /\ status_flags \subseteq Flags /\ port_status \subseteq PortBits
  /\ stopping \in BOOLEAN /\ opened \in BOOLEAN
UsbType ==
  /\ configuration \in BOOLEAN /\ audio_out_altsetting \in BOOLEAN
  /\ feature_cache \subseteq Reports
GbType ==
  /\ gb_pc \in {"wait", "sleep", "deliver", "giveback", "exited"}
  /\ gb_urb \in Urbs \cup {NoUrb} /\ gb_until \in Nat
  /\ gb_pc \in {"deliver", "giveback"} => gb_urb \in Urbs
  /\ should_stop \in BOOLEAN
EnvType ==
  /\ hub_view \in BOOLEAN /\ hub_reading \in BOOLEAN
  /\ user \in UserPcs /\ replying \in Reports \cup {NoArg}
  /\ user = "reply" => replying \in Reports
  /\ closer \in CloserPcs
  /\ requests \subseteq Reports /\ inputs \in Nat

TypeOK ==
  /\ CtxType /\ SubmitType /\ CoreType /\ ListType /\ FrameType
  /\ TimeType /\ PortType /\ UsbType /\ GbType /\ EnvType

(* List l holds exactly the contexts in state st, each once.                *)
Lists(l, st) == IsInjective(l) /\ ToSet(l) = {u \in Urbs : state[u] = st}

(* "Protects frame queues, URB queues, ...": whatever the interleaving of   *)
(* submission, reply, input, unlink, disconnect and giveback, every context *)
(* is on the one list its state names, exactly once, and in the giveback    *)
(* thread's hands exactly while it is GIVING_BACK.  One interleaving breaks *)
(* it and is excepted: an unlink between the two lock sections of a         *)
(* submission that then waits (vds_interrupt_in_urb and                     *)
(* vds_usb_defer_feature_get do not look at the state they overwrite).      *)
InHand(u) == gb_pc \in {"deliver", "giveback"} /\ gb_urb = u
OneListEach ==
  /\ Lists(pending_hid_in, "PENDING_HID_IN")
  /\ Lists(pending_feature_get, "PENDING_FEATURE_GET")
  /\ Lists(completed_urbs, "PENDING_GIVEBACK")
  /\ \A u \in Urbs : state[u] = "GIVING_BACK" <=> InHand(u)
  /\ owned = {u \in Urbs : state[u] # "FREE"}
ListsMatchState == ~relinked => OneListEach

(* What makes that inductive: a thread that may still put its context on a  *)
(* pending list has not done so yet.                                        *)
Submitting(u) == pc[u] \notin {"idle", "frame", "queue"}
SubmitterNotWaiting ==
  \A u \in Urbs :
    Submitting(u) => state[u] \notin {"PENDING_HID_IN", "PENDING_FEATURE_GET"}

(* "Serialize ISO completion by the amount of PCM carried by each URB so    *)
(* the host audio stack observes a realtime USB sink/source": a successful  *)
(* ISO URB is not given back before its time, and the times of two          *)
(* successful URBs of one endpoint are at least a URB's duration apart.  A  *)
(* disconnect starts the pacing anew, so the latter is a property of one    *)
(* connection.                                                              *)
IsIso(u) == kind[u] \in {"iso_out", "iso_in"}
Paced(u, k) == kind[u] = k /\ ready[u] # 0 /\ Queued(u)
IsoDue ==
  \A u \in Urbs :
    state[u] = "GIVING_BACK" /\ status[u] = "OK" /\ IsIso(u) =>
      ready[u] # 0 /\ ready[u] <= now
IsoSpaced ==
  \A u, v \in Urbs, k \in {"iso_out", "iso_in"} :
    u # v /\ Paced(u, k) /\ Paced(v, k) =>
      \/ ready[u] + IsoDuration <= ready[v]
      \/ ready[v] + IsoDuration <= ready[u]
IsoRealtime == IsoDue /\ IsoSpaced

(* What makes the first part inductive: an ISO URB neither waits nor asks   *)
(* the daemon, and is given a time before it can succeed; what comes back   *)
(* before it has one was unlinked or cancelled.                             *)
IsoPath ==
  \A u \in Urbs : IsIso(u) =>
    /\ pc[u] \in {"idle", "dispatch", "queue"}
    /\ state[u] \notin {"PENDING_HID_IN", "PENDING_FEATURE_GET"}
    /\ pc[u] = "dispatch" /\ Queued(u) => status[u] # "OK"
    /\ pc[u] = "queue" /\ state[u] = "ACTIVE" /\ ret[u] = "OK" => ready[u] # 0
    /\ Queued(u) /\ status[u] = "OK" => ready[u] # 0
IsoDueInv == IsoPath /\ IsoDue

(* And the second: the endpoint's next time is at least that of every URB   *)
(* of the endpoint that has one, queued yet or not.                         *)
Timed(u, k) == kind[u] = k /\ ready[u] # 0
TimesApart(k, next) ==
  /\ \A u \in Urbs : Timed(u, k) => ready[u] <= next
  /\ \A u, v \in Urbs : u # v /\ Timed(u, k) /\ Timed(v, k) =>
       \/ ready[u] + IsoDuration <= ready[v]
       \/ ready[v] + IsoDuration <= ready[u]
IsoSpacedInv ==
  /\ \A u \in Urbs : state[u] = "FREE" => ready[u] = 0
  /\ TimesApart("iso_out", next_iso_out_ready)
  /\ TimesApart("iso_in", next_iso_in_ready)

(* "Keep the newest state instead of replaying stale inputs later": no      *)
(* report is held back while an interrupt IN waits for one, and the report  *)
(* held back is the newest the daemon has written.                          *)
NoInputHeldBack ==
  /\ pending_hid_in # <<>> => input_packet = NoInput
  /\ input_packet \in {NoInput, inputs}

(* A change of the connection is never lost on the hub driver, however      *)
(* connects, disconnects and its two-step acknowledgement interleave.       *)
HubSeesEveryChange ==
  \/ "C_CONNECTION" \in port_status
  \/ hub_reading
  \/ hub_view = ("CONNECTION" \in port_status)

(* What the daemon sees (status_flags) and what the hub driver sees         *)
(* (port_status) agree on the connection; only a connected port is enabled. *)
ConnectionAgrees ==
  /\ ~stopping =>
       ("CONNECTED" \in status_flags <=> "CONNECTION" \in port_status)
  /\ "ENABLE" \in port_status => "CONNECTION" \in port_status

(* kthread_stop leaves no URB behind: the drivers get back every URB they   *)
(* have handed over before the giveback thread ends, whatever was cancelled *)
(* or came in late, unless a context was linked into two lists.             *)
DrainedBeforeExit == ~relinked /\ gb_pc = "exited" => owned = {}

(* What makes that inductive: a context that is on no list has a thread     *)
(* that will put it on one, and once the port is stopping every context is  *)
(* on its way back.                                                         *)
ActiveIsSubmitting ==
  \A u \in Urbs : state[u] = "ACTIVE" => pc[u] \notin {"idle", "frame"}
StopInv ==
  /\ ActiveIsSubmitting
  /\ stopping => \A u \in Urbs :
       /\ pc[u] = "idle"
       /\ state[u] \in {"FREE", "PENDING_GIVEBACK", "GIVING_BACK"}
  /\ should_stop => stopping
  /\ gb_pc = "exited" => should_stop /\ completed_urbs = <<>>

(* A thread inside vds_urb_enqueue that still uses its context has one.     *)
NoUseAfterFree ==
  \A u \in Urbs : pc[u] \notin {"idle", "frame"} => state[u] # "FREE"

(* "Control and interrupt URBs must not sit behind future ISO audio         *)
(* completions": the giveback thread does not sleep until an ISO URB is     *)
(* due while an untimed completion is at the head of the queue.             *)
NotAsleepBehindIso ==
  gb_pc = "sleep" /\ completed_urbs # <<>> =>
    \/ IsIso(Head(completed_urbs))
    \/ ready[Head(completed_urbs)] # 0
    \/ gb_until <= now

(* An unlinked URB comes back as unlinked: neither a reply, an input        *)
(* report, a disconnect nor the submitting thread that answers the URB      *)
(* after the unlink overwrites its status, so none of its data counts as    *)
(* transferred.  A submitting thread that has the URB wait instead undoes   *)
(* the unlink, and links its context a second time: the same exception.     *)
UnlinkKept == \A u \in unlinked : Queued(u) /\ status[u] = "UNLINKED"
UnlinkWins == ~relinked => UnlinkKept

ListInv == OneListEach /\ SubmitterNotWaiting /\ UnlinkKept

(* The URB service the drivers rely on: see UrbService.                     *)
Service == INSTANCE UrbService WITH inflight <- owned, cancelled <- unlinked
ServiceSafe == Service!Spec

(* An URB reaches its driver once the driver has asked for it back (the      *)
(* service's promise), and so does a GET_REPORT that waits for the controller*)
(* and whatever has been completed.  A request frame that fails, a reply that*)
(* comes before its URB waits, the timer, the sleeping thread and insertions *)
(* ahead of it in the queue cannot keep it ("The HCD queues this URB before  *)
(* userspace sees the request frame").                                       *)
GivenBack ==
  /\ Service!CancelledReturn
  /\ \A u \in Urbs :
       state[u] \in {"PENDING_FEATURE_GET", "PENDING_GIVEBACK"} ~> state[u] = "FREE"
=============================================================================
