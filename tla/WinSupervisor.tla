--------------------------- MODULE WinSupervisor ---------------------------
(***************************************************************************)
(* The Windows daemon's supervisor: run_bridge_supervisor of               *)
(* src/src/platform/win32/vdsd.cc with the worker threads it launches, the *)
(* control requests it serves and the configuration it acts on.            *)
(*                                                                         *)
(* One thread reaps finished workers, scans the configuration, launches a  *)
(* worker for every controller that is connected and has a free port, and  *)
(* waits for a request, a finished worker, its retry timer or the end.     *)
(* The worker threads, the clock, the control client and the plugging and  *)
(* unplugging of controllers interleave with it.                           *)
(*                                                                         *)
(* Abstracted: the order of the controllers in the configuration and of    *)
(* the ports of one controller (the model tries every order), the bridge   *)
(* session itself (a worker runs until it fails or is told to stop), and   *)
(* the warnings.  A definition whose comment begins with "Mutant" is the   *)
(* definition after it with a bug put in.                                  *)
(***************************************************************************)
EXTENDS Integers, FiniteSets

CONSTANTS
  Addrs,      \* Bluetooth addresses of controllers
  Ports,      \* virtual ports
  Profiles,   \* controller profiles
  Slots,      \* identities of BridgeWorker objects
  EnvOps,     \* what the surroundings may do
  None        \* no worker, no configuration, no command

Configs  == [ports : SUBSET Ports \ {{}}, profile : Profiles]
Commands ==
  [op : {"attach"}, address : Addrs, config : Configs]
    \cup [op : {"detach"}, address : Addrs, config : {None}]
Workers  == [address : Addrs, port : Ports, profile : Profiles,
             run : {"session", "blind", "ending", "done"},
             stop_requested : BOOLEAN, failed : BOOLEAN]

AllEnvOps == {"attach", "detach", "back_to_back", "fails", "offline",
              "provider", "scan_fails", "slow_scan", "stop"}

ASSUME SupervisorAssumption ==
  /\ IsFiniteSet(Addrs) /\ IsFiniteSet(Ports) /\ IsFiniteSet(Slots)
  /\ None \notin Configs \cup Workers \cup Commands
  /\ EnvOps \subseteq AllEnvOps

VARIABLES
  config,            \* the configuration file: address to configuration
  worker,            \* workers: slot to BridgeWorker
  backoff,           \* worker_failure_backoffs: is its retry_after still ahead
  pc,                \* where the supervisor is
  scan_requested, reload_requested,
  todo,              \* controllers the scan has still to look at
  scan_online, scan_provider,      \* what the scan has listed
  g_stop_requested,
  command,           \* the request in the control pipe's queue
  online, provider   \* connected controllers; are the drivers installed

scanVars == <<todo, scan_online, scan_provider>>
envVars  == <<online, provider>>
vars == <<config, worker, backoff, pc, scan_requested, reload_requested,
          scanVars, g_stop_requested, command, envVars>>

Init ==
  /\ config \in [Addrs -> Configs \cup {None}]
  /\ worker = [s \in Slots |-> None]
  /\ backoff = [a \in Addrs |-> "none"]
  /\ pc = "loop" /\ scan_requested = TRUE /\ reload_requested = FALSE
  /\ todo = {} /\ scan_online = {} /\ scan_provider = FALSE
  /\ g_stop_requested = FALSE /\ command = None
  /\ online \in SUBSET Addrs /\ provider = TRUE

Live      == {s \in Slots : worker[s] # None}
Reserved  == {worker[s].port : s \in Live}
Serving(a) == \E s \in Live : worker[s].address = a

-----------------------------------------------------------------------------
(* Worker threads: run_configured_bridge_worker.                            *)

(* The stop monitor cancels the I/O of a session that is to stop once.  A   *)
(* thread of the session that begins its read of the virtual device after   *)
(* that waits for a frame, and the session with it (Blind of BridgeSession).*)
MissesCancel(s) ==
  /\ s \in Live /\ worker[s].run = "session"
  /\ worker[s].stop_requested /\ ~g_stop_requested
  /\ worker' = [worker EXCEPT ![s].run = "blind"]
  /\ UNCHANGED <<config, backoff, pc, scan_requested, reload_requested,
                 scanVars, g_stop_requested, command, envVars>>

(* The session returns or throws, on its own or because it is to stop; only *)
(* the former counts as a failure.                                          *)
SessionEnds(s) ==
  /\ s \in Live /\ worker[s].run \in {"session", "blind"}
  /\ "fails" \in EnvOps \/ worker[s].stop_requested \/ g_stop_requested
  /\ worker' = [worker EXCEPT
       ![s].run = "ending",
       ![s].failed = ~g_stop_requested /\ ~worker[s].stop_requested]
  /\ UNCHANGED <<config, backoff, pc, scan_requested, reload_requested,
                 scanVars, g_stop_requested, command, envVars>>

WorkerDone(s) ==
  /\ s \in Live /\ worker[s].run = "ending"
  /\ worker' = [worker EXCEPT ![s].run = "done"]
  /\ UNCHANGED <<config, backoff, pc, scan_requested, reload_requested,
                 scanVars, g_stop_requested, command, envVars>>

-----------------------------------------------------------------------------
(* The supervisor's loop.                                                   *)

(* Mutant: the loop does not look at the flag.                              *)
IgnoreStop == TRUE
GoesOn == ~g_stop_requested

(* Mutant: finished workers stay in the list.                               *)
NeverErased(gone) == worker
WithoutGone(gone) == [s \in Slots |-> IF s \in gone THEN None ELSE worker[s]]

BackoffAfter(gone) ==
  [a \in Addrs |->
     IF \E s \in gone : worker[s].address = a /\ worker[s].failed
     THEN "waiting" ELSE backoff[a]]

(* Finished workers are joined and erased; a removal, a reload or a backoff *)
(* that has run out asks for a scan.                                        *)
Reap ==
  /\ pc = "loop" /\ GoesOn
  /\ LET gone == {s \in Live : worker[s].run = "done"}
     IN /\ worker' = WithoutGone(gone)
        /\ backoff' = BackoffAfter(gone)
        /\ pc' = IF \/ scan_requested \/ reload_requested \/ gone # {}
                    \/ \E a \in Addrs : backoff'[a] = "due"
                 THEN "scan" ELSE "rest"
  /\ scan_requested' = FALSE
  /\ UNCHANGED <<config, reload_requested, scanVars, g_stop_requested,
                 command, envVars>>

(* vdsd_worker_config_is_stale; every port of Ports is enabled.             *)
Stale(w) ==
  \/ config[w.address] = None
  \/ config[w.address].profile # w.profile
  \/ w.port \notin config[w.address].ports

(* Mutant: workers are left alone.                                          *)
NeverRetired(w) == w
Retired(w) == IF w # None /\ Stale(w) THEN [w EXCEPT !.stop_requested = TRUE]
              ELSE w

(* The scan loads the configuration, lists the connected controllers and    *)
(* tells workers whose configuration has changed to stop.                   *)
ScanStart ==
  /\ pc = "scan"
  /\ worker' = [s \in Slots |-> Retired(worker[s])]
  /\ todo' = {a \in Addrs : config[a] # None}
  /\ scan_online' = online /\ scan_provider' = provider
  /\ pc' = "bind"
  /\ UNCHANGED <<config, backoff, scan_requested, reload_requested,
                 g_stop_requested, command, envVars>>

(* An exception in the scan: it is repeated the next time round.            *)
ScanFails ==
  /\ "scan_fails" \in EnvOps /\ pc \in {"scan", "bind"}
  /\ scan_requested' = TRUE /\ todo' = {} /\ pc' = "rest"
  /\ UNCHANGED <<config, worker, backoff, reload_requested, scan_online,
                 scan_provider, g_stop_requested, command, envVars>>

(* Mutant: an expired backoff stays.                                        *)
KeepBackoff(a) == UNCHANGED backoff
(* consume_vdsd_worker_retry once retry_after has passed.                   *)
ConsumeRetry(a) == backoff' = [backoff EXCEPT ![a] = "none"]

(* Mutant: the ports of retiring workers count as free.                     *)
AnyPort(a) ==
  config[a].ports
    \ {worker[s].port : s \in {t \in Live : ~worker[t].stop_requested}}
(* select_controller_config_port: an allowed port no worker holds.          *)
FreePorts(a) == config[a].ports \ Reserved

Bindable(a) ==
  ~Serving(a) /\ scan_provider /\ a \in scan_online /\ FreePorts(a) # {}

(* One controller of the configuration: skipped while it backs off, when it *)
(* has a worker or cannot have one; otherwise a worker is launched.         *)
Skip(a) ==
  /\ pc = "bind" /\ a \in todo
  /\ \/ backoff[a] = "waiting" /\ UNCHANGED backoff
     \/ backoff[a] # "waiting" /\ ~Bindable(a) /\ ConsumeRetry(a)
  /\ todo' = todo \ {a}
  /\ UNCHANGED <<config, worker, pc, scan_requested, reload_requested,
                 scan_online, scan_provider, g_stop_requested, command,
                 envVars>>

Launch(a) ==
  /\ pc = "bind" /\ a \in todo
  /\ backoff[a] # "waiting" /\ Bindable(a)
  /\ ConsumeRetry(a)
  /\ \E s \in Slots \ Live, p \in FreePorts(a) :
       worker' = [worker EXCEPT ![s] =
         [address |-> a, port |-> p, profile |-> config[a].profile,
          run |-> "session", stop_requested |-> FALSE, failed |-> FALSE]]
  /\ todo' = todo \ {a}
  /\ UNCHANGED <<config, pc, scan_requested, reload_requested, scan_online,
                 scan_provider, g_stop_requested, command, envVars>>

ScanEnd ==
  /\ pc = "bind" /\ todo = {}
  /\ pc' = "rest"
  /\ UNCHANGED <<config, worker, backoff, scan_requested, reload_requested,
                 scanVars, g_stop_requested, command, envVars>>

(* After the scan: with a backoff that has run out the loop starts over at  *)
(* once, otherwise the supervisor waits.                                    *)
Rest ==
  /\ pc = "rest"
  /\ reload_requested' = FALSE
  /\ IF \E a \in Addrs : backoff[a] = "due"
     THEN pc' = "loop" /\ scan_requested' = TRUE
     ELSE pc' = "wait" /\ UNCHANGED scan_requested
  /\ UNCHANGED <<config, worker, backoff, scanVars, g_stop_requested,
                 command, envVars>>

(* WaitForMultipleObjects prefers the end, then a request, to the timer and *)
(* the workers.                                                             *)
WakeStop ==
  /\ pc = "wait" /\ g_stop_requested /\ pc' = "loop"
  /\ UNCHANGED <<config, worker, backoff, scan_requested, reload_requested,
                 scanVars, g_stop_requested, command, envVars>>

WakeControl ==
  /\ pc = "wait" /\ ~g_stop_requested /\ command # None
  /\ pc' = "control"
  /\ UNCHANGED <<config, worker, backoff, scan_requested, reload_requested,
                 scanVars, g_stop_requested, command, envVars>>

(* The retry timer, armed for a second at most, or a finished worker.       *)
WakeRetry ==
  /\ pc = "wait" /\ ~g_stop_requested /\ command = None
  /\ pc' = "loop" /\ scan_requested' = TRUE
  /\ UNCHANGED <<config, worker, backoff, reload_requested, scanVars,
                 g_stop_requested, command, envVars>>

(* Mutant: a request does not make the supervisor look at the file again.   *)
NoReload == UNCHANGED reload_requested
Reload   == reload_requested' = TRUE

(* Mutant: the request itself is stored.                                    *)
RawRequest(c) == c
Registered(c) == c.config

(* service_ready with handle_vdsd_control_command.  An attach is refused    *)
(* when the controller is registered or not paired or its ports do not fit; *)
(* a detach when it is not registered; either when the file cannot be used. *)
Refuse == UNCHANGED <<config, reload_requested>>
Attach ==
  /\ command.op = "attach" /\ config[command.address] = None
  /\ config' = [config EXCEPT ![command.address] = Registered(command)]
  /\ Reload
Detach ==
  /\ command.op = "detach" /\ config[command.address] # None
  /\ config' = [config EXCEPT ![command.address] = None]
  /\ Reload

Serve ==
  /\ pc = "control" /\ command # None
  /\ Attach \/ Detach \/ Refuse
  /\ command' = None
  /\ UNCHANGED <<worker, backoff, pc, scan_requested, scanVars,
                 g_stop_requested, envVars>>

ServeEnd ==
  /\ pc = "control" /\ command = None
  /\ pc' = "loop"
  /\ scan_requested' = (scan_requested \/ reload_requested)
  /\ UNCHANGED <<config, worker, backoff, reload_requested, scanVars,
                 g_stop_requested, command, envVars>>

(* The loop has ended: the workers are joined, and the control pipe's       *)
(* destructor answers the request that is left.                             *)
Join ==
  /\ pc = "loop" /\ g_stop_requested
  /\ \A s \in Live : worker[s].run = "done"
  /\ pc' = "exited" /\ command' = None
  /\ UNCHANGED <<config, worker, backoff, scan_requested, reload_requested,
                 scanVars, g_stop_requested, envVars>>

Supervisor ==
  \/ Reap \/ ScanStart \/ ScanEnd \/ Rest
  \/ \E a \in Addrs : Skip(a) \/ Launch(a)
  \/ WakeStop \/ WakeControl \/ WakeRetry \/ Serve \/ ServeEnd \/ Join

-----------------------------------------------------------------------------
(* The surroundings.                                                        *)

(* retry_after passes.  The delay is a second; a scan takes that long only  *)
(* with "slow_scan", but going round and round over the entry of a detached *)
(* controller does.                                                         *)
Spinning == \E a \in Addrs : backoff[a] = "due" /\ config[a] = None
Expire(a) ==
  /\ backoff[a] = "waiting"
  /\ pc = "wait" \/ Spinning \/ "slow_scan" \in EnvOps
  /\ backoff' = [backoff EXCEPT ![a] = "due"]
  /\ UNCHANGED <<config, worker, pc, scan_requested, reload_requested,
                 scanVars, g_stop_requested, command, envVars>>

(* vdsctl: the pipe has one instance, so one request is queued at a time;   *)
(* with "back_to_back" it may come at any moment, otherwise when the        *)
(* supervisor waits.                                                        *)
Request(c) ==
  /\ c.op \in EnvOps /\ pc # "exited" /\ command = None
  /\ pc = "wait" \/ "back_to_back" \in EnvOps
  /\ command' = c
  /\ UNCHANGED <<config, worker, backoff, pc, scan_requested,
                 reload_requested, scanVars, g_stop_requested, envVars>>

Plug(a) ==
  /\ "offline" \in EnvOps
  /\ online' = IF a \in online THEN online \ {a} ELSE online \cup {a}
  /\ UNCHANGED <<config, worker, backoff, pc, scan_requested,
                 reload_requested, scanVars, g_stop_requested, command,
                 provider>>

ProviderChanges ==
  /\ "provider" \in EnvOps
  /\ provider' = ~provider
  /\ UNCHANGED <<config, worker, backoff, pc, scan_requested,
                 reload_requested, scanVars, g_stop_requested, command,
                 online>>

(* The service control or console handler.                                  *)
StopDaemon ==
  /\ "stop" \in EnvOps /\ ~g_stop_requested
  /\ g_stop_requested' = TRUE
  /\ UNCHANGED <<config, worker, backoff, pc, scan_requested,
                 reload_requested, scanVars, command, envVars>>

Next ==
  \/ Supervisor \/ ScanFails
  \/ \E s \in Slots : MissesCancel(s) \/ SessionEnds(s) \/ WorkerDone(s)
  \/ \E a \in Addrs : Expire(a) \/ Plug(a)
  \/ \E c \in Commands : Request(c)
  \/ ProviderChanges \/ StopDaemon

Spec == Init /\ [][Next]_vars

(* The scheduler runs the supervisor and the worker threads; a session that *)
(* has been told to stop ends (its stop monitor polls every 100 ms), unless *)
(* it has missed the cancellation: then only the end of the daemon, whose   *)
(* event every wait of a session watches, is sure to end it; a delay passes *)
(* however often the supervisor goes round meanwhile; and requests leave it *)
(* the second its timer takes, which every wait arms anew (the control      *)
(* centre polls every three seconds).                                       *)
MustEnd(s) ==
  s \in Live /\ \/ worker[s].run = "session" /\ worker[s].stop_requested
                \/ g_stop_requested
Fairness ==
  /\ WF_vars(Supervisor)
  /\ \A s \in Slots : WF_vars(MustEnd(s) /\ SessionEnds(s))
  /\ \A s \in Slots : WF_vars(WorkerDone(s))
  /\ \A a \in Addrs : SF_vars(Expire(a))
  /\ SF_vars(WakeRetry)
FairSpec == Spec /\ Fairness

-----------------------------------------------------------------------------
(* Properties.                                                             *)

TypeOK ==
  /\ config \in [Addrs -> Configs \cup {None}]
  /\ worker \in [Slots -> Workers \cup {None}]
  /\ backoff \in [Addrs -> {"none", "waiting", "due"}]
  /\ pc \in {"loop", "scan", "bind", "rest", "wait", "control", "exited"}
  /\ scan_requested \in BOOLEAN /\ reload_requested \in BOOLEAN
  /\ todo \subseteq Addrs /\ scan_online \subseteq Addrs
  /\ scan_provider \in BOOLEAN /\ g_stop_requested \in BOOLEAN
  /\ command \in Commands \cup {None}
  /\ online \subseteq Addrs /\ provider \in BOOLEAN

(* No two workers share a port or a controller, whether they run, retire    *)
(* after a change of configuration or have finished and wait to be joined.  *)
WorkersExclusive ==
  \A s, t \in Live : s # t =>
    worker[s].port # worker[t].port /\ worker[s].address # worker[t].address

(* A controller whose worker has failed has no worker until its delay has   *)
(* passed, not even by being detached and attached again.                   *)
DelayServed ==
  \A s \in Live : backoff[worker[s].address] = "none"

(* Once the supervisor has settled, no worker goes on with a configuration  *)
(* the file no longer holds: it has been told to stop.                      *)
NoStaleWorker ==
  pc = "wait" /\ ~scan_requested =>
    \A s \in Live : worker[s].stop_requested \/ ~Stale(worker[s])

(* What makes that inductive: between a scan and the wait the file does not *)
(* change, and a request that changes it asks for a scan.                   *)
NoneStale == \A s \in Live : worker[s].stop_requested \/ ~Stale(worker[s])
ReloadInv ==
  /\ pc = "bind" => NoneStale
  /\ pc \in {"rest", "wait"} /\ ~scan_requested => NoneStale
  /\ pc \in {"loop", "control"} /\ ~scan_requested /\ ~reload_requested
     => NoneStale
(* A scan looks at controllers of the configuration only: the file does not *)
(* change under it.                                                         *)
TodoInv ==
  /\ pc # "bind" => todo = {}
  /\ \A a \in todo : config[a] # None
SupervisorInv ==
  TypeOK /\ TodoInv /\ WorkersExclusive /\ DelayServed /\ ReloadInv

(* A controller that stays registered and connected, with a port no other   *)
(* worker holds, gets a session.  One that was told to stop counts until it *)
(* ends, and the port it holds is held.                                     *)
InSession(a) == \E s \in Live : worker[s].address = a /\ worker[s].run # "done"
Servable(a) ==
  /\ config[a] # None /\ a \in online /\ provider /\ ~g_stop_requested
  /\ \E p \in config[a].ports :
       \A s \in Live : worker[s].port = p => worker[s].address = a
ControllerServed == \A a \in Addrs : []<>(InSession(a) \/ ~Servable(a))

(* The worker of a detached controller goes away, unless its session has    *)
(* missed the one cancellation and waits for a frame.                       *)
Missed(a) == \E s \in Live : worker[s].address = a /\ worker[s].run = "blind"
DetachedRetires ==
  \A a \in Addrs :
    config[a] = None ~>
      ~Serving(a) \/ config[a] # None \/ g_stop_requested \/ Missed(a)

(* A stopped daemon ends.                                                   *)
StopEnds == g_stop_requested ~> pc = "exited"

(* "Every operation is sent through the daemon control interface and        *)
(* executed by vdsd": a request does not wait forever.                      *)
RequestServed == command # None ~> command = None
=============================================================================
