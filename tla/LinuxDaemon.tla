---------------------------- MODULE LinuxDaemon ----------------------------
(***************************************************************************)
(* The Linux daemon: the main loop of src/src/platform/linux/vdsd.cc with  *)
(* its virtual ports, its controllers and its epoll set.                   *)
(*                                                                         *)
(* One thread reloads the configuration when asked to, rebuilds the epoll  *)
(* set when it is dirty, waits, and handles the events it was given, which *)
(* describe the moment of the wait.  Device nodes, the controllers' L2CAP  *)
(* channels and the clients of the control socket move in between.         *)
(*                                                                         *)
(* Abstracted: frames and reports, which matter here only by the Bluetooth *)
(* errors they run into; how many requests and frames a round serves; the  *)
(* order of the ports of a configuration (every order is tried).  A        *)
(* definition whose comment begins with "Mutant" is the definition after   *)
(* it with a bug put in.                                                   *)
(***************************************************************************)
EXTENDS Integers, FiniteSets, SequencesExt

CONSTANTS
  Addrs,       \* Bluetooth addresses of controllers
  Paths,       \* device nodes /dev/vdsN, by N
  Configs,     \* the port sets and profiles that clients register
  MaxAttempts, \* bound: connections that controllers attempt
  EnvOps,      \* what the surroundings may do
  None

Profiles == {c.profile : c \in Configs}
Kinds    == {"control", "interrupt"}
Accepting == [control |-> "accept_control", interrupt |-> "accept_interrupt"]
Attempts == 1..MaxAttempts
Channels == Addrs \X Attempts \X Kinds
AllEnvOps == {"attach", "detach", "nodes", "load_fails", "open_fails",
              "bt_errors", "connect_fails", "close", "stop"}

ASSUME DaemonAssumption ==
  /\ IsFiniteSet(Addrs) /\ Paths \subseteq Nat /\ IsFiniteSet(Paths)
  /\ Configs \subseteq [ports : SUBSET Paths, profile : Profiles]
  /\ MaxAttempts \in Nat
  /\ None \notin Addrs \cup Nat \cup Profiles \cup [Kinds -> Attempts]
  /\ EnvOps \subseteq AllEnvOps

VARIABLES
  file,         \* the configuration file
  nodes, udev,  \* device nodes; is an event of theirs waiting
  usb,          \* by node: the profile of the connected virtual device
  opened, alive, queued,  \* L2CAP channels: ever opened, open, not accepted
  ports,        \* std::vector<VirtualPort>
  controllers,  \* std::vector<ControllerRuntime>
  epoll,        \* registrations: type, index, and the channel or node behind
  reload_requested, epoll_dirty,
  reload_failed,  \* has the last reload failed
  events,       \* events of the last wait still to be handled
  pc            \* where the loop is

channelVars == <<opened, alive, queued>>
nodeVars    == <<nodes, udev>>
flagVars    == <<reload_requested, epoll_dirty, reload_failed>>
loopVars    == <<ports, controllers, epoll, flagVars, events, pc>>
vars == <<file, nodeVars, usb, channelVars, loopVars>>

ConfigEntries == [address : Addrs, config : Configs]
VirtualPorts  == [path : Paths \cup {None}, live : BOOLEAN]
Runtimes ==
  [address : Addrs, config : Configs, device : Paths \cup {None},
   backend : [Kinds -> Attempts] \cup {None},
   pending : [Kinds -> Attempts \cup {None}], virtual_connected : BOOLEAN]

NoChannels == [k \in Kinds |-> None]
Runtime(a, c) ==
  [address |-> a, config |-> c, device |-> None, backend |-> None,
   pending |-> NoChannels, virtual_connected |-> FALSE]

Entry(a, c) == [address |-> a, config |-> c]
Entries(s)  == {s[i] : i \in DOMAIN s}

(* The file holds an address once.                                         *)
Files ==
  {f \in UNION {[1..n -> ConfigEntries] : n \in 0..Cardinality(Addrs)} :
     \A i, j \in DOMAIN f : i # j => f[i].address # f[j].address}

Init ==
  /\ file \in Files
  /\ nodes \in SUBSET Paths \ {{}} /\ udev = FALSE
  /\ usb = [p \in Paths |-> None]
  /\ opened = {} /\ alive = {} /\ queued = {}
  /\ ports = <<>> /\ controllers = <<>> /\ epoll = {}
  /\ reload_requested = TRUE /\ epoll_dirty = TRUE /\ reload_failed = FALSE
  /\ events = {} /\ pc = "head"

Named        == {v.path : v \in Entries(ports)} \ {None}
PortIndex(p) == CHOOSE i \in DOMAIN ports : ports[i].path = p
Port(p)      == ports[PortIndex(p)]

Uses(c) == \/ c.backend # None \/ c.virtual_connected
           \/ \E k \in Kinds : c.pending[k] # None
Bridging == {i \in DOMAIN controllers : controllers[i].backend # None}

(* A channel lasts as long as somebody on this side has it: closing the    *)
(* descriptor closes the channel.                                          *)
Owns(c, ch) ==
  /\ c.address = ch[1]
  /\ \/ c.pending[ch[3]] = ch[2]
     \/ c.backend # None /\ c.backend[ch[3]] = ch[2]
CloseUnheld(cs, q) ==
  /\ queued' = q
  /\ alive' = {ch \in alive : ch \in q \/ \E c \in Entries(cs) : Owns(c, ch)}

-----------------------------------------------------------------------------
(* Dropping controllers.                                                   *)

Released(c) == Runtime(c.address, c.config)

(* Mutant: the virtual device stays connected.                             *)
StillConnected(ps) == usb
Disconnected(ps) == [p \in Paths |-> IF p \in ps THEN None ELSE usb[p]]

Release(is) ==
  /\ controllers' = [i \in DOMAIN controllers |->
                       IF i \in is THEN Released(controllers[i]) ELSE controllers[i]]
  /\ CloseUnheld(controllers', queued)

DevicesOf(is) == {controllers[i].device : i \in is}

(* drop_bt_backend.                                                        *)
Drop(i) == Release({i}) /\ usb' = Disconnected(DevicesOf({i}))

(* The process ends: the kernel closes its descriptors.                    *)
Exit ==
  /\ pc' = "exit" /\ ports' = <<>> /\ controllers' = <<>> /\ epoll' = {}
  /\ events' = {} /\ usb' = [p \in Paths |-> None]
  /\ alive' = {} /\ queued' = {}
  /\ reload_requested' = TRUE /\ epoll_dirty' = TRUE /\ reload_failed' = FALSE
  /\ UNCHANGED <<file, opened, nodeVars>>

-----------------------------------------------------------------------------
(* reconcile_controller_configs and sync_virtual_ports.                    *)

(* What is left of a controller whose node is gone.                        *)
Present(c) == IF Uses(c) /\ c.device \notin nodes THEN Released(c) ELSE c
Remaining  == [i \in DOMAIN controllers |-> Present(controllers[i])]

(* discover_vds_devices: the nodes in order.                               *)
Devices ==
  {s \in [1..Cardinality(nodes) -> nodes] : \A i, j \in DOMAIN s : i < j => s[i] < s[j]}
Synced(devices) ==
  [i \in DOMAIN devices |->
     IF devices[i] \in Named THEN Port(devices[i])
     ELSE [path |-> devices[i], live |-> TRUE]]

(* Opening node d throws: the ports before it have been moved into a       *)
(* vector that is destroyed with their descriptors.                        *)
MovedBefore(d) == {p \in nodes \cap Named : p < d}
HalfSynced(d) ==
  [i \in DOMAIN ports |-> IF ports[i].path \in MovedBefore(d)
                          THEN [path |-> None, live |-> FALSE] ELSE ports[i]]

Allows(config, p) == p \in config.ports

(* Mutant: a changed profile does not end the connection.                  *)
KeepsAnyProfile(c, entry) ==
  /\ c.address = entry.address
  /\ Uses(c) /\ c.device \in nodes /\ Allows(entry.config, c.device)
(* A controller goes on when its entry has its profile and allows its port *)
(* (PortsExclusive: no controller before it in the file has that port).    *)
Keeps(c, entry) ==
  /\ c.address = entry.address /\ c.config.profile = entry.config.profile
  /\ Uses(c) /\ c.device \in nodes /\ Allows(entry.config, c.device)

Reconciled ==
  [i \in DOMAIN file |->
     IF \E c \in Entries(Remaining) : Keeps(c, file[i])
     THEN [(CHOOSE c \in Entries(Remaining) : Keeps(c, file[i]))
             EXCEPT !.config = file[i].config]
     ELSE Runtime(file[i].address, file[i].config)]
Removed ==
  {c \in Entries(Remaining) : c.virtual_connected
      /\ \A entry \in Entries(file) : ~Keeps(c, entry)}

(* A descriptor that is closed leaves the epoll set.                       *)
ClosePorts(kept) == epoll' = {r \in epoll : r.type = "port" => r.of \in kept}

(* Mutants: what is registered is thought to change with ports only, or    *)
(* with controllers only.                                                  *)
OnPorts       == epoll_dirty \/ ports' # ports
OnControllers == epoll_dirty \/ controllers' # controllers
Marked == TRUE

Reloading ==
  /\ pc = "head" /\ reload_requested /\ reload_requested' = FALSE
  /\ UNCHANGED <<file, nodeVars, opened, events, pc>>

Reload ==
  /\ Reloading
  /\ \E devices \in Devices : ports' = Synced(devices)
  /\ controllers' = Reconciled
  /\ usb' = Disconnected({c.device : c \in Removed})
  /\ CloseUnheld(controllers', queued) /\ ClosePorts(nodes \cap Named)
  /\ epoll_dirty' = Marked /\ reload_failed' = FALSE

(* load_config_db throws after the ports have been synchronised.           *)
ReloadFailsToLoad ==
  /\ "load_fails" \in EnvOps /\ Reloading
  /\ \E devices \in Devices : ports' = Synced(devices)
  /\ controllers' = Remaining
  /\ CloseUnheld(controllers', queued) /\ ClosePorts(nodes \cap Named)
  /\ reload_failed' = TRUE
  /\ UNCHANGED <<usb, epoll_dirty>>

(* A node that has just gone, is not there yet or is open elsewhere.       *)
ReloadFailsToOpen(d) ==
  /\ "open_fails" \in EnvOps /\ Reloading
  /\ d \in nodes \ Named
  /\ ports' = HalfSynced(d) /\ controllers' = Remaining
  /\ usb' = Disconnected(MovedBefore(d))
  /\ CloseUnheld(controllers', queued) /\ ClosePorts(Named \ MovedBefore(d))
  /\ reload_failed' = TRUE
  /\ UNCHANGED epoll_dirty

-----------------------------------------------------------------------------
(* rebuild_epoll and epoll_wait.                                           *)

(* Mutant: only the interrupt channels are registered.                     *)
InterruptsOnly ==
  {[type |-> "interrupt", index |-> i,
    of |-> <<controllers[i].address, controllers[i].backend["interrupt"]>>] :
   i \in Bridging}
BackendChannels ==
  {[type |-> k, index |-> i,
    of |-> <<controllers[i].address, controllers[i].backend[k]>>] :
   i \in Bridging, k \in Kinds}
PortDescriptors ==
  {[type |-> "port", index |-> i, of |-> ports[i].path] : i \in DOMAIN ports}

AllOpen == \A i \in DOMAIN ports : ports[i].path # None

Rebuild ==
  /\ pc = "head" /\ ~reload_requested
  /\ epoll_dirty => AllOpen
  /\ epoll' = IF epoll_dirty THEN PortDescriptors \cup BackendChannels ELSE epoll
  /\ epoll_dirty' = FALSE /\ pc' = "wait"
  /\ UNCHANGED <<file, nodeVars, usb, channelVars, ports, controllers,
                 reload_requested, reload_failed, events>>

(* A moved-from port has no descriptor to add: the daemon ends.            *)
RebuildFails ==
  /\ pc = "head" /\ ~reload_requested /\ epoll_dirty /\ ~AllOpen
  /\ Exit

(* A port hangs up when its node has gone, a channel of a backend when the *)
(* peer has closed it; what is closed on this side is registered no more.  *)
HangsUp(r) ==
  IF r.type = "port" THEN ~Port(r.of).live
  ELSE LET ch == <<r.of[1], r.of[2], r.type>>
       IN ch \notin alive /\ \E c \in Entries(controllers) : Owns(c, ch)
Event(type, i) == [type |-> type, index |-> i]
Ready ==
  {Event(r.type, r.index) : r \in {r \in epoll : HangsUp(r)}}
    \cup {Event("udev", 0) : u \in {udev} \cap {TRUE}}
    \cup {Event(Accepting[ch[3]], 0) : ch \in queued}

(* Besides, a client or frames of a port may have woken it.                *)
Wake ==
  /\ pc = "wait" /\ pc' = "events" /\ events' = Ready
  /\ UNCHANGED <<file, nodeVars, usb, channelVars, ports, controllers, epoll, flagVars>>

-----------------------------------------------------------------------------
(* The events.                                                             *)

Handle(e) == pc = "events" /\ e \in events /\ events' = events \ {e}

HandleUdev ==
  /\ Handle(Event("udev", 0))
  /\ udev' = FALSE /\ reload_requested' = TRUE /\ epoll_dirty' = TRUE
  /\ UNCHANGED <<file, nodes, usb, channelVars, ports, controllers, epoll,
                 reload_failed, pc>>

HandlePort(i) ==
  /\ Handle(Event("port", i))
  /\ reload_requested' = TRUE /\ epoll_dirty' = TRUE
  /\ UNCHANGED <<file, nodeVars, usb, channelVars, ports, controllers, epoll,
                 reload_failed, pc>>

(* Frames of a port run into a Bluetooth error of the controller that has  *)
(* the port (controller_for_port).                                         *)
FramesFail(p) ==
  /\ pc = "events" /\ "bt_errors" \in EnvOps /\ p \in Named
  /\ \E i \in Bridging : controllers[i].device = p /\ Drop(i)
  /\ epoll_dirty' = TRUE
  /\ UNCHANGED <<file, nodeVars, opened, ports, epoll, reload_requested,
                 reload_failed, events, pc>>

(* Reading a port whose node has gone is an error of no Bluetooth channel. *)
FramesEnd(p) ==
  /\ pc = "events" /\ p \in Named /\ ~Port(p).live /\ Exit

HandleChannel(k, i) ==
  /\ Handle(Event(k, i))
  /\ IF i \in Bridging
     THEN /\ epoll_dirty' = TRUE
          /\ IF controllers[i].device \in Named THEN Drop(i)
             ELSE /\ controllers' = [controllers EXCEPT ![i].backend = None,
                                                        ![i].virtual_connected = FALSE]
                  /\ CloseUnheld(controllers', queued) /\ UNCHANGED usb
     ELSE UNCHANGED <<controllers, usb, alive, queued, epoll_dirty>>
  /\ UNCHANGED <<file, nodeVars, opened, ports, epoll, reload_requested,
                 reload_failed, pc>>

(* flush_pending_outputs: a controller without its port is dropped; another *)
(* may run into a Bluetooth error.                                         *)
Flush ==
  LET lost == {i \in Bridging : controllers[i].device \notin Named}
  IN \E failed \in SUBSET (Bridging \ lost) :
       /\ failed = {} \/ "bt_errors" \in EnvOps
       /\ Release(lost \cup failed) /\ usb' = Disconnected(DevicesOf(failed))
       /\ epoll_dirty' = (epoll_dirty \/ lost \cup failed # {})

EndRound ==
  /\ \/ pc = "events" /\ events = {}
     \/ pc = "wait" /\ Ready = {}            \* epoll_wait times out
  /\ Flush /\ pc' = "head"
  /\ UNCHANGED <<file, nodeVars, opened, ports, epoll, reload_requested,
                 reload_failed, events>>

-----------------------------------------------------------------------------
(* handle_bt_accept: one turn of its loop for each channel.                *)

AcceptStart(k) ==
  /\ Handle(Event(Accepting[k], 0)) /\ pc' = Accepting[k]
  /\ UNCHANGED <<file, nodeVars, usb, channelVars, ports, controllers, epoll, flagVars>>

AcceptEnd(k) ==
  /\ pc = Accepting[k] /\ \A ch \in queued : ch[3] # k
  /\ pc' = "events"
  /\ UNCHANGED <<file, nodeVars, usb, channelVars, ports, controllers, epoll,
                 flagVars, events>>

(* Mutant: a half-open connection does not occupy its port.                *)
BridgedPorts(i) == DevicesOf(Bridging \ {i})
Occupied(i) ==
  DevicesOf({j \in DOMAIN controllers \ {i} : Uses(controllers[j])})

(* The ports controller i may be given: the one it has, if it is there and *)
(* nobody else's, or else any that its configuration allows.               *)
Candidates(i) ==
  LET free == Named \ Occupied(i)
  IN IF controllers[i].device \in free THEN {controllers[i].device}
     ELSE {p \in free : Allows(controllers[i].config, p)}

(* Unregistered, connected already, or without a port.                     *)
Reject(ch) ==
  /\ \A i \in DOMAIN controllers : controllers[i].address = ch[1] =>
       controllers[i].backend # None \/ Candidates(i) = {}
  /\ CloseUnheld(controllers, queued \ {ch})
  /\ UNCHANGED <<controllers, usb, epoll_dirty>>

(* The first channel of a pair; one that it replaces is closed.            *)
Pend(i, p, pending) ==
  /\ \E k \in Kinds : pending[k] = None
  /\ controllers' = [controllers EXCEPT ![i].device = p, ![i].pending = pending]
  /\ UNCHANGED <<usb, epoll_dirty>>

(* Mutant: the controller is bridged without being asked anything.         *)
Unasked(i, pending) == TRUE
(* initialize_bt_controller and the first output report need a controller  *)
(* that answers on one channel and takes a report on the other.            *)
Answers(i, pending) ==
  \A k \in Kinds : <<controllers[i].address, pending[k], k>> \in alive

(* complete_pending_controller.                                            *)
Complete(i, p, pending) ==
  /\ \A k \in Kinds : pending[k] # None
  /\ Answers(i, pending) /\ Port(p).live
  /\ controllers' = [controllers EXCEPT
       ![i].device = p, ![i].pending = NoChannels,
       ![i].backend = pending, ![i].virtual_connected = TRUE]
  /\ usb' = [usb EXCEPT ![p] = controllers[i].config.profile]
  /\ epoll_dirty' = TRUE

CompleteFails(i, p, pending) ==
  /\ \A k \in Kinds : pending[k] # None
  /\ Answers(i, pending) /\ Port(p).live => "connect_fails" \in EnvOps
  /\ controllers' = [controllers EXCEPT ![i] = Released(controllers[i])]
  /\ usb' = Disconnected({p})
  /\ UNCHANGED epoll_dirty

Accept(k) ==
  /\ pc = Accepting[k]
  /\ \E ch \in queued :
       /\ ch[3] = k
       /\ \/ Reject(ch)
          \/ \E i \in DOMAIN controllers \ Bridging : \E p \in Candidates(i) :
               LET pending == [controllers[i].pending EXCEPT ![k] = ch[2]]
               IN /\ controllers[i].address = ch[1]
                  /\ \/ Pend(i, p, pending)
                     \/ Complete(i, p, pending) \/ CompleteFails(i, p, pending)
                  /\ CloseUnheld(controllers', queued \ {ch})
  /\ UNCHANGED <<file, nodeVars, opened, ports, epoll, reload_requested,
                 reload_failed, events, pc>>

-----------------------------------------------------------------------------
(* Requests (handle_vdsd_control_command) and the end of the process.      *)

InFile(a) == \E e \in Entries(file) : e.address = a

(* validate_config_assignments: every controller has a port that is there. *)
Assignable(f) == Named # {} /\ \A e \in Entries(f) : e.config.ports \cap Named # {}

(* Mutant: the loop is not told to reload.                                 *)
NotTold == reload_requested
Told == TRUE

Attach(a, c) ==
  /\ pc = "events" /\ "attach" \in EnvOps /\ ~InFile(a)
  /\ file' = Append(file, Entry(a, c)) /\ Assignable(file')
  /\ reload_requested' = Told
  /\ UNCHANGED <<nodeVars, usb, channelVars, ports, controllers, epoll,
                 epoll_dirty, reload_failed, events, pc>>

Detach(a) ==
  /\ pc = "events" /\ "detach" \in EnvOps
  /\ \E i \in DOMAIN file : file[i].address = a /\ file' = RemoveAt(file, i)
  /\ reload_requested' = Told
  /\ UNCHANGED <<nodeVars, usb, channelVars, ports, controllers, epoll,
                 epoll_dirty, reload_failed, events, pc>>

Stop == "stop" \in EnvOps /\ pc = "head" /\ Exit

(* systemd starts the daemon again; without a node it would end at once.   *)
Start ==
  /\ pc = "exit" /\ nodes # {}
  /\ pc' = "head" /\ udev' = FALSE
  /\ UNCHANGED <<file, nodes, usb, channelVars, ports, controllers, epoll,
                 flagVars, events>>

-----------------------------------------------------------------------------
(* Device nodes and controllers.                                           *)

AddNode(p) ==
  /\ "nodes" \in EnvOps /\ p \notin nodes
  /\ nodes' = nodes \cup {p} /\ udev' = TRUE
  /\ UNCHANGED <<file, usb, channelVars, loopVars>>

RemoveNode(p) ==
  /\ "nodes" \in EnvOps /\ p \in nodes
  /\ nodes' = nodes \ {p} /\ udev' = TRUE
  /\ usb' = Disconnected({p})
  /\ ports' = [i \in DOMAIN ports |->
                 IF ports[i].path = p THEN [ports[i] EXCEPT !.live = FALSE] ELSE ports[i]]
  /\ UNCHANGED <<file, channelVars, controllers, epoll, flagVars, events, pc>>

OpenChannel(ch) ==
  /\ pc # "exit" /\ ch \notin opened
  /\ opened' = opened \cup {ch} /\ alive' = alive \cup {ch} /\ queued' = queued \cup {ch}
  /\ UNCHANGED <<file, nodeVars, usb, loopVars>>

(* A controller opens its control channel when it has no connection, and   *)
(* then its interrupt channel, whatever becomes of the first meanwhile.    *)
Attempted(a) == {n \in Attempts : <<a, n, "control">> \in opened}
ConnectControl(a) ==
  /\ Cardinality({ch \in opened : ch[3] = "control"}) < MaxAttempts
  /\ \A ch \in alive : ch[1] # a
  /\ \E n \in Attempts : n = Cardinality(Attempted(a)) + 1 /\ OpenChannel(<<a, n, "control">>)

ConnectInterrupt(a) ==
  \E n \in Attempts : n = Cardinality(Attempted(a)) /\ OpenChannel(<<a, n, "interrupt">>)

PeerCloses(ch) ==
  /\ "close" \in EnvOps
  /\ alive' = alive \ {ch} /\ queued' = queued \ {ch}
  /\ UNCHANGED <<file, nodeVars, usb, opened, loopVars>>

-----------------------------------------------------------------------------
Serve ==
  \/ HandleUdev
  \/ \E i \in 1..Cardinality(Paths) : HandlePort(i)
  \/ \E p \in Paths : FramesFail(p) \/ FramesEnd(p)
  \/ \E k \in Kinds : \/ AcceptStart(k) \/ Accept(k) \/ AcceptEnd(k)
                       \/ \E i \in 1..Cardinality(Addrs) : HandleChannel(k, i)

Loop ==
  \/ Reload \/ ReloadFailsToLoad \/ \E d \in Paths : ReloadFailsToOpen(d)
  \/ Rebuild \/ RebuildFails \/ Wake \/ EndRound

Surroundings ==
  \/ \E a \in Addrs : Detach(a) \/ \E c \in Configs : Attach(a, c)
  \/ Stop \/ Start
  \/ \E p \in Paths : AddNode(p) \/ RemoveNode(p)
  \/ \E a \in Addrs : ConnectControl(a) \/ ConnectInterrupt(a)
  \/ \E ch \in alive : PeerCloses(ch)

Next == Loop \/ Serve \/ Surroundings
Spec == Init /\ [][Next]_vars /\ WF_vars(Loop \/ Serve)

-----------------------------------------------------------------------------
TypeOK ==
  /\ file \in Seq(ConfigEntries)
  /\ nodes \subseteq Paths /\ udev \in BOOLEAN
  /\ usb \in [Paths -> Profiles \cup {None}]
  /\ queued \subseteq alive /\ alive \subseteq opened /\ opened \subseteq Channels
  /\ ports \in Seq(VirtualPorts) /\ controllers \in Seq(Runtimes)
  /\ reload_requested \in BOOLEAN /\ epoll_dirty \in BOOLEAN /\ reload_failed \in BOOLEAN
  /\ pc \in {"head", "wait", "events", "accept_control", "accept_interrupt", "exit"}

(* No two controllers, half-open ones included, hold one port (what        *)
(* available_port_index and port_used_by_other_controller are for), however *)
(* connections, reloads and vanishing nodes interleave.                    *)
PortsExclusive ==
  \A i, j \in DOMAIN controllers :
    i # j /\ Uses(controllers[i]) /\ Uses(controllers[j])
      => controllers[i].device # controllers[j].device

(* The host sees a device on a port exactly when a controller is bridged   *)
(* to it, with that controller's profile: neither a reload nor an error    *)
(* half-way leaves a device without a controller (disconnect_virtual_port) *)
(* or a controller on a live port that the host does not see.              *)
KernelAgrees ==
  /\ \A p \in Paths : usb[p] # None =>
       \E i \in Bridging :
         /\ controllers[i].device = p /\ controllers[i].virtual_connected
         /\ controllers[i].config.profile = usb[p]
  /\ \A c \in Entries(controllers) :
       c.virtual_connected /\ c.device \in Named /\ Port(c.device).live
         => usb[c.device] = c.config.profile

(* A bridge never joins the control channel of one connection with the     *)
(* interrupt channel of another, though channels are paired by address     *)
(* only and half-open pairs wait for ever (handle_bt_accept).              *)
OneConnection ==
  \A i \in Bridging :
    controllers[i].backend["control"] = controllers[i].backend["interrupt"]

(* Whenever the daemon waits, both channels of a backend are registered    *)
(* under its present place in the list: after accepts, drops and reloads    *)
(* that move controllers no event reaches another controller or nobody     *)
(* (rebuild_epoll and epoll_dirty).                                        *)
Places(type, of) == {r.index : r \in {r \in epoll : r.type = type /\ r.of = of}}
ChannelsWatched ==
  pc = "wait" => \A i \in Bridging, k \in Kinds :
    Places(k, <<controllers[i].address, controllers[i].backend[k]>>) = {i}

(* The same of ports, unless the last reload failed: one that fails after  *)
(* opening ports leaves epoll_dirty as it was.                             *)
PortsWatched ==
  pc = "wait" /\ ~reload_failed =>
    \A i \in DOMAIN ports : Places("port", ports[i].path) = {i}

(* When the daemon waits it serves the configuration file as it is, unless *)
(* its last reload failed: no request is forgotten, and no controller      *)
(* holds a port or a profile that the file does not give it.               *)
FileServed ==
  pc = "wait" /\ ~reload_failed =>
    /\ file = [i \in DOMAIN controllers |->
                 Entry(controllers[i].address, controllers[i].config)]
    /\ \A c \in Entries(controllers) : Uses(c) => Allows(c.config, c.device)

(* The host never sees one controller turn into another on a connected     *)
(* port: a port changes hands or profile by way of an unplugged one.       *)
Bridged(p) == {controllers[i].address : i \in {i \in Bridging : controllers[i].device = p}}
UnpluggedBetween ==
  [][\A p \in Paths : usb[p] # None /\ usb'[p] # None
       => usb'[p] = usb[p] /\ Bridged(p)' = Bridged(p)]_vars

(* A bridge whose channel has closed is taken down, whatever else happens  *)
(* in the rounds in between.                                               *)
DeadBridge(ch) ==
  /\ ch \notin alive
  /\ \E i \in Bridging : /\ controllers[i].address = ch[1]
                         /\ controllers[i].backend[ch[3]] = ch[2]
DeadBridgesEnd == \A ch \in Channels : DeadBridge(ch) ~> ~DeadBridge(ch)

(* What makes these inductive.  Of one address there is one controller and  *)
(* one connection: channels that are alive are of its last attempt.         *)
ControllersOnce ==
  \A i, j \in DOMAIN controllers :
    i # j => controllers[i].address # controllers[j].address
LatestAlive == \A ch \in alive : ch[2] = Cardinality(Attempted(ch[1]))

(* A controller in use has a port its configuration allows, and its virtual *)
(* device is connected exactly while it has a backend.                      *)
HoldsPort ==
  \A i \in DOMAIN controllers :
    /\ Uses(controllers[i]) => controllers[i].device # None
    /\ controllers[i].device # None => Allows(controllers[i].config, controllers[i].device)
    /\ controllers[i].virtual_connected <=> controllers[i].backend # None

(* No port is there twice, a live one has its node, and the host sees       *)
(* devices on live ports only.                                              *)
PortsOnce ==
  \A i, j \in DOMAIN ports :
    i # j => ports[i].path # ports[j].path \/ ports[i].path = None
LiveThere == \A i \in DOMAIN ports : ports[i].live => ports[i].path \in nodes
SeenLive == \A p \in Paths : usb[p] # None => p \in Named /\ Port(p).live

(* The flags are set for whatever waiting needs, and no backend has lost    *)
(* its port when a reload begins: a round has ended since.                  *)
ChannelsRegistered ==
  epoll_dirty \/
    \A i \in Bridging, k \in Kinds :
      Places(k, <<controllers[i].address, controllers[i].backend[k]>>) = {i}
PortsRegistered ==
  epoll_dirty \/ reload_failed \/
    \A i \in DOMAIN ports : Places("port", ports[i].path) = {i}
FileLoaded ==
  reload_requested \/ reload_failed \/
    file = [i \in DOMAIN controllers |->
              Entry(controllers[i].address, controllers[i].config)]
LoopInv ==
  /\ pc = "wait" => ~epoll_dirty /\ ~reload_requested
  /\ pc = "exit" => controllers = <<>>
  /\ pc = "head" /\ reload_requested =>
       \A i \in Bridging : controllers[i].device \in Named

=============================================================================
