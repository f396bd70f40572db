------------------------- MODULE LinuxDaemonProofs -------------------------
(***************************************************************************)
(* The Linux daemon for every set of controllers, device nodes and         *)
(* configurations.                                                         *)
(***************************************************************************)
EXTENDS LinuxDaemon, FiniteSetTheorems, SequenceTheorems, TLAPS

-----------------------------------------------------------------------------
(* What the helpers return.                                                *)

LEMMA FunctionSeq ==
  ASSUME NEW S, NEW n \in Nat, NEW f \in [1..n -> S]
  PROVE  f \in Seq(S) /\ DOMAIN f = 1..n
OBVIOUS

LEMMA NoneApart ==
  /\ None \notin Addrs /\ None \notin Paths /\ None \notin Profiles
  /\ None \notin Attempts /\ None \notin [Kinds -> Attempts]
<1>1. None \notin Nat
  BY DaemonAssumption
<1>2. Attempts \subseteq Nat
  BY DaemonAssumption DEF Attempts
<1> QED
  BY <1>1, <1>2, DaemonAssumption

LEMMA ConfigType ==
  ASSUME NEW c \in Configs
  PROVE  c.ports \in SUBSET Paths /\ c.profile \in Profiles
BY DaemonAssumption

LEMMA NoChannelsType == NoChannels \in [Kinds -> Attempts \cup {None}]
BY DEF NoChannels

LEMMA RuntimeType ==
  ASSUME NEW e \in ConfigEntries
  PROVE  /\ Runtime(e.address, e.config) \in Runtimes
         /\ ~Uses(Runtime(e.address, e.config))
BY NoChannelsType DEF ConfigEntries, Runtime, Runtimes, Uses, NoChannels

LEMMA ReleasedType ==
  ASSUME NEW c \in Runtimes
  PROVE  Released(c) \in Runtimes /\ ~Uses(Released(c))
<1>1. Entry(c.address, c.config) \in ConfigEntries
  BY DEF Entry, ConfigEntries, Runtimes
<1> QED
  BY <1>1, RuntimeType DEF Released, Entry

LEMMA PresentType ==
  ASSUME NEW c \in Runtimes
  PROVE  Present(c) \in Runtimes
BY ReleasedType DEF Present

LEMMA RemainingType ==
  ASSUME TypeOK
  PROVE  /\ Remaining \in Seq(Runtimes)
         /\ DOMAIN Remaining = DOMAIN controllers
         /\ \A i \in DOMAIN controllers : Remaining[i] = Present(controllers[i])
<1>1. \A i \in DOMAIN controllers : Present(controllers[i]) \in Runtimes
  BY PresentType DEF TypeOK
<1> QED
  BY <1>1 DEF Remaining, TypeOK

LEMMA PortFact ==
  ASSUME TypeOK, NEW p \in Named
  PROVE  /\ p \in Paths /\ Port(p) \in VirtualPorts /\ Port(p).path = p
         /\ PortIndex(p) \in DOMAIN ports
<1>1. \E i \in DOMAIN ports : ports[i].path = p /\ p # None
  BY DEF Named, Entries
<1>2. PortIndex(p) \in DOMAIN ports /\ ports[PortIndex(p)].path = p
  BY <1>1 DEF PortIndex
<1>3. ports[PortIndex(p)] \in VirtualPorts
  BY <1>2 DEF TypeOK
<1> QED
  BY <1>1, <1>2, <1>3 DEF Port, VirtualPorts

LEMMA SyncedType ==
  ASSUME TypeOK, NEW devices \in Devices
  PROVE  Synced(devices) \in Seq(VirtualPorts)
<1>1. \A i \in DOMAIN devices : devices[i] \in Paths
  BY DEF Devices, TypeOK
<1>2. \A i \in DOMAIN devices :
        (IF devices[i] \in Named THEN Port(devices[i])
         ELSE [path |-> devices[i], live |-> TRUE]) \in VirtualPorts
  BY <1>1, PortFact DEF VirtualPorts
<1>3. Cardinality(nodes) \in Nat /\ DOMAIN devices = 1..Cardinality(nodes)
  <2>1. IsFiniteSet(nodes)
    BY DaemonAssumption, FS_Subset DEF TypeOK
  <2> QED
    BY <2>1, FS_CardinalityType DEF Devices
<1>4. Synced(devices) \in [1..Cardinality(nodes) -> VirtualPorts]
  BY <1>2, <1>3 DEF Synced
<1> QED
  BY <1>3, <1>4, FunctionSeq

LEMMA HalfSyncedType ==
  ASSUME TypeOK, NEW d
  PROVE  HalfSynced(d) \in Seq(VirtualPorts)
<1>1. [path |-> None, live |-> FALSE] \in VirtualPorts
  BY DEF VirtualPorts
<1>2. DOMAIN ports = 1..Len(ports) /\ Len(ports) \in Nat
  BY DEF TypeOK
<1>3. \A i \in DOMAIN ports :
        (IF ports[i].path \in MovedBefore(d) THEN [path |-> None, live |-> FALSE]
         ELSE ports[i]) \in VirtualPorts
  BY <1>1 DEF TypeOK
<1>4. HalfSynced(d) \in [1..Len(ports) -> VirtualPorts]
  BY <1>2, <1>3 DEF HalfSynced
<1> QED
  BY <1>2, <1>4, FunctionSeq

LEMMA DisconnectedType ==
  ASSUME TypeOK, NEW ps
  PROVE  Disconnected(ps) \in [Paths -> Profiles \cup {None}]
BY DEF Disconnected, TypeOK

(* Keeping a controller takes one of the remaining controllers.            *)
LEMMA Kept ==
  ASSUME TypeOK, NEW i \in DOMAIN file
  PROVE  \/ Reconciled[i] = Runtime(file[i].address, file[i].config)
         \/ \E k \in DOMAIN controllers :
              /\ Keeps(Remaining[k], file[i])
              /\ Reconciled[i] = [Remaining[k] EXCEPT !.config = file[i].config]
<1>1. CASE \E c \in Entries(Remaining) : Keeps(c, file[i])
  <2> DEFINE c == CHOOSE c \in Entries(Remaining) : Keeps(c, file[i])
  <2>1. c \in Entries(Remaining) /\ Keeps(c, file[i])
    BY <1>1
  <2>2. PICK k \in DOMAIN controllers : c = Remaining[k]
    BY <2>1, RemainingType DEF Entries
  <2>3. Reconciled[i] = [c EXCEPT !.config = file[i].config]
    BY <1>1 DEF Reconciled
  <2> QED
    BY <2>1, <2>2, <2>3
<1>2. CASE ~\E c \in Entries(Remaining) : Keeps(c, file[i])
  BY <1>2 DEF Reconciled
<1> QED
  BY <1>1, <1>2

LEMMA ReconciledType ==
  ASSUME TypeOK
  PROVE  Reconciled \in Seq(Runtimes) /\ DOMAIN Reconciled = DOMAIN file
<1>1. ASSUME NEW i \in DOMAIN file PROVE Reconciled[i] \in Runtimes
  <2>1. file[i] \in ConfigEntries
    BY DEF TypeOK
  <2>2. file[i].config \in Configs
    BY <2>1 DEF ConfigEntries
  <2>3. ASSUME NEW k \in DOMAIN controllers
        PROVE  [Remaining[k] EXCEPT !.config = file[i].config] \in Runtimes
    <3>1. Remaining[k] \in Runtimes
      BY RemainingType
    <3> QED
      BY <2>2, <3>1 DEF Runtimes
  <2> QED
    BY <2>1, <2>3, Kept, RuntimeType
<1>2. DOMAIN Reconciled = DOMAIN file
  BY DEF Reconciled
<1>3. DOMAIN file = 1..Len(file) /\ Len(file) \in Nat
  BY DEF TypeOK
<1>4. Reconciled = [i \in 1..Len(file) |-> Reconciled[i]]
  BY <1>3 DEF Reconciled
<1> HIDE DEF Reconciled
<1> QED
  BY <1>1, <1>2, <1>3, <1>4

-----------------------------------------------------------------------------
(* Type correctness.                                                       *)

LEMMA InitType == Init => TypeOK
<1> SUFFICES ASSUME Init PROVE TypeOK
  OBVIOUS
<1>1. PICK n \in Nat : file \in [1..n -> ConfigEntries]
  <2>1. PICK n \in 0..Cardinality(Addrs) : file \in [1..n -> ConfigEntries]
    BY DEF Init, Files
  <2>2. Cardinality(Addrs) \in Nat
    BY DaemonAssumption, FS_CardinalityType
  <2> QED
    BY <2>1, <2>2
<1>2. file \in Seq(ConfigEntries)
  BY <1>1, FunctionSeq
<1>3. <<>> \in Seq(VirtualPorts) /\ <<>> \in Seq(Runtimes)
  OBVIOUS
<1>4. usb \in [Paths -> Profiles \cup {None}]
  BY DEF Init
<1> QED
  BY <1>2, <1>3, <1>4 DEF Init, TypeOK

LEMMA ClosingType ==
  ASSUME TypeOK, NEW cs, NEW q \in SUBSET alive, CloseUnheld(cs, q)
  PROVE  queued' \subseteq alive' /\ alive' \subseteq alive
BY DEF CloseUnheld

LEMMA ReleasingType ==
  ASSUME TypeOK, NEW is, Release(is)
  PROVE  /\ controllers' \in Seq(Runtimes) /\ DOMAIN controllers' = DOMAIN controllers
         /\ queued' \subseteq alive' /\ alive' \subseteq alive
<1>1. queued' \subseteq alive' /\ alive' \subseteq alive
  BY ClosingType DEF Release, TypeOK
<1>2. DOMAIN controllers = 1..Len(controllers) /\ Len(controllers) \in Nat
  BY DEF TypeOK
<1>3. \A i \in DOMAIN controllers :
        (IF i \in is THEN Released(controllers[i]) ELSE controllers[i]) \in Runtimes
  BY ReleasedType DEF TypeOK
<1>4. controllers' \in [1..Len(controllers) -> Runtimes]
  BY <1>2, <1>3 DEF Release
<1> QED
  BY <1>1, <1>2, <1>4, FunctionSeq

LEMMA UpdatedType ==
  ASSUME TypeOK, NEW i \in DOMAIN controllers, NEW c \in Runtimes,
         controllers' = [controllers EXCEPT ![i] = c]
  PROVE  controllers' \in Seq(Runtimes) /\ DOMAIN controllers' = DOMAIN controllers
BY DEF TypeOK

LEMMA ExitType == TypeOK /\ Exit => TypeOK'
<1>1. <<>> \in Seq(VirtualPorts) /\ <<>> \in Seq(Runtimes)
  OBVIOUS
<1>2. Exit => usb' \in [Paths -> Profiles \cup {None}]
  BY DEF Exit
<1> QED
  BY <1>1, <1>2 DEF TypeOK, Exit, nodeVars

LEMMA ReloadType ==
  ASSUME TypeOK, Reload \/ ReloadFailsToLoad \/ \E d \in Paths : ReloadFailsToOpen(d)
  PROVE  TypeOK'
<1>1. ports' \in Seq(VirtualPorts)
  BY SyncedType, HalfSyncedType DEF Reload, ReloadFailsToLoad, ReloadFailsToOpen
<1>2. controllers' \in Seq(Runtimes)
  BY RemainingType, ReconciledType DEF Reload, ReloadFailsToLoad, ReloadFailsToOpen
<1>3. queued' \subseteq alive' /\ alive' \subseteq alive
  BY ClosingType DEF TypeOK, Reload, ReloadFailsToLoad, ReloadFailsToOpen
<1>4. usb' \in [Paths -> Profiles \cup {None}]
  BY DisconnectedType DEF TypeOK, Reload, ReloadFailsToLoad, ReloadFailsToOpen
<1>5. epoll_dirty' \in BOOLEAN /\ reload_failed' \in BOOLEAN
  BY DEF TypeOK, Reload, ReloadFailsToLoad, ReloadFailsToOpen, Marked
<1>6. Reloading
  BY DEF Reload, ReloadFailsToLoad, ReloadFailsToOpen
<1> QED
  BY <1>1, <1>2, <1>3, <1>4, <1>5, <1>6 DEF TypeOK, Reloading, nodeVars

LEMMA LoopType ==
  ASSUME TypeOK,
         \/ Rebuild \/ RebuildFails \/ Wake \/ HandleUdev \/ Stop \/ Start
         \/ \E i \in 1..Cardinality(Paths) : HandlePort(i)
         \/ \E p \in Paths : FramesEnd(p)
         \/ \E k \in Kinds : AcceptStart(k) \/ AcceptEnd(k)
  PROVE  TypeOK'
<1> USE DEF TypeOK, nodeVars, channelVars, flagVars
<1>1. CASE Rebuild \/ Wake
  BY <1>1 DEF Rebuild, Wake
<1>2. CASE RebuildFails \/ Stop \/ \E p \in Paths : FramesEnd(p)
  BY <1>2, ExitType DEF RebuildFails, Stop, FramesEnd
<1>3. CASE HandleUdev \/ \E i \in 1..Cardinality(Paths) : HandlePort(i)
  BY <1>3 DEF HandleUdev, HandlePort, Handle
<1>4. CASE \E k \in Kinds : AcceptStart(k)
  BY <1>4 DEF AcceptStart, Handle, Kinds, Accepting
<1>5. CASE Start \/ \E k \in Kinds : AcceptEnd(k)
  BY <1>5 DEF Start, AcceptEnd
<1> QED
  BY <1>1, <1>2, <1>3, <1>4, <1>5

LEMMA DropType ==
  ASSUME TypeOK, NEW i \in DOMAIN controllers, Drop(i)
  PROVE  /\ controllers' \in Seq(Runtimes) /\ usb' \in [Paths -> Profiles \cup {None}]
         /\ queued' \subseteq alive' /\ alive' \subseteq alive
<1>1. Release({i}) /\ usb' = Disconnected(DevicesOf({i}))
  BY DEF Drop
<1>2. usb' \in [Paths -> Profiles \cup {None}]
  BY <1>1, DisconnectedType
<1> QED
  BY <1>1, <1>2, ReleasingType

(* A backend that goes with its port leaves the half-open channels alone.  *)
LEMMA UnbridgedType ==
  ASSUME NEW c \in Runtimes
  PROVE  [c EXCEPT !.backend = None, !.virtual_connected = FALSE] \in Runtimes
BY DEF Runtimes

LEMMA DroppingType ==
  ASSUME TypeOK,
         \/ EndRound \/ \E p \in Paths : FramesFail(p)
         \/ \E k \in Kinds, i \in 1..Cardinality(Addrs) : HandleChannel(k, i)
  PROVE  TypeOK'
<1>1. CASE EndRound
  <2>1. PICK is : Release(is)
    BY <1>1 DEF EndRound, Flush
  <2>2. usb' \in [Paths -> Profiles \cup {None}] /\ epoll_dirty' \in BOOLEAN
    BY <1>1, DisconnectedType DEF EndRound, Flush, TypeOK
  <2> QED
    BY <1>1, <2>1, <2>2, ReleasingType DEF EndRound, TypeOK, nodeVars
<1>2. ASSUME NEW p \in Paths, FramesFail(p) PROVE TypeOK'
  <2>1. PICK i \in DOMAIN controllers : Drop(i)
    BY <1>2 DEF FramesFail, Bridging
  <2> QED
    BY <1>2, <2>1, DropType DEF FramesFail, TypeOK, nodeVars
<1>3. ASSUME NEW k \in Kinds, NEW i \in 1..Cardinality(Addrs), HandleChannel(k, i)
      PROVE  TypeOK'
  <2>1. /\ controllers' \in Seq(Runtimes) /\ usb' \in [Paths -> Profiles \cup {None}]
        /\ queued' \subseteq alive' /\ alive' \subseteq alive
    <3>1. CASE i \in Bridging /\ controllers[i].device \in Named
      BY <1>3, <3>1, DropType DEF HandleChannel, Bridging
    <3>2. CASE i \in Bridging /\ controllers[i].device \notin Named
      <4> DEFINE c == [controllers[i] EXCEPT !.backend = None, !.virtual_connected = FALSE]
      <4>1. i \in DOMAIN controllers /\ controllers[i] \in Runtimes
        BY <3>2 DEF Bridging, TypeOK
      <4>2. controllers' = [controllers EXCEPT ![i] = c]
        BY <1>3, <3>2, <4>1 DEF HandleChannel, TypeOK
      <4>3. controllers' \in Seq(Runtimes)
        BY <4>1, <4>2, UnbridgedType, UpdatedType
      <4> QED
        BY <1>3, <3>2, <4>3, ClosingType DEF HandleChannel, TypeOK
    <3>3. CASE i \notin Bridging
      BY <1>3, <3>3 DEF HandleChannel, TypeOK
    <3> QED
      BY <3>1, <3>2, <3>3
  <2>2. epoll_dirty' \in BOOLEAN
    BY <1>3 DEF HandleChannel, TypeOK
  <2> QED
    BY <1>3, <2>1, <2>2 DEF HandleChannel, Handle, TypeOK, nodeVars
<1> QED
  BY <1>1, <1>2, <1>3

(* A controller that pends or is bridged is updated in place; whichever it  *)
(* is, its port is one of its candidates.                                   *)
LEMMA PairingType ==
  ASSUME TypeOK, NEW i \in DOMAIN controllers, NEW p \in Candidates(i),
         NEW pending \in [Kinds -> Attempts \cup {None}],
         Pend(i, p, pending) \/ Complete(i, p, pending) \/ CompleteFails(i, p, pending)
  PROVE  /\ \E c \in Runtimes :
              /\ controllers' = [controllers EXCEPT ![i] = c]
              /\ c.address = controllers[i].address
              /\ Uses(c) => c.device = p
         /\ usb' \in [Paths -> Profiles \cup {None}] /\ epoll_dirty' \in BOOLEAN
<1> DEFINE c0 == controllers[i]
<1>1. c0 \in Runtimes /\ p \in Paths
  BY PortFact DEF TypeOK, Candidates
<1>2. CASE Pend(i, p, pending)
  <2> DEFINE c == [c0 EXCEPT !.device = p, !.pending = pending]
  <2>1. c \in Runtimes /\ c.address = c0.address /\ c.device = p
    BY <1>1 DEF Runtimes
  <2>2. controllers' = [controllers EXCEPT ![i] = c]
    BY <1>2 DEF Pend, TypeOK
  <2> QED
    BY <1>2, <2>1, <2>2 DEF Pend, TypeOK
<1>3. CASE Complete(i, p, pending)
  <2> DEFINE c == [c0 EXCEPT !.device = p, !.pending = NoChannels,
                             !.backend = pending, !.virtual_connected = TRUE]
  <2>1. pending \in [Kinds -> Attempts]
    BY <1>3 DEF Complete
  <2>2. c \in Runtimes /\ c.address = c0.address /\ c.device = p
    BY <1>1, <2>1, NoChannelsType DEF Runtimes
  <2>3. controllers' = [controllers EXCEPT ![i] = c]
    BY <1>3 DEF Complete, TypeOK
  <2>4. c0.config.profile \in Profiles
    BY <1>1, ConfigType DEF Runtimes
  <2>5. usb' \in [Paths -> Profiles \cup {None}]
    BY <1>1, <1>3, <2>4 DEF Complete, TypeOK
  <2> QED
    BY <1>3, <2>2, <2>3, <2>5 DEF Complete
<1>4. CASE CompleteFails(i, p, pending)
  <2>1. Released(c0) \in Runtimes /\ ~Uses(Released(c0))
    BY <1>1, ReleasedType
  <2>2. Released(c0).address = c0.address
    BY DEF Released, Runtime
  <2>3. usb' \in [Paths -> Profiles \cup {None}]
    BY <1>4, DisconnectedType DEF CompleteFails
  <2> QED
    BY <1>4, <2>1, <2>2, <2>3 DEF CompleteFails, TypeOK
<1> QED
  BY <1>2, <1>3, <1>4

(* An accepted channel is rejected or brings its controller further.       *)
LEMMA AcceptStep ==
  ASSUME TypeOK, NEW k \in Kinds, Accept(k)
  PROVE  /\ \E q \in SUBSET queued : CloseUnheld(controllers', q)
         /\ \/ UNCHANGED <<controllers, usb, epoll_dirty>>
            \/ \E i \in DOMAIN controllers \ Bridging : \E p \in Candidates(i) :
                 \E pending \in [Kinds -> Attempts \cup {None}] :
                   \/ Pend(i, p, pending) \/ Complete(i, p, pending)
                   \/ CompleteFails(i, p, pending)
<1>1. PICK ch \in queued :
        /\ ch[3] = k
        /\ \/ Reject(ch)
           \/ \E i \in DOMAIN controllers \ Bridging : \E p \in Candidates(i) :
                LET pending == [controllers[i].pending EXCEPT ![k] = ch[2]]
                IN /\ controllers[i].address = ch[1]
                   /\ \/ Pend(i, p, pending)
                      \/ Complete(i, p, pending) \/ CompleteFails(i, p, pending)
                   /\ CloseUnheld(controllers', queued \ {ch})
  BY DEF Accept
<1>2. ch[2] \in Attempts
  BY DEF TypeOK, Channels
<1>3. CASE Reject(ch)
  BY <1>3 DEF Reject
<1>4. ASSUME NEW i \in DOMAIN controllers
      PROVE  [controllers[i].pending EXCEPT ![k] = ch[2]] \in [Kinds -> Attempts \cup {None}]
  <2>1. controllers[i].pending \in [Kinds -> Attempts \cup {None}]
    <3>1. controllers[i] \in Runtimes
      BY DEF TypeOK
    <3> QED
      BY <3>1 DEF Runtimes
  <2> QED
    BY <1>2, <2>1
<1> QED
  BY <1>1, <1>3, <1>4

LEMMA AcceptType ==
  ASSUME TypeOK, NEW k \in Kinds, Accept(k)
  PROVE  TypeOK'
<1>1. /\ controllers' \in Seq(Runtimes) /\ epoll_dirty' \in BOOLEAN
      /\ usb' \in [Paths -> Profiles \cup {None}]
  BY AcceptStep, PairingType, UpdatedType DEF TypeOK
<1>2. queued' \subseteq alive' /\ alive' \subseteq alive
  BY AcceptStep, ClosingType DEF TypeOK
<1> QED
  BY <1>1, <1>2 DEF Accept, TypeOK, nodeVars

(* Removing an entry keeps the others in their order.                      *)
LEMMA Shortened ==
  ASSUME NEW S, NEW s \in Seq(S), NEW k \in DOMAIN s
  PROVE  /\ RemoveAt(s, k) \in Seq(S) /\ Len(RemoveAt(s, k)) = Len(s) - 1
         /\ \A i \in DOMAIN RemoveAt(s, k) :
              RemoveAt(s, k)[i] = IF i < k THEN s[i] ELSE s[i + 1]
<1> DEFINE a == SubSeq(s, 1, k - 1)  b == SubSeq(s, k + 1, Len(s))
<1>1. a \in Seq(S) /\ Len(a) = k - 1 /\ \A i \in 1 .. k - 1 : a[i] = s[i]
  OBVIOUS
<1>2. b \in Seq(S) /\ Len(b) = Len(s) - k /\ \A i \in 1 .. Len(s) - k : b[i] = s[k + i]
  OBVIOUS
<1>3. RemoveAt(s, k) = a \o b
  BY DEF RemoveAt
<1> HIDE DEF a, b
<1> QED
  BY <1>1, <1>2, <1>3

LEMMA RequestType ==
  ASSUME TypeOK, NEW a \in Addrs, Detach(a) \/ \E c \in Configs : Attach(a, c)
  PROVE  TypeOK'
<1>1. file' \in Seq(ConfigEntries)
  <2>1. CASE Detach(a)
    <3>1. PICK i \in DOMAIN file : file' = RemoveAt(file, i)
      BY <2>1 DEF Detach
    <3> QED
      BY <3>1, Shortened DEF TypeOK
  <2>2. ASSUME NEW c \in Configs, Attach(a, c) PROVE file' \in Seq(ConfigEntries)
    <3>1. Entry(a, c) \in ConfigEntries
      BY DEF Entry, ConfigEntries
    <3> QED
      BY <2>2, <3>1 DEF Attach, TypeOK
  <2> QED
    BY <2>1, <2>2
<1> QED
  BY <1>1 DEF Detach, Attach, Told, TypeOK, nodeVars, channelVars

LEMMA NodeType ==
  ASSUME TypeOK, NEW p \in Paths, AddNode(p) \/ RemoveNode(p)
  PROVE  TypeOK'
<1>1. CASE AddNode(p)
  BY <1>1 DEF AddNode, TypeOK, channelVars, loopVars, flagVars
<1>2. CASE RemoveNode(p)
  <2>1. DOMAIN ports = 1..Len(ports) /\ Len(ports) \in Nat
    BY DEF TypeOK
  <2>2. \A v \in VirtualPorts : [v EXCEPT !.live = FALSE] \in VirtualPorts
    BY DEF VirtualPorts
  <2>3. ports' \in [1..Len(ports) -> VirtualPorts]
    BY <1>2, <2>1, <2>2 DEF RemoveNode, TypeOK
  <2>4. ports' \in Seq(VirtualPorts)
    BY <2>1, <2>3, FunctionSeq
  <2>5. usb' \in [Paths -> Profiles \cup {None}]
    BY <1>2, DisconnectedType DEF RemoveNode
  <2> QED
    BY <1>2, <2>4, <2>5 DEF RemoveNode, TypeOK, channelVars, flagVars
<1> QED
  BY <1>1, <1>2

LEMMA ChannelType ==
  ASSUME TypeOK,
         \/ \E a \in Addrs : ConnectControl(a) \/ ConnectInterrupt(a)
         \/ \E ch \in alive : PeerCloses(ch)
  PROVE  TypeOK'
<1> USE DEF TypeOK, nodeVars, loopVars, flagVars
<1>1. ASSUME NEW ch \in Channels, OpenChannel(ch) PROVE TypeOK'
  BY <1>1 DEF OpenChannel
<1>2. CASE \E a \in Addrs : ConnectControl(a) \/ ConnectInterrupt(a)
  BY <1>1, <1>2 DEF ConnectControl, ConnectInterrupt, Channels, Kinds
<1>3. CASE \E ch \in alive : PeerCloses(ch)
  BY <1>3 DEF PeerCloses
<1> QED
  BY <1>2, <1>3

LEMMA NextType == TypeOK /\ [Next]_vars => TypeOK'
<1> SUFFICES ASSUME TypeOK, [Next]_vars PROVE TypeOK'
  OBVIOUS
<1>1. CASE UNCHANGED vars
  BY <1>1 DEF vars, nodeVars, channelVars, loopVars, flagVars, TypeOK
<1>2. CASE Loop
  BY <1>2, ReloadType, LoopType, DroppingType DEF Loop
<1>3. CASE Serve
  BY <1>3, LoopType, DroppingType, AcceptType DEF Serve
<1>4. CASE Surroundings
  BY <1>4, LoopType, RequestType, NodeType, ChannelType DEF Surroundings
<1> QED
  BY <1>1, <1>2, <1>3, <1>4 DEF Next

(* Every variable of the daemon and its surroundings keeps its type.       *)
THEOREM DaemonTypes == Spec => []TypeOK
BY InitType, NextType, PTL DEF Spec

-----------------------------------------------------------------------------
(* No two controllers hold one port.  A reload keeps controllers by their  *)
(* address, so that two entries keep two different controllers, and that   *)
(* needs the file to hold an address once.                                 *)

AddressesOnce ==
  \A i, j \in DOMAIN file : i # j => file[i].address # file[j].address

ExclusiveInv == TypeOK /\ AddressesOnce /\ PortsExclusive

(* Holding fewer ports keeps them exclusive.                               *)
LEMMA FewerPorts ==
  ASSUME PortsExclusive, NEW cs, DOMAIN cs = DOMAIN controllers,
         \A i \in DOMAIN cs : Uses(cs[i]) =>
           Uses(controllers[i]) /\ cs[i].device = controllers[i].device
  PROVE  \A i, j \in DOMAIN cs :
           i # j /\ Uses(cs[i]) /\ Uses(cs[j]) => cs[i].device # cs[j].device
BY DEF PortsExclusive

LEMMA RemainingHolds ==
  ASSUME TypeOK, NEW i \in DOMAIN controllers, Uses(Remaining[i])
  PROVE  Uses(controllers[i]) /\ Remaining[i].device = controllers[i].device
<1>1. controllers[i] \in Runtimes
  BY DEF TypeOK
<1>2. Remaining[i] = Present(controllers[i])
  BY RemainingType
<1> QED
  BY <1>1, <1>2, ReleasedType DEF Present

LEMMA ReloadExclusive ==
  ASSUME ExclusiveInv, Reload
  PROVE  PortsExclusive'
<1> USE DEF ExclusiveInv
<1>1. DOMAIN Reconciled = DOMAIN file /\ controllers' = Reconciled
  BY ReconciledType DEF Reload
<1>2. ASSUME NEW i \in DOMAIN file, Uses(Reconciled[i])
      PROVE  \E k \in DOMAIN controllers :
               /\ Uses(Remaining[k]) /\ Remaining[k].address = file[i].address
               /\ Reconciled[i].device = Remaining[k].device
  <2>1. ~Uses(Runtime(file[i].address, file[i].config))
    BY RuntimeType DEF TypeOK
  <2>2. PICK k \in DOMAIN controllers :
          /\ Keeps(Remaining[k], file[i])
          /\ Reconciled[i] = [Remaining[k] EXCEPT !.config = file[i].config]
    BY <1>2, <2>1, Kept
  <2>3. Remaining[k] \in Runtimes
    BY RemainingType
  <2> QED
    BY <2>2, <2>3 DEF Keeps, Runtimes
<1>3. \A k, l \in DOMAIN controllers :
        k # l /\ Uses(Remaining[k]) /\ Uses(Remaining[l])
          => Remaining[k].device # Remaining[l].device
  BY RemainingType, RemainingHolds, FewerPorts
<1>4. ASSUME NEW i \in DOMAIN file, NEW j \in DOMAIN file, i # j,
             Uses(Reconciled[i]), Uses(Reconciled[j])
      PROVE  Reconciled[i].device # Reconciled[j].device
  <2>1. PICK k \in DOMAIN controllers :
          /\ Uses(Remaining[k]) /\ Remaining[k].address = file[i].address
          /\ Reconciled[i].device = Remaining[k].device
    BY <1>2, <1>4
  <2>2. PICK l \in DOMAIN controllers :
          /\ Uses(Remaining[l]) /\ Remaining[l].address = file[j].address
          /\ Reconciled[j].device = Remaining[l].device
    BY <1>2, <1>4
  <2>3. k # l
    BY <1>4, <2>1, <2>2 DEF AddressesOnce
  <2> QED
    BY <1>3, <2>1, <2>2, <2>3
<1> QED
  BY <1>1, <1>4 DEF PortsExclusive, Uses

(* A step that leaves each controller the port it has, or none.            *)
HoldFewer ==
  /\ DOMAIN controllers' = DOMAIN controllers
  /\ \A i \in DOMAIN controllers : Uses(controllers'[i]) =>
       Uses(controllers[i]) /\ controllers'[i].device = controllers[i].device

LEMMA FewerExclusive == PortsExclusive /\ HoldFewer => PortsExclusive'
<1> SUFFICES ASSUME PortsExclusive, HoldFewer PROVE PortsExclusive'
  OBVIOUS
<1>1. \A i, j \in DOMAIN controllers' :
        i # j /\ Uses(controllers'[i]) /\ Uses(controllers'[j])
          => controllers'[i].device # controllers'[j].device
  BY FewerPorts DEF HoldFewer
<1> QED
  BY <1>1 DEF PortsExclusive, Uses

LEMMA UnchangedFewer == UNCHANGED controllers => HoldFewer
BY DEF HoldFewer, Uses

LEMMA FailedReloadFewer ==
  ASSUME TypeOK, ReloadFailsToLoad \/ \E d \in Paths : ReloadFailsToOpen(d)
  PROVE  HoldFewer
<1>1. controllers' = Remaining
  BY DEF ReloadFailsToLoad, ReloadFailsToOpen
<1> QED
  BY <1>1, RemainingType, RemainingHolds DEF HoldFewer, Uses

LEMMA ReleaseFewer ==
  ASSUME TypeOK, NEW is, Release(is)
  PROVE  HoldFewer
<1>1. DOMAIN controllers' = DOMAIN controllers
  BY DEF Release
<1>2. ASSUME NEW i \in DOMAIN controllers, Uses(controllers'[i])
      PROVE  controllers'[i] = controllers[i]
  <2>1. controllers[i] \in Runtimes
    BY DEF TypeOK
  <2>2. ~Uses(Released(controllers[i]))
    BY <2>1, ReleasedType
  <2>3. controllers'[i] = IF i \in is THEN Released(controllers[i]) ELSE controllers[i]
    BY DEF Release
  <2> QED
    BY <1>2, <2>2, <2>3
<1> QED
  BY <1>1, <1>2 DEF HoldFewer

LEMMA UnbridgedFewer ==
  ASSUME TypeOK, NEW i \in DOMAIN controllers,
         controllers' = [controllers EXCEPT ![i].backend = None, ![i].virtual_connected = FALSE]
  PROVE  HoldFewer
<1> DEFINE c == [controllers[i] EXCEPT !.backend = None, !.virtual_connected = FALSE]
<1>1. controllers[i] \in Runtimes
  BY DEF TypeOK
<1>2. /\ c.pending = controllers[i].pending /\ c.device = controllers[i].device
      /\ c.backend = None /\ c.virtual_connected = FALSE
  BY <1>1 DEF Runtimes
<1>3. controllers' = [controllers EXCEPT ![i] = c]
  BY DEF TypeOK
<1> HIDE DEF c
<1>4. Uses(c) => Uses(controllers[i])
  BY <1>2 DEF Uses
<1>5. \A j \in DOMAIN controllers : controllers'[j] = IF j = i THEN c ELSE controllers[j]
  BY <1>3
<1>6. DOMAIN controllers' = DOMAIN controllers
  BY <1>3
<1> QED
  BY <1>2, <1>4, <1>5, <1>6 DEF HoldFewer

(* A channel is accepted for a port that no other controller holds.        *)
LEMMA AcceptExclusive ==
  ASSUME ExclusiveInv, NEW k \in Kinds, Accept(k)
  PROVE  PortsExclusive'
<1> USE DEF ExclusiveInv
<1>1. CASE UNCHANGED controllers
  BY <1>1, UnchangedFewer, FewerExclusive
<1>2. ASSUME NEW i \in DOMAIN controllers, NEW p \in Candidates(i),
             NEW c \in Runtimes, controllers' = [controllers EXCEPT ![i] = c],
             Uses(c) => c.device = p
      PROVE  PortsExclusive'
  <2>1. \A j \in DOMAIN controllers \ {i} : Uses(controllers[j]) => controllers[j].device # p
    BY <1>2 DEF Candidates, Occupied, DevicesOf
  <2>2. DOMAIN controllers' = DOMAIN controllers /\ controllers'[i] = c
        /\ \A j \in DOMAIN controllers \ {i} : controllers'[j] = controllers[j]
    BY <1>2 DEF TypeOK
  <2> QED
    BY <1>2, <2>1, <2>2 DEF PortsExclusive, Uses
<1> QED
  BY <1>1, <1>2, AcceptStep, PairingType

LEMMA NextExclusive == ExclusiveInv /\ [Next]_vars => PortsExclusive'
<1> SUFFICES ASSUME ExclusiveInv, TypeOK, PortsExclusive, [Next]_vars
             PROVE  PortsExclusive'
  BY DEF ExclusiveInv
<1> USE DEF nodeVars, channelVars, loopVars, flagVars
<1>1. CASE Exit
  BY <1>1 DEF Exit, PortsExclusive
<1>2. CASE UNCHANGED controllers
  BY <1>2, UnchangedFewer, FewerExclusive
<1>3. CASE UNCHANGED vars
  BY <1>2, <1>3 DEF vars
<1>4. CASE Loop
  <2>1. CASE EndRound
    BY <2>1, ReleaseFewer, FewerExclusive DEF EndRound, Flush
  <2>2. CASE Rebuild \/ Wake \/ RebuildFails
    BY <1>1, <1>2, <2>2 DEF Rebuild, Wake, RebuildFails
  <2> QED
    BY <1>4, <2>1, <2>2, ReloadExclusive, FailedReloadFewer, FewerExclusive DEF Loop
<1>5. CASE Serve
  <2>1. ASSUME NEW p \in Paths, FramesFail(p) \/ FramesEnd(p) PROVE PortsExclusive'
    BY <1>1, <2>1, ReleaseFewer, FewerExclusive DEF FramesFail, FramesEnd, Drop
  <2>2. ASSUME NEW k \in Kinds, NEW i \in 1..Cardinality(Addrs), HandleChannel(k, i)
        PROVE  PortsExclusive'
    BY <1>2, <2>2, ReleaseFewer, UnbridgedFewer, FewerExclusive
    DEF HandleChannel, Drop, Bridging
  <2>3. CASE HandleUdev \/ \E i \in 1..Cardinality(Paths) : HandlePort(i)
    BY <1>2, <2>3 DEF HandleUdev, HandlePort
  <2>4. ASSUME NEW k \in Kinds, AcceptStart(k) \/ AcceptEnd(k) PROVE PortsExclusive'
    BY <1>2, <2>4 DEF AcceptStart, AcceptEnd
  <2> QED
    BY <1>5, <2>1, <2>2, <2>3, <2>4, AcceptExclusive DEF Serve
<1>6. CASE Surroundings
  <2>1. CASE Stop
    BY <1>1, <2>1 DEF Stop
  <2>2. CASE Start
    BY <1>2, <2>2 DEF Start
  <2>3. CASE \E a \in Addrs : Detach(a) \/ \E c \in Configs : Attach(a, c)
    BY <1>2, <2>3 DEF Attach, Detach
  <2>4. CASE \E p \in Paths : AddNode(p) \/ RemoveNode(p)
    BY <1>2, <2>4 DEF AddNode, RemoveNode
  <2>5. CASE \/ \E a \in Addrs : ConnectControl(a) \/ ConnectInterrupt(a)
             \/ \E ch \in alive : PeerCloses(ch)
    BY <1>2, <2>5 DEF ConnectControl, ConnectInterrupt, OpenChannel, PeerCloses
  <2> QED
    BY <1>6, <2>1, <2>2, <2>3, <2>4, <2>5 DEF Surroundings
<1> QED
  BY <1>3, <1>4, <1>5, <1>6 DEF Next

LEMMA NextAddresses == TypeOK /\ AddressesOnce /\ [Next]_vars => AddressesOnce'
<1> SUFFICES ASSUME TypeOK, AddressesOnce, [Next]_vars PROVE AddressesOnce'
  OBVIOUS
<1>1. CASE UNCHANGED file
  BY <1>1 DEF AddressesOnce
<1>2. ASSUME NEW a \in Addrs, Detach(a) PROVE AddressesOnce'
  <2>1. PICK k \in DOMAIN file : file' = RemoveAt(file, k)
    BY <1>2 DEF Detach
  <2>2. /\ file' \in Seq(ConfigEntries) /\ Len(file') = Len(file) - 1
        /\ \A i \in DOMAIN file' : file'[i] = IF i < k THEN file[i] ELSE file[i + 1]
    BY <2>1, Shortened DEF TypeOK
  <2> DEFINE old(i) == IF i < k THEN i ELSE i + 1
  <2>3. \A i, j \in DOMAIN file' :
          old(i) \in DOMAIN file /\ (i # j => old(i) # old(j)) /\ file'[i] = file[old(i)]
    BY <2>2 DEF TypeOK
  <2> HIDE DEF old
  <2> QED
    BY <2>3 DEF AddressesOnce
<1>3. ASSUME NEW a \in Addrs, NEW c \in Configs, Attach(a, c) PROVE AddressesOnce'
  <2>1. file' = Append(file, Entry(a, c)) /\ \A i \in DOMAIN file : file[i].address # a
    BY <1>3 DEF Attach, InFile, Entries
  <2>2. Entry(a, c).address = a
    BY DEF Entry
  <2> QED
    BY <2>1, <2>2 DEF AddressesOnce, TypeOK
<1>4. UNCHANGED file \/ \E a \in Addrs : Detach(a) \/ \E c \in Configs : Attach(a, c)
  BY DEF vars, nodeVars, channelVars, loopVars, flagVars, Next, Loop, Serve, Surroundings,
         Reload, ReloadFailsToLoad, ReloadFailsToOpen, Reloading, Rebuild, RebuildFails,
         Wake, EndRound, Exit, HandleUdev, HandlePort, FramesFail, FramesEnd,
         AcceptStart, Accept, AcceptEnd, HandleChannel, Stop, Start, AddNode, RemoveNode,
         ConnectControl, ConnectInterrupt, OpenChannel, PeerCloses
<1> QED
  BY <1>1, <1>2, <1>3, <1>4

(* However connections, reloads, errors and device nodes interleave, no    *)
(* two controllers, half-open ones included, hold one port.                *)
THEOREM OnePortEach == Spec => []PortsExclusive
<1>1. Init => ExclusiveInv
  BY InitType DEF Init, Files, ExclusiveInv, AddressesOnce, PortsExclusive
<1>2. ExclusiveInv /\ [Next]_vars => ExclusiveInv'
  BY NextType, NextAddresses, NextExclusive DEF ExclusiveInv
<1>3. ExclusiveInv => PortsExclusive
  BY DEF ExclusiveInv
<1> QED
  BY <1>1, <1>2, <1>3, PTL DEF Spec
-----------------------------------------------------------------------------
(* What the steps have in common.  Outside reloads and accepts a controller *)
(* stays as it is or loses what it holds.                                   *)
Unbridged(c) == [c EXCEPT !.backend = None, !.virtual_connected = FALSE]
Fading ==
  /\ DOMAIN controllers' = DOMAIN controllers
  /\ \A i \in DOMAIN controllers :
       controllers'[i] \in {controllers[i], Released(controllers[i]), Unbridged(controllers[i])}

LEMMA FadedFacts ==
  ASSUME NEW c \in Runtimes, NEW d \in {c, Released(c), Unbridged(c)}
  PROVE  /\ d.address = c.address /\ d.config = c.config
         /\ d.device \in {c.device, None}
         /\ Uses(d) => Uses(c) /\ d.device = c.device
         /\ d.backend # None \/ d.virtual_connected => d = c
<1>1. CASE d = c
  BY <1>1
<1>2. CASE d = Released(c)
  <2>1. ~Uses(d)
    BY <1>2, ReleasedType
  <2>2. /\ d.address = c.address /\ d.config = c.config /\ d.device = None
        /\ d.backend = None /\ d.virtual_connected = FALSE
    BY <1>2 DEF Released, Runtime
  <2> QED
    BY <2>1, <2>2
<1>3. CASE d = Unbridged(c)
  <2>1. /\ d.address = c.address /\ d.config = c.config /\ d.device = c.device
        /\ d.pending = c.pending /\ d.backend = None /\ d.virtual_connected = FALSE
    BY <1>3 DEF Unbridged, Runtimes
  <2> QED
    BY <2>1 DEF Uses
<1> QED
  BY <1>1, <1>2, <1>3

LEMMA FadingFacts ==
  ASSUME TypeOK, Fading
  PROVE  \A i \in DOMAIN controllers :
           /\ controllers'[i].address = controllers[i].address
           /\ controllers'[i].config = controllers[i].config
           /\ controllers'[i].device \in {controllers[i].device, None}
           /\ Uses(controllers'[i]) =>
                Uses(controllers[i]) /\ controllers'[i].device = controllers[i].device
           /\ controllers'[i].backend # None \/ controllers'[i].virtual_connected
                => controllers'[i] = controllers[i]
<1>1. ASSUME NEW i \in DOMAIN controllers
      PROVE  /\ controllers[i] \in Runtimes
             /\ controllers'[i] \in {controllers[i], Released(controllers[i]), Unbridged(controllers[i])}
  BY DEF Fading, TypeOK
<1> QED
  BY <1>1, FadedFacts

LEMMA UnchangedFades == UNCHANGED controllers => Fading
BY DEF Fading

LEMMA ReleaseFades ==
  ASSUME TypeOK, NEW is, Release(is)
  PROVE  /\ Fading
         /\ \A i \in DOMAIN controllers :
              controllers'[i] = IF i \in is THEN Released(controllers[i]) ELSE controllers[i]
BY DEF Release, Fading

(* What a reload that fails leaves of the controllers.                      *)
LEMMA RemainingFades ==
  ASSUME TypeOK
  PROVE  \A i \in DOMAIN controllers :
           /\ Remaining[i] \in {controllers[i], Released(controllers[i])}
           /\ Remaining[i].address = controllers[i].address
           /\ Uses(controllers[i]) /\ controllers[i].device \in nodes
                => Remaining[i] = controllers[i]
           /\ Uses(Remaining[i]) => Remaining[i] = controllers[i]
<1> SUFFICES ASSUME NEW i \in DOMAIN controllers
             PROVE  /\ Remaining[i] \in {controllers[i], Released(controllers[i])}
                    /\ Remaining[i].address = controllers[i].address
                    /\ Uses(controllers[i]) /\ controllers[i].device \in nodes
                         => Remaining[i] = controllers[i]
                    /\ Uses(Remaining[i]) => Remaining[i] = controllers[i]
  OBVIOUS
<1>1. controllers[i] \in Runtimes /\ Remaining[i] = Present(controllers[i])
  BY RemainingType DEF TypeOK
<1>2. Remaining[i] \in {controllers[i], Released(controllers[i])}
  BY <1>1 DEF Present
<1> QED
  BY <1>1, <1>2, FadedFacts, ReleasedType DEF Present

Refused == ReloadFailsToLoad \/ \E d \in Paths : ReloadFailsToOpen(d)
LEMMA RefusedFades ==
  ASSUME TypeOK, Refused
  PROVE  Fading /\ controllers' = Remaining
BY RemainingType, RemainingFades DEF Refused, ReloadFailsToLoad, ReloadFailsToOpen, Fading

LEMMA ChannelFades ==
  ASSUME TypeOK, NEW k \in Kinds, NEW i, HandleChannel(k, i)
  PROVE  Fading
<1>1. CASE i \in Bridging /\ controllers[i].device \in Named
  BY <1>1, ReleaseFades DEF HandleChannel, Drop
<1>2. CASE i \in Bridging /\ controllers[i].device \notin Named
  <2>1. i \in DOMAIN controllers
    BY <1>2 DEF Bridging
  <2>2. controllers' = [controllers EXCEPT ![i] = Unbridged(controllers[i])]
    BY <1>2, <2>1 DEF HandleChannel, Unbridged, TypeOK
  <2> QED
    BY <2>1, <2>2 DEF Fading
<1>3. CASE i \notin Bridging
  BY <1>3, UnchangedFades DEF HandleChannel
<1> QED
  BY <1>1, <1>2, <1>3

(* A round ends, or an error or a closed channel takes a controller down.   *)
Dropping ==
  \/ EndRound \/ \E p \in Paths : FramesFail(p)
  \/ \E k \in Kinds, i \in 1..Cardinality(Addrs) : HandleChannel(k, i)

LEMMA DroppingFades == TypeOK /\ Dropping => Fading
BY ReleaseFades, ChannelFades DEF Dropping, EndRound, Flush, FramesFail, Drop

(* Steps that leave ports, controllers and registrations alone.             *)
Quiet ==
  /\ UNCHANGED <<ports, controllers, epoll, usb, reload_failed>>
  /\ nodes \subseteq nodes'
  /\ reload_requested => reload_requested'
  /\ epoll_dirty => epoll_dirty'
  /\ UNCHANGED file \/ reload_requested'
  /\ pc' = "wait" => pc = "wait" /\ UNCHANGED flagVars
  /\ pc' = "exit" => pc = "exit"
  /\ pc' = "head" => pc \in {"head", "exit"} /\ UNCHANGED flagVars

LEMMA StepKinds ==
  ASSUME TypeOK, [Next]_vars
  PROVE  \/ Exit \/ Reload \/ Refused \/ Rebuild \/ Dropping \/ Quiet
         \/ \E k \in Kinds : Accept(k)
         \/ \E p \in Paths : RemoveNode(p)
<1> USE DEF nodeVars, channelVars, loopVars, flagVars
<1>1. CASE UNCHANGED vars
  BY <1>1 DEF vars, Quiet
<1>2. CASE Loop
  BY <1>2 DEF Loop, RebuildFails, Wake, Quiet, Refused, Dropping
<1>3. CASE Serve
  <2>1. CASE HandleUdev \/ \E i \in 1..Cardinality(Paths) : HandlePort(i)
    BY <2>1 DEF HandleUdev, HandlePort, Handle, Quiet
  <2>2. ASSUME NEW k \in Kinds, AcceptStart(k) \/ AcceptEnd(k) PROVE Quiet
    BY <2>2 DEF AcceptStart, AcceptEnd, Handle, Accepting, Kinds, Quiet
  <2>3. \A p \in Paths : FramesEnd(p) => Exit
    BY DEF FramesEnd
  <2> QED
    BY <1>3, <2>1, <2>2, <2>3 DEF Serve, Dropping
<1>4. CASE Surroundings
  <2>1. CASE Stop
    BY <2>1 DEF Stop
  <2>2. CASE Start \/ \E p \in Paths : AddNode(p)
    BY <2>2 DEF Start, AddNode, Quiet
  <2>3. CASE \E a \in Addrs : Detach(a) \/ \E c \in Configs : Attach(a, c)
    BY <2>3 DEF Attach, Detach, Told, Quiet
  <2>5. CASE \/ \E a \in Addrs : ConnectControl(a) \/ ConnectInterrupt(a)
             \/ \E ch \in alive : PeerCloses(ch)
    BY <2>5 DEF ConnectControl, ConnectInterrupt, OpenChannel, PeerCloses, Quiet
  <2> QED
    BY <1>4, <2>1, <2>2, <2>3, <2>5 DEF Surroundings
<1> QED
  BY <1>1, <1>2, <1>3, <1>4 DEF Next

(* A reload keeps a controller in use under its new place and configuration *)
(* or starts it anew.                                                       *)
CarriedOver(k, e) ==
  /\ Uses(controllers[k]) /\ Remaining[k] = controllers[k]
  /\ controllers[k].device \in nodes /\ controllers[k].address = e.address
  /\ controllers[k].config.profile = e.config.profile
  /\ Allows(e.config, controllers[k].device)
LEMMA ReloadStep ==
  ASSUME TypeOK, NEW i \in DOMAIN file
  PROVE  /\ Reconciled[i].address = file[i].address /\ Reconciled[i].config = file[i].config
         /\ \/ Reconciled[i] = Runtime(file[i].address, file[i].config)
            \/ \E k \in DOMAIN controllers :
                 /\ CarriedOver(k, file[i])
                 /\ Reconciled[i].device = controllers[k].device
                 /\ Reconciled[i].backend = controllers[k].backend
                 /\ Reconciled[i].virtual_connected = controllers[k].virtual_connected
                 /\ Uses(Reconciled[i])
<1>1. CASE Reconciled[i] = Runtime(file[i].address, file[i].config)
  BY <1>1 DEF Runtime
<1>2. ASSUME NEW k \in DOMAIN controllers, Keeps(Remaining[k], file[i]),
             Reconciled[i] = [Remaining[k] EXCEPT !.config = file[i].config]
      PROVE  /\ CarriedOver(k, file[i])
             /\ Reconciled[i].address = file[i].address /\ Reconciled[i].config = file[i].config
             /\ Reconciled[i].device = controllers[k].device
             /\ Reconciled[i].backend = controllers[k].backend
             /\ Reconciled[i].virtual_connected = controllers[k].virtual_connected
             /\ Uses(Reconciled[i])
  <2>1. controllers[k] \in Runtimes
    BY DEF TypeOK
  <2>2. Remaining[k] = controllers[k]
    BY <1>2, RemainingFades DEF Keeps
  <2>3. CarriedOver(k, file[i])
    BY <1>2, <2>2 DEF Keeps, CarriedOver
  <2>4. /\ Reconciled[i].address = controllers[k].address
        /\ Reconciled[i].config = file[i].config
        /\ Reconciled[i].device = controllers[k].device
        /\ Reconciled[i].backend = controllers[k].backend
        /\ Reconciled[i].pending = controllers[k].pending
        /\ Reconciled[i].virtual_connected = controllers[k].virtual_connected
    BY <1>2, <2>1, <2>2 DEF Runtimes
  <2>5. Uses(Reconciled[i])
    BY <2>3, <2>4 DEF CarriedOver, Uses
  <2> QED
    BY <2>3, <2>4, <2>5 DEF CarriedOver
<1> QED
  BY <1>1, <1>2, Kept
-----------------------------------------------------------------------------
(* A bridge is of one connection, because of an address only the channels   *)
(* of its last attempt are alive.                                           *)

LEMMA AttemptsFinite ==
  ASSUME NEW a
  PROVE  IsFiniteSet(Attempted(a)) /\ Cardinality(Attempted(a)) \in Nat
<1>1. IsFiniteSet(Attempts)
  BY DaemonAssumption, FS_Interval DEF Attempts
<1>2. Attempted(a) \subseteq Attempts
  BY DEF Attempted
<1> QED
  BY <1>1, <1>2, FS_Subset, FS_CardinalityType

(* No channel opens but those of ConnectControl and ConnectInterrupt.       *)
LEMMA ChannelSteps ==
  ASSUME TypeOK, [Next]_vars
  PROVE  \/ UNCHANGED opened /\ alive' \subseteq alive
         \/ \E a \in Addrs : ConnectControl(a) \/ ConnectInterrupt(a)
<1> USE DEF nodeVars, channelVars, loopVars, flagVars
<1>1. CASE UNCHANGED vars
  BY <1>1 DEF vars
<1>2. CASE Exit
  BY <1>2 DEF Exit
<1>3. CASE Loop
  BY <1>2, <1>3 DEF Loop, Reload, ReloadFailsToLoad, ReloadFailsToOpen, Reloading, Rebuild,
                    RebuildFails, Wake, EndRound, Flush, Release, CloseUnheld
<1>4. CASE Serve
  <2>1. ASSUME NEW k \in Kinds, Accept(k) PROVE UNCHANGED opened /\ alive' \subseteq alive
    BY <2>1, AcceptStep DEF Accept, CloseUnheld
  <2> QED
    BY <1>2, <1>4, <2>1 DEF Serve, HandleUdev, HandlePort, FramesFail, FramesEnd, AcceptStart,
                     AcceptEnd, HandleChannel, Drop, Release, CloseUnheld
<1>5. CASE Surroundings
  BY <1>2, <1>5 DEF Surroundings, Attach, Detach, Stop, Start, AddNode, RemoveNode, PeerCloses
<1> QED
  BY <1>1, <1>3, <1>4, <1>5 DEF Next

LEMMA NextLatest == TypeOK /\ LatestAlive /\ [Next]_vars => LatestAlive'
<1> SUFFICES ASSUME TypeOK, LatestAlive, [Next]_vars PROVE LatestAlive'
  OBVIOUS
<1>1. CASE UNCHANGED opened /\ alive' \subseteq alive
  BY <1>1 DEF LatestAlive, Attempted
<1>2. ASSUME NEW a \in Addrs, ConnectControl(a) PROVE LatestAlive'
  <2>1. PICK n \in Attempts : n = Cardinality(Attempted(a)) + 1 /\ OpenChannel(<<a, n, "control">>)
    BY <1>2 DEF ConnectControl
  <2> DEFINE ch == <<a, n, "control">>
  <2>2. /\ ch \notin opened /\ opened' = opened \cup {ch} /\ alive' = alive \cup {ch}
        /\ \A c \in alive : c[1] # a
    BY <1>2, <2>1 DEF OpenChannel, ConnectControl
  <2>3. Attempted(a)' = Attempted(a) \cup {n} /\ n \notin Attempted(a)
    BY <2>2 DEF Attempted
  <2>4. Cardinality(Attempted(a))' = n
    BY <2>1, <2>3, AttemptsFinite, FS_AddElement
  <2>5. \A b : b # a => Attempted(b)' = Attempted(b)
    BY <2>2 DEF Attempted
  <2>6. ASSUME NEW c \in alive' PROVE c[2] = Cardinality(Attempted(c[1])')
    BY <2>2, <2>4, <2>5, <2>6 DEF LatestAlive
  <2> QED
    BY <2>6 DEF LatestAlive
<1>3. ASSUME NEW a \in Addrs, ConnectInterrupt(a) PROVE LatestAlive'
  <2>1. PICK n \in Attempts : n = Cardinality(Attempted(a)) /\ OpenChannel(<<a, n, "interrupt">>)
    BY <1>3 DEF ConnectInterrupt
  <2> DEFINE ch == <<a, n, "interrupt">>
  <2>2. opened' = opened \cup {ch} /\ alive' = alive \cup {ch}
    BY <2>1 DEF OpenChannel
  <2>3. \A b : Attempted(b)' = Attempted(b)
    BY <2>2 DEF Attempted
  <2>4. ASSUME NEW c \in alive' PROVE c[2] = Cardinality(Attempted(c[1])')
    BY <2>1, <2>2, <2>3, <2>4 DEF LatestAlive
  <2> QED
    BY <2>4 DEF LatestAlive
<1> QED
  BY <1>1, <1>2, <1>3, ChannelSteps

(* What an accept does to the controllers, the host and the flag.           *)
LEMMA AcceptEffect ==
  ASSUME TypeOK, NEW k \in Kinds, Accept(k)
  PROVE  \/ UNCHANGED <<controllers, usb, epoll_dirty>>
         \/ \E i \in DOMAIN controllers \ Bridging : \E p \in Candidates(i) :
              /\ DOMAIN controllers' = DOMAIN controllers
              /\ \A j \in DOMAIN controllers \ {i} : controllers'[j] = controllers[j]
              /\ controllers'[i] \in Runtimes
              /\ controllers'[i].address = controllers[i].address
              /\ controllers'[i].config = controllers[i].config
              /\ \/ /\ controllers'[i].device = p /\ controllers'[i].backend = None
                    /\ controllers'[i].virtual_connected = controllers[i].virtual_connected
                    /\ UNCHANGED <<usb, epoll_dirty>>
                 \/ /\ controllers'[i].device = p /\ controllers'[i].virtual_connected = TRUE
                    /\ controllers'[i].backend \in [Kinds -> Attempts]
                    /\ \A l \in Kinds :
                         <<controllers[i].address, controllers'[i].backend[l], l>> \in alive
                    /\ Port(p).live
                    /\ usb' = [usb EXCEPT ![p] = controllers[i].config.profile]
                    /\ epoll_dirty' = TRUE
                 \/ /\ controllers'[i] = Released(controllers[i])
                    /\ usb' = Disconnected({p}) /\ UNCHANGED epoll_dirty
<1> SUFFICES ASSUME NEW i \in DOMAIN controllers \ Bridging, NEW p \in Candidates(i),
                    NEW pending \in [Kinds -> Attempts \cup {None}],
                    Pend(i, p, pending) \/ Complete(i, p, pending) \/ CompleteFails(i, p, pending)
             PROVE  \/ UNCHANGED <<controllers, usb, epoll_dirty>>
                    \/ /\ DOMAIN controllers' = DOMAIN controllers
                       /\ \A j \in DOMAIN controllers \ {i} : controllers'[j] = controllers[j]
                       /\ controllers'[i] \in Runtimes
                       /\ controllers'[i].address = controllers[i].address
                       /\ controllers'[i].config = controllers[i].config
                       /\ \/ /\ controllers'[i].device = p /\ controllers'[i].backend = None
                             /\ controllers'[i].virtual_connected = controllers[i].virtual_connected
                             /\ UNCHANGED <<usb, epoll_dirty>>
                          \/ /\ controllers'[i].device = p /\ controllers'[i].virtual_connected = TRUE
                             /\ controllers'[i].backend \in [Kinds -> Attempts]
                             /\ \A l \in Kinds :
                                  <<controllers[i].address, controllers'[i].backend[l], l>> \in alive
                             /\ Port(p).live
                             /\ usb' = [usb EXCEPT ![p] = controllers[i].config.profile]
                             /\ epoll_dirty' = TRUE
                          \/ /\ controllers'[i] = Released(controllers[i])
                             /\ usb' = Disconnected({p}) /\ UNCHANGED epoll_dirty
  BY AcceptStep
<1>1. controllers[i] \in Runtimes /\ p \in Paths
  BY PortFact DEF TypeOK, Candidates
<1>2. CASE Pend(i, p, pending)
  <2> DEFINE c == [controllers[i] EXCEPT !.device = p, !.pending = pending]
  <2>1. /\ c \in Runtimes /\ c.address = controllers[i].address /\ c.device = p
        /\ c.config = controllers[i].config /\ c.backend = controllers[i].backend
        /\ c.virtual_connected = controllers[i].virtual_connected
    BY <1>1 DEF Runtimes
  <2>2. controllers' = [controllers EXCEPT ![i] = c]
    BY <1>2 DEF Pend, TypeOK
  <2>3. controllers[i].backend = None
    BY DEF Bridging
  <2> HIDE DEF c
  <2> QED
    BY <1>2, <2>1, <2>2, <2>3 DEF Pend, TypeOK
<1>3. CASE Complete(i, p, pending)
  <2> DEFINE c == [controllers[i] EXCEPT !.device = p, !.pending = NoChannels,
                                         !.backend = pending, !.virtual_connected = TRUE]
  <2>1. pending \in [Kinds -> Attempts]
    BY <1>3 DEF Complete
  <2>2. /\ c \in Runtimes /\ c.address = controllers[i].address /\ c.device = p
        /\ c.config = controllers[i].config /\ c.backend = pending
        /\ c.virtual_connected = TRUE
    BY <1>1, <2>1, NoChannelsType DEF Runtimes
  <2>3. controllers' = [controllers EXCEPT ![i] = c]
    BY <1>3 DEF Complete, TypeOK
  <2>4. /\ \A l \in Kinds : <<controllers[i].address, pending[l], l>> \in alive
        /\ Port(p).live /\ epoll_dirty' = TRUE
        /\ usb' = [usb EXCEPT ![p] = controllers[i].config.profile]
    BY <1>3 DEF Complete, Answers
  <2> HIDE DEF c
  <2> QED
    BY <2>1, <2>2, <2>3, <2>4 DEF TypeOK
<1>4. CASE CompleteFails(i, p, pending)
  <2>1. Released(controllers[i]) \in Runtimes
    BY <1>1, ReleasedType
  <2>2. /\ Released(controllers[i]).address = controllers[i].address
        /\ Released(controllers[i]).config = controllers[i].config
    BY DEF Released, Runtime
  <2> QED
    BY <1>4, <2>1, <2>2 DEF CompleteFails, TypeOK
<1> QED
  BY <1>2, <1>3, <1>4

LEMMA NextConnection ==
  ASSUME TypeOK, LatestAlive, OneConnection, [Next]_vars
  PROVE  OneConnection'
<1>1. CASE Exit
  BY <1>1 DEF Exit, OneConnection, Bridging
<1>2. CASE Fading
  BY <1>2, FadingFacts DEF Fading, OneConnection, Bridging
<1>3. CASE Reload
  <2>1. controllers' = Reconciled /\ DOMAIN Reconciled = DOMAIN file
    BY <1>3, ReconciledType DEF Reload
  <2>2. ASSUME NEW i \in DOMAIN file, Reconciled[i].backend # None
        PROVE  Reconciled[i].backend["control"] = Reconciled[i].backend["interrupt"]
    <3>1. Runtime(file[i].address, file[i].config).backend = None
      BY DEF Runtime
    <3> QED
      BY <2>2, <3>1, ReloadStep DEF OneConnection, Bridging
  <2> QED
    BY <2>1, <2>2 DEF OneConnection, Bridging
<1>4. ASSUME NEW k \in Kinds, Accept(k) PROVE OneConnection'
  <2>1. CASE UNCHANGED controllers
    BY <2>1 DEF OneConnection, Bridging
  <2>2. ASSUME NEW i \in DOMAIN controllers \ Bridging,
               DOMAIN controllers' = DOMAIN controllers,
               \A j \in DOMAIN controllers \ {i} : controllers'[j] = controllers[j],
               \/ controllers'[i].backend = None
               \/ \A l \in Kinds :
                    <<controllers[i].address, controllers'[i].backend[l], l>> \in alive
        PROVE  OneConnection'
    <3>1. (\A l \in Kinds :
             <<controllers[i].address, controllers'[i].backend[l], l>> \in alive)
          => controllers'[i].backend["control"] = controllers'[i].backend["interrupt"]
      BY DEF Kinds, LatestAlive
    <3> QED
      BY <2>2, <3>1 DEF OneConnection, Bridging
  <2>3. \A c : Released(c).backend = None
    BY DEF Released, Runtime
  <2> QED
    BY <1>4, <2>1, <2>2, <2>3, AcceptEffect
<1>5. CASE Rebuild \/ Quiet \/ \E p \in Paths : RemoveNode(p)
  BY <1>5 DEF Rebuild, Quiet, RemoveNode, OneConnection, Bridging
<1> QED
  BY <1>1, <1>2, <1>3, <1>4, <1>5, StepKinds, RefusedFades, DroppingFades

(* The channels of a bridge are of one connection of its controller, though *)
(* they are paired by address only and half-open pairs wait for ever.       *)
THEOREM BridgesJoinOneConnection == Spec => []OneConnection
<1>1. Init => LatestAlive /\ OneConnection
  BY DEF Init, LatestAlive, OneConnection, Bridging
<1>2. TypeOK /\ LatestAlive /\ OneConnection /\ [Next]_vars => LatestAlive' /\ OneConnection'
  BY NextLatest, NextConnection
<1> QED
  BY <1>1, <1>2, DaemonTypes, PTL DEF Spec
-----------------------------------------------------------------------------
(* Controllers, ports and flags.                                            *)

LEMMA NextOnce ==
  ASSUME TypeOK, AddressesOnce, ControllersOnce, [Next]_vars
  PROVE  ControllersOnce'
<1>1. CASE Exit
  BY <1>1 DEF Exit, ControllersOnce
<1>2. CASE Fading
  BY <1>2, FadingFacts DEF Fading, ControllersOnce
<1>3. CASE Reload
  <2>1. controllers' = Reconciled /\ DOMAIN Reconciled = DOMAIN file
    BY <1>3, ReconciledType DEF Reload
  <2>2. \A i \in DOMAIN file : Reconciled[i].address = file[i].address
    BY ReloadStep
  <2> QED
    BY <2>1, <2>2 DEF ControllersOnce, AddressesOnce
<1>4. ASSUME NEW k \in Kinds, Accept(k) PROVE ControllersOnce'
  <2>1. /\ DOMAIN controllers' = DOMAIN controllers
        /\ \A i \in DOMAIN controllers : controllers'[i].address = controllers[i].address
    BY <1>4, AcceptEffect
  <2> QED
    BY <2>1 DEF ControllersOnce
<1>5. CASE Rebuild \/ Quiet \/ \E p \in Paths : RemoveNode(p)
  BY <1>5 DEF Rebuild, Quiet, RemoveNode, ControllersOnce
<1> QED
  BY <1>1, <1>2, <1>3, <1>4, <1>5, StepKinds, RefusedFades, DroppingFades

(* Every candidate port is there and allowed.                               *)
LEMMA CandidateFacts ==
  ASSUME TypeOK, HoldsPort, NEW i \in DOMAIN controllers, NEW p \in Candidates(i)
  PROVE  /\ p \in Named /\ p \in Paths /\ p # None /\ Port(p).path = p
         /\ Allows(controllers[i].config, p)
         /\ \A j \in DOMAIN controllers \ {i} : Uses(controllers[j]) => controllers[j].device # p
<1>1. p \in Named \ Occupied(i)
  BY DEF Candidates
<1>2. p \in Paths /\ p # None /\ Port(p).path = p
  BY <1>1, PortFact DEF Named
<1>3. Allows(controllers[i].config, p)
  BY <1>2 DEF Candidates, HoldsPort
<1> QED
  BY <1>1, <1>2, <1>3 DEF Occupied, DevicesOf

PortHeld(c) ==
  /\ Uses(c) => c.device # None
  /\ c.device # None => Allows(c.config, c.device)
  /\ c.virtual_connected <=> c.backend # None

LEMMA NextHolds ==
  ASSUME TypeOK, HoldsPort, [Next]_vars
  PROVE  HoldsPort'
<1>0. \A i \in DOMAIN controllers : PortHeld(controllers[i])
  BY DEF HoldsPort, PortHeld
<1>00. (\A i \in DOMAIN controllers' : PortHeld(controllers'[i])) => HoldsPort'
  BY DEF HoldsPort, PortHeld, Uses, Allows
<1>1. CASE Exit
  BY <1>00, <1>1 DEF Exit
<1>2. CASE Fading
  <2>1. ASSUME NEW i \in DOMAIN controllers PROVE PortHeld(controllers'[i])
    <3>1. /\ controllers[i] \in Runtimes /\ controllers'[i] \in Runtimes
          /\ PortHeld(controllers[i])
      BY <1>0, <1>2, NextType DEF TypeOK, Fading
    <3> QED
      BY <1>2, <3>1, FadingFacts DEF PortHeld, Runtimes
  <2> QED
    BY <1>00, <1>2, <2>1 DEF Fading
<1>3. CASE Reload
  <2>1. ASSUME NEW i \in DOMAIN file PROVE PortHeld(Reconciled[i])
    <3>1. file[i] \in ConfigEntries
      BY DEF TypeOK
    <3>2. PortHeld(Runtime(file[i].address, file[i].config))
      BY <3>1, RuntimeType DEF PortHeld, Runtime
    <3> QED
      BY <1>0, <3>2, ReloadStep DEF PortHeld, CarriedOver
  <2> QED
    BY <1>00, <1>3, <2>1, ReconciledType DEF Reload
<1>4. ASSUME NEW k \in Kinds, Accept(k) PROVE HoldsPort'
  <2>1. CASE UNCHANGED controllers
    BY <1>0, <1>00, <2>1
  <2>2. ASSUME NEW i \in DOMAIN controllers \ Bridging, NEW p \in Candidates(i),
               DOMAIN controllers' = DOMAIN controllers,
               \A j \in DOMAIN controllers \ {i} : controllers'[j] = controllers[j],
               controllers'[i].config = controllers[i].config,
               \/ /\ controllers'[i].device = p /\ controllers'[i].backend = None
                  /\ controllers'[i].virtual_connected = controllers[i].virtual_connected
               \/ /\ controllers'[i].device = p /\ controllers'[i].virtual_connected = TRUE
                  /\ controllers'[i].backend \in [Kinds -> Attempts]
               \/ controllers'[i] = Released(controllers[i])
        PROVE  HoldsPort'
    <3>1. controllers[i].backend = None /\ ~controllers[i].virtual_connected
      BY <1>0 DEF Bridging, PortHeld
    <3>2. controllers[i] \in Runtimes
      BY DEF TypeOK
    <3>3. PortHeld(Released(controllers[i]))
      BY <3>2, ReleasedType DEF PortHeld, Released, Runtime
    <3>4. PortHeld(controllers'[i])
      BY <2>2, <3>1, <3>3, CandidateFacts, NoneApart DEF PortHeld
    <3> QED
      BY <1>0, <1>00, <2>2, <3>4
  <2> QED
    BY <1>4, <2>1, <2>2, AcceptEffect
<1>5. CASE Rebuild \/ Quiet \/ \E p \in Paths : RemoveNode(p)
  BY <1>0, <1>00, <1>5 DEF Rebuild, Quiet, RemoveNode
<1> QED
  BY <1>1, <1>2, <1>3, <1>4, <1>5, StepKinds, RefusedFades, DroppingFades

LEMMA NextLoaded ==
  ASSUME TypeOK, FileLoaded, [Next]_vars
  PROVE  FileLoaded'
<1> DEFINE Served == [i \in DOMAIN controllers |->
                        Entry(controllers[i].address, controllers[i].config)]
<1>1. CASE Exit \/ Refused
  BY <1>1 DEF Exit, Refused, ReloadFailsToLoad, ReloadFailsToOpen, FileLoaded
<1>2. CASE Reload
  <2>1. file' = file /\ controllers' = Reconciled /\ DOMAIN Reconciled = DOMAIN file
    BY <1>2, ReconciledType DEF Reload, Reloading
  <2>2. \A i \in DOMAIN file : Entry(file[i].address, file[i].config) = file[i]
    <3>1. \A e \in ConfigEntries : Entry(e.address, e.config) = e
      BY DEF ConfigEntries, Entry
    <3>2. \A i \in DOMAIN file : file[i] \in ConfigEntries
      BY DEF TypeOK
    <3> QED
      BY <3>1, <3>2
  <2>3. \A i \in DOMAIN file : Entry(Reconciled[i].address, Reconciled[i].config) = file[i]
    BY <2>2, ReloadStep
  <2>4. file = [i \in DOMAIN file |-> file[i]]
    BY DEF TypeOK
  <2>5. Served' = file
    BY <2>1, <2>3, <2>4
  <2> QED
    BY <2>1, <2>5 DEF FileLoaded
<1>3. ASSUME DOMAIN controllers' = DOMAIN controllers,
             \A i \in DOMAIN controllers : /\ controllers'[i].address = controllers[i].address
                                           /\ controllers'[i].config = controllers[i].config,
             UNCHANGED reload_failed, reload_requested => reload_requested',
             UNCHANGED file \/ reload_requested'
      PROVE  FileLoaded'
  <2>1. Served' = Served
    BY <1>3
  <2> HIDE DEF Served
  <2>2. FileLoaded <=> reload_requested \/ reload_failed \/ file = Served
    BY DEF FileLoaded, Served
  <2>3. (reload_requested \/ reload_failed \/ file = Served)' => FileLoaded'
    BY DEF FileLoaded, Served
  <2> QED
    BY <1>3, <2>1, <2>2, <2>3
<1> HIDE DEF Served
<1>4. CASE Dropping
  <2>1. UNCHANGED <<file, reload_requested, reload_failed>>
    BY <1>4 DEF Dropping, EndRound, FramesFail, HandleChannel
  <2>2. Fading
    BY <1>4, DroppingFades
  <2> QED
    BY <1>3, <2>1, <2>2, FadingFacts DEF Fading
<1>5. ASSUME NEW k \in Kinds, Accept(k) PROVE FileLoaded'
  <2>1. UNCHANGED <<file, reload_requested, reload_failed>>
    BY <1>5 DEF Accept
  <2>2. /\ DOMAIN controllers' = DOMAIN controllers
        /\ \A i \in DOMAIN controllers : /\ controllers'[i].address = controllers[i].address
                                         /\ controllers'[i].config = controllers[i].config
    BY <1>5, AcceptEffect
  <2> QED
    BY <1>3, <2>1, <2>2
<1>6. CASE Rebuild \/ Quiet \/ \E p \in Paths : RemoveNode(p)
  BY <1>3, <1>6 DEF Rebuild, Quiet, RemoveNode, flagVars
<1> QED
  BY <1>1, <1>2, <1>4, <1>5, <1>6, StepKinds

(* A node that goes takes its port's life, and nothing else of the ports.   *)
LEMMA RemovedNode ==
  ASSUME TypeOK, NEW p \in Paths, RemoveNode(p)
  PROVE  /\ DOMAIN ports' = DOMAIN ports /\ Named' = Named
         /\ \A i \in DOMAIN ports :
              /\ ports'[i].path = ports[i].path
              /\ ports'[i].live => ports[i].live /\ ports[i].path # p
              /\ ports[i].path # p => ports'[i] = ports[i]
<1>1. \A v \in VirtualPorts : /\ [v EXCEPT !.live = FALSE].path = v.path
                              /\ [v EXCEPT !.live = FALSE].live = FALSE
  BY DEF VirtualPorts
<1>2. \A i \in DOMAIN ports :
        ports[i] \in VirtualPorts
        /\ ports'[i] = IF ports[i].path = p THEN [ports[i] EXCEPT !.live = FALSE] ELSE ports[i]
  BY DEF RemoveNode, TypeOK
<1>3. DOMAIN ports' = DOMAIN ports
  BY DEF RemoveNode
<1>4. \A i \in DOMAIN ports :
        /\ ports'[i].path = ports[i].path
        /\ ports'[i].live => ports[i].live /\ ports[i].path # p
        /\ ports[i].path # p => ports'[i] = ports[i]
  BY <1>1, <1>2
<1> QED
  BY <1>3, <1>4 DEF Named, Entries

LEMMA NextLoop == 
  ASSUME TypeOK, LoopInv, [Next]_vars
  PROVE  LoopInv'
<1>1. CASE Exit
  BY <1>1 DEF Exit, LoopInv
<1>2. CASE Reload \/ Refused
  BY <1>2 DEF Reload, Refused, ReloadFailsToLoad, ReloadFailsToOpen, Reloading, LoopInv
<1>3. CASE Rebuild
  BY <1>3 DEF Rebuild, LoopInv
<1>4. CASE EndRound
  <2>1. PICK is : Release(is) /\ \A i \in Bridging : controllers[i].device \notin Named => i \in is
    BY <1>4 DEF EndRound, Flush
  <2>2. pc' = "head" /\ Named' = Named
    BY <1>4 DEF EndRound, Named, Entries
  <2>3. ASSUME NEW i \in Bridging' PROVE controllers'[i].device \in Named
    <3>0. i \in DOMAIN controllers /\ controllers'[i].backend # None
      BY <2>1, ReleaseFades DEF Fading, Bridging
    <3>1. controllers'[i] = controllers[i] /\ i \in Bridging
      BY <2>1, <3>0, ReleaseFades, FadingFacts DEF Bridging
    <3>2. i \notin is
      <4>1. Released(controllers[i]).backend = None
        BY DEF Released, Runtime
      <4> QED
        BY <2>1, <3>0, <4>1, ReleaseFades
    <3> QED
      BY <2>1, <3>1, <3>2
  <2> QED
    BY <2>2, <2>3 DEF LoopInv
<1>5. CASE \/ \E p \in Paths : FramesFail(p)
           \/ \E k \in Kinds, i \in 1..Cardinality(Addrs) : HandleChannel(k, i)
           \/ \E k \in Kinds : Accept(k)
  <2>1. ASSUME NEW p \in Paths, FramesFail(p) PROVE pc = "events" /\ pc' = pc
    BY <2>1 DEF FramesFail
  <2>2. ASSUME NEW k \in Kinds, NEW i, HandleChannel(k, i) PROVE pc = "events" /\ pc' = pc
    BY <2>2 DEF HandleChannel, Handle
  <2>3. ASSUME NEW k \in Kinds, Accept(k)
        PROVE  pc \in {"accept_control", "accept_interrupt"} /\ pc' = pc
    BY <2>3 DEF Accept, Accepting, Kinds
  <2>4. pc' \notin {"wait", "exit", "head"}
    BY <1>5, <2>1, <2>2, <2>3
  <2> QED
    BY <2>4 DEF LoopInv
<1>6. CASE Quiet
  BY <1>6 DEF Quiet, flagVars, LoopInv, Bridging, Named, Entries
<1>7. ASSUME NEW p \in Paths, RemoveNode(p) PROVE LoopInv'
  BY <1>7, RemovedNode DEF RemoveNode, flagVars, LoopInv, Bridging
<1> QED
  BY <1>1, <1>2, <1>3, <1>4, <1>5, <1>6, <1>7, StepKinds DEF Dropping
-----------------------------------------------------------------------------
(* What is registered.  Whatever changes the list of backends or of ports   *)
(* marks the epoll set dirty, a failed reload excepted.                     *)

(* The registrations of channels.                                           *)
OfChannels == {r \in epoll : r.type \in Kinds}

LEMMA ChannelsKept ==
  ASSUME ChannelsRegistered, epoll_dirty => epoll_dirty', OfChannels' = OfChannels,
         \A i \in Bridging' :
           /\ i \in Bridging /\ controllers'[i].address = controllers[i].address
           /\ controllers'[i].backend = controllers[i].backend
  PROVE  ChannelsRegistered'
<1>1. \A k \in Kinds : \A of :
        {r \in epoll' : r.type = k /\ r.of = of} = {r \in epoll : r.type = k /\ r.of = of}
  BY DEF OfChannels
<1>2. ASSUME NEW i \in Bridging', NEW k \in Kinds, ~epoll_dirty
      PROVE  Places(k, <<controllers[i].address, controllers[i].backend[k]>>)' = {i}
  <2>1. Places(k, <<controllers[i].address, controllers[i].backend[k]>>) = {i}
    BY <1>2 DEF ChannelsRegistered
  <2>2. <<controllers[i].address, controllers[i].backend[k]>>'
          = <<controllers[i].address, controllers[i].backend[k]>>
    BY <1>2
  <2> DEFINE of == <<controllers[i].address, controllers[i].backend[k]>>
  <2>3. {r.index : r \in {r \in epoll : r.type = k /\ r.of = of}} = {i}
    BY <2>1 DEF Places
  <2>4. of' = of
    BY <2>2
  <2> HIDE DEF of
  <2>5. {r.index : r \in {r \in epoll' : r.type = k /\ r.of = of}} = {i}
    BY <1>1, <2>3
  <2> QED
    BY <2>4, <2>5 DEF Places, of
<1> QED
  BY <1>2 DEF ChannelsRegistered

LEMMA ClosingPorts ==
  ASSUME NEW kept, ClosePorts(kept)
  PROVE  OfChannels' = OfChannels
BY DEF ClosePorts, OfChannels, Kinds

LEMMA FadingBridges ==
  ASSUME TypeOK, Fading
  PROVE  \A i \in Bridging' :
           /\ i \in Bridging /\ controllers'[i].address = controllers[i].address
           /\ controllers'[i].backend = controllers[i].backend
BY FadingFacts DEF Fading, Bridging

LEMMA RebuiltSet ==
  ASSUME TypeOK, ControllersOnce, Rebuild, epoll_dirty
  PROVE  /\ \A i \in Bridging, k \in Kinds :
              Places(k, <<controllers[i].address, controllers[i].backend[k]>>)' = {i}
         /\ PortsOnce => \A i \in DOMAIN ports : Places("port", ports[i].path)' = {i}
<1>1. epoll' = PortDescriptors \cup BackendChannels /\ AllOpen
  BY DEF Rebuild
<1>2. UNCHANGED <<controllers, ports>>
  BY DEF Rebuild
<1>3. ASSUME NEW i \in Bridging, NEW k \in Kinds
      PROVE  Places(k, <<controllers[i].address, controllers[i].backend[k]>>)' = {i}
  <2> DEFINE of == <<controllers[i].address, controllers[i].backend[k]>>
  <2>1. of' = of
    BY <1>2
  <2>2. k # "port"
    BY DEF Kinds
  <2>3. \A r \in epoll' : r.type = k /\ r.of = of => r.index = i
    <3>1. \A r \in PortDescriptors : r.type # k
      BY <2>2 DEF PortDescriptors
    <3>2. ASSUME NEW j \in Bridging, NEW l \in Kinds,
                 <<controllers[j].address, controllers[j].backend[l]>> = of
          PROVE  j = i
      BY <3>2 DEF ControllersOnce, Bridging
    <3>3. \A r \in BackendChannels : r.of = of => r.index = i
      BY <3>2 DEF BackendChannels
    <3> QED
      BY <1>1, <3>1, <3>3
  <2>4. [type |-> k, index |-> i, of |-> of] \in epoll'
    BY <1>1 DEF BackendChannels
  <2> HIDE DEF of
  <2>5. {r.index : r \in {r \in epoll' : r.type = k /\ r.of = of}} = {i}
    BY <2>3, <2>4
  <2> QED
    BY <2>1, <2>5 DEF Places, of
<1>4. ASSUME PortsOnce, NEW i \in DOMAIN ports
      PROVE  Places("port", ports[i].path)' = {i}
  <2> DEFINE of == ports[i].path
  <2>1. of' = of
    BY <1>2
  <2>2. \A r \in epoll' : r.type = "port" /\ r.of = of => r.index = i
    <3>1. \A r \in BackendChannels : r.type # "port"
      BY DEF BackendChannels, Kinds
    <3>2. \A r \in PortDescriptors : r.of = of => r.index = i
      BY <1>1, <1>4 DEF PortDescriptors, AllOpen, PortsOnce
    <3> QED
      BY <1>1, <3>1, <3>2
  <2>3. [type |-> "port", index |-> i, of |-> of] \in epoll'
    BY <1>1 DEF PortDescriptors
  <2> HIDE DEF of
  <2>4. {r.index : r \in {r \in epoll' : r.type = "port" /\ r.of = of}} = {i}
    BY <2>2, <2>3
  <2> QED
    BY <2>1, <2>4 DEF Places, of
<1> QED
  BY <1>3, <1>4

LEMMA NextChannels ==
  ASSUME TypeOK, ControllersOnce, ChannelsRegistered, [Next]_vars
  PROVE  ChannelsRegistered'
<1>1. CASE Exit \/ Reload
  BY <1>1 DEF Exit, Reload, Marked, ChannelsRegistered
<1>2. CASE Refused
  <2>1. OfChannels' = OfChannels /\ UNCHANGED epoll_dirty
    BY <1>2, ClosingPorts DEF Refused, ReloadFailsToLoad, ReloadFailsToOpen
  <2> QED
    BY <1>2, <2>1, RefusedFades, FadingBridges, ChannelsKept
<1>3. CASE Rebuild
  <2>1. CASE epoll_dirty
    BY <1>3, <2>1, RebuiltSet DEF Rebuild, ChannelsRegistered, Bridging
  <2>2. CASE ~epoll_dirty
    BY <1>3, <2>2 DEF Rebuild, ChannelsRegistered, Bridging, Places
  <2> QED
    BY <2>1, <2>2
<1>4. CASE Dropping
  <2>1. OfChannels' = OfChannels /\ (epoll_dirty => epoll_dirty')
    BY <1>4 DEF Dropping, EndRound, Flush, FramesFail, HandleChannel, OfChannels
  <2> QED
    BY <1>4, <2>1, DroppingFades, FadingBridges, ChannelsKept
<1>5. ASSUME NEW k \in Kinds, Accept(k) PROVE ChannelsRegistered'
  <2>1. OfChannels' = OfChannels
    BY <1>5 DEF Accept, OfChannels
  <2>2. CASE UNCHANGED <<controllers, epoll_dirty>>
    BY <2>1, <2>2, ChannelsKept DEF Bridging
  <2>3. CASE epoll_dirty'
    BY <2>3 DEF ChannelsRegistered
  <2>4. ASSUME NEW i \in DOMAIN controllers, DOMAIN controllers' = DOMAIN controllers,
               \A j \in DOMAIN controllers \ {i} : controllers'[j] = controllers[j],
               controllers'[i].backend = None, UNCHANGED epoll_dirty
        PROVE  ChannelsRegistered'
    BY <2>1, <2>4, ChannelsKept DEF Bridging
  <2>5. \A c : Released(c).backend = None
    BY DEF Released, Runtime
  <2> QED
    BY <1>5, <2>2, <2>3, <2>4, <2>5, AcceptEffect
<1>6. CASE Quiet \/ \E p \in Paths : RemoveNode(p)
  <2>1. OfChannels' = OfChannels /\ (epoll_dirty => epoll_dirty') /\ UNCHANGED controllers
    <3>1. Quiet => UNCHANGED <<epoll, controllers>> /\ (epoll_dirty => epoll_dirty')
      BY DEF Quiet
    <3>2. \A p \in Paths : RemoveNode(p) => UNCHANGED <<epoll, controllers, epoll_dirty>>
      BY DEF RemoveNode, flagVars
    <3> QED
      BY <1>6, <3>1, <3>2 DEF OfChannels
  <2> QED
    BY <2>1, ChannelsKept DEF Bridging
<1> QED
  BY <1>1, <1>2, <1>3, <1>4, <1>5, <1>6, StepKinds

(* Ports: strictly ascending nodes become ports once each.                  *)
LEMMA SyncedPath ==
  ASSUME TypeOK, NEW devices \in Devices
  PROVE  /\ DOMAIN Synced(devices) = DOMAIN devices
         /\ \A i \in DOMAIN devices :
              /\ devices[i] \in nodes /\ Synced(devices)[i].path = devices[i]
              /\ devices[i] \in Named => Synced(devices)[i] = Port(devices[i])
         /\ \A i, j \in DOMAIN devices : i # j => devices[i] # devices[j]
<1>1. \A i \in DOMAIN devices : devices[i] \in nodes /\ devices[i] \in Nat
  BY DaemonAssumption DEF Devices, TypeOK
<1>2. \A i \in DOMAIN devices :
        /\ Synced(devices)[i].path = devices[i]
        /\ devices[i] \in Named => Synced(devices)[i] = Port(devices[i])
  BY PortFact DEF Synced
<1>3. \A i, j \in DOMAIN devices : i # j => devices[i] # devices[j]
  <2>1. DOMAIN devices \subseteq Int
    BY DEF Devices
  <2>2. \A i, j \in DOMAIN devices : i < j => devices[i] < devices[j]
    BY DEF Devices
  <2> QED
    BY <1>1, <2>1, <2>2
<1>4. DOMAIN Synced(devices) = DOMAIN devices
  BY DEF Synced
<1> QED
  BY <1>1, <1>2, <1>3, <1>4

LEMMA HalfSyncedPath ==
  ASSUME NEW d
  PROVE  /\ DOMAIN HalfSynced(d) = DOMAIN ports
         /\ \A i \in DOMAIN ports :
              /\ ports[i].path \in MovedBefore(d) =>
                   HalfSynced(d)[i].path = None /\ HalfSynced(d)[i].live = FALSE
              /\ ports[i].path \notin MovedBefore(d) => HalfSynced(d)[i] = ports[i]
BY DEF HalfSynced

LEMMA NextPortsOnce ==
  ASSUME TypeOK, PortsOnce, [Next]_vars
  PROVE  PortsOnce'
<1>1. CASE Exit
  BY <1>1 DEF Exit, PortsOnce
<1>2. ASSUME NEW devices \in Devices, ports' = Synced(devices) PROVE PortsOnce'
  BY <1>2, SyncedPath DEF PortsOnce
<1>3. ASSUME NEW d \in Paths, ports' = HalfSynced(d) PROVE PortsOnce'
  <2>1. /\ DOMAIN ports' = DOMAIN ports
        /\ \A i \in DOMAIN ports : ports'[i].path \in {ports[i].path, None}
    BY <1>3, HalfSyncedPath
  <2> QED
    BY <2>1 DEF PortsOnce
<1>4. CASE Reload \/ Refused
  BY <1>2, <1>3, <1>4 DEF Reload, Refused, ReloadFailsToLoad, ReloadFailsToOpen
<1>5. CASE UNCHANGED ports
  BY <1>5 DEF PortsOnce
<1>6. CASE \E p \in Paths : RemoveNode(p)
  BY <1>6, RemovedNode DEF PortsOnce
<1>7. CASE Rebuild \/ Dropping \/ Quiet \/ \E k \in Kinds : Accept(k)
  BY <1>5, <1>7 DEF Rebuild, Dropping, EndRound, FramesFail, HandleChannel, Quiet, Accept
<1> QED
  BY <1>1, <1>4, <1>6, <1>7, StepKinds

LEMMA NextPortsRegistered ==
  ASSUME TypeOK, ControllersOnce, PortsOnce, PortsRegistered, [Next]_vars
  PROVE  PortsRegistered'
<1>1. CASE Exit \/ Reload \/ Refused
  BY <1>1 DEF Exit, Reload, Refused, ReloadFailsToLoad, ReloadFailsToOpen, Marked,
              PortsRegistered
<1>2. CASE Rebuild
  <2>1. CASE epoll_dirty
    BY <1>2, <2>1, RebuiltSet DEF Rebuild, PortsRegistered
  <2>2. CASE ~epoll_dirty
    BY <1>2, <2>2 DEF Rebuild, PortsRegistered, Places
  <2> QED
    BY <2>1, <2>2
<1>3. ASSUME UNCHANGED <<epoll, reload_failed>>, epoll_dirty => epoll_dirty',
             DOMAIN ports' = DOMAIN ports,
             \A i \in DOMAIN ports : ports'[i].path = ports[i].path
      PROVE  PortsRegistered'
  BY <1>3 DEF PortsRegistered, Places
<1>4. CASE Dropping
  BY <1>3, <1>4 DEF Dropping, EndRound, Flush, FramesFail, HandleChannel
<1>5. ASSUME NEW k \in Kinds, Accept(k) PROVE PortsRegistered'
  <2>1. UNCHANGED <<ports, epoll, reload_failed>> /\ (epoll_dirty => epoll_dirty')
    BY <1>5, AcceptEffect DEF Accept
  <2> QED
    BY <1>3, <2>1
<1>6. CASE Quiet
  BY <1>3, <1>6 DEF Quiet
<1>7. CASE \E p \in Paths : RemoveNode(p)
  BY <1>3, <1>7, RemovedNode DEF RemoveNode, flagVars
<1> QED
  BY <1>1, <1>2, <1>4, <1>5, <1>6, <1>7, StepKinds
-----------------------------------------------------------------------------
(* What the host sees.                                                      *)

(* Every node that is there has its port after a reload.                    *)
LEMMA SyncedAll ==
  ASSUME TypeOK, NEW devices \in Devices, NEW p \in nodes
  PROVE  \E i \in DOMAIN devices : devices[i] = p
<1>1. IsFiniteSet(nodes)
  BY DaemonAssumption, FS_Subset DEF TypeOK
<1>2. Cardinality(nodes) \in Nat
  BY <1>1, FS_CardinalityType
<1>3. devices \in [1..Cardinality(nodes) -> nodes]
  BY DEF Devices
<1>4. \A i, j \in 1..Cardinality(nodes) : i # j => devices[i] # devices[j]
  BY <1>3, SyncedPath
<1>5. devices \in Injection(1..Cardinality(nodes), nodes)
  BY <1>3, <1>4 DEF Injection, IsInjective
<1>6. Cardinality(1..Cardinality(nodes)) = Cardinality(nodes)
  BY <1>2, FS_Interval
<1>7. devices \in Surjection(1..Cardinality(nodes), nodes)
  BY <1>1, <1>5, <1>6, FS_Injection
<1> QED
  BY <1>3, <1>7 DEF Surjection

LEMMA NextLive ==
  ASSUME TypeOK, LiveThere, [Next]_vars
  PROVE  LiveThere'
<1>1. CASE Exit
  BY <1>1 DEF Exit, LiveThere
<1>2. ASSUME NEW devices \in Devices, ports' = Synced(devices), UNCHANGED nodes
      PROVE  LiveThere'
  BY <1>2, SyncedPath DEF LiveThere
<1>3. ASSUME NEW d \in Paths, ports' = HalfSynced(d), UNCHANGED nodes PROVE LiveThere'
  BY <1>3, HalfSyncedPath DEF LiveThere
<1>4. CASE Reload \/ Refused
  BY <1>2, <1>3, <1>4
  DEF Reload, Refused, ReloadFailsToLoad, ReloadFailsToOpen, Reloading, nodeVars
<1>5. ASSUME UNCHANGED ports, nodes \subseteq nodes' PROVE LiveThere'
  BY <1>5 DEF LiveThere
<1>6. ASSUME NEW p \in Paths, RemoveNode(p) PROVE LiveThere'
  BY <1>6, RemovedNode DEF LiveThere, RemoveNode
<1>7. CASE Rebuild \/ Dropping \/ \E k \in Kinds : Accept(k)
  BY <1>5, <1>7 DEF Rebuild, Dropping, EndRound, FramesFail, HandleChannel, Accept, nodeVars
<1>8. CASE Quiet
  BY <1>5, <1>8 DEF Quiet
<1> QED
  BY <1>1, <1>4, <1>6, <1>7, <1>8, StepKinds

(* A port that is there and live, by its node.                              *)
LivePort(p) == \E i \in DOMAIN ports : ports[i].path = p /\ ports[i].live

LEMMA NamedLive ==
  ASSUME TypeOK, PortsOnce, NEW p, p # None
  PROVE  p \in Named /\ Port(p).live <=> LivePort(p)
<1>1. ASSUME p \in Named PROVE PortIndex(p) \in DOMAIN ports /\ ports[PortIndex(p)].path = p
  BY <1>1, PortFact DEF Port
<1>2. ASSUME NEW i \in DOMAIN ports, ports[i].path = p PROVE p \in Named /\ PortIndex(p) = i
  <2>1. p \in Named
    BY <1>2 DEF Named, Entries
  <2> QED
    BY <1>1, <1>2, <2>1 DEF PortsOnce
<1> QED
  BY <1>1, <1>2 DEF LivePort, Port

LEMMA LiveOnes ==
  TypeOK /\ PortsOnce => \A p \in Paths : p \in Named /\ Port(p).live <=> LivePort(p)
BY NamedLive, NoneApart

(* The ports that are live after a step were so before, but for a reload.   *)
LEMMA LiveBefore ==
  ASSUME TypeOK, PortsOnce, LiveThere, [Next]_vars, NEW p \in Paths
  PROVE  /\ LivePort(p)' => LivePort(p) \/ (p \notin Named /\ (Reload \/ ReloadFailsToLoad))
         /\ LivePort(p) => \/ LivePort(p)' \/ Exit \/ RemoveNode(p)
                           \/ \E d \in Paths : ReloadFailsToOpen(d) /\ p \in MovedBefore(d)
<1>0. p # None
  BY NoneApart
<1>1. CASE Exit
  BY <1>1 DEF Exit, LivePort
<1>2. CASE UNCHANGED ports
  BY <1>2 DEF LivePort
<1>3. CASE Reload \/ ReloadFailsToLoad
  <2>1. PICK devices \in Devices : ports' = Synced(devices)
    BY <1>3 DEF Reload, ReloadFailsToLoad
  <2>2. LivePort(p) => p \in nodes /\ p \in Named
    BY <1>0, NamedLive DEF LivePort, LiveThere
  <2>3. ASSUME NEW i \in DOMAIN devices, devices[i] = p, p \in Named
        PROVE  ports'[i] = Port(p) /\ Port(p).path = p
    BY <2>1, <2>3, SyncedPath, PortFact
  <2>4. LivePort(p) => LivePort(p)'
    BY <1>0, <2>1, <2>2, <2>3, NamedLive, SyncedAll, SyncedPath DEF LivePort
  <2>5. LivePort(p)' /\ p \in Named => LivePort(p)
    BY <1>0, <2>1, <2>3, NamedLive, SyncedPath DEF LivePort
  <2> QED
    BY <1>3, <2>4, <2>5
<1>4. ASSUME NEW d \in Paths, ReloadFailsToOpen(d)
      PROVE  /\ LivePort(p)' => LivePort(p)
             /\ LivePort(p) => LivePort(p)' \/ p \in MovedBefore(d)
  BY <1>0, <1>4, HalfSyncedPath DEF ReloadFailsToOpen, LivePort
<1>5. ASSUME NEW q \in Paths, RemoveNode(q)
      PROVE  /\ LivePort(p)' => LivePort(p)
             /\ LivePort(p) => LivePort(p)' \/ p = q
  BY <1>5, RemovedNode DEF LivePort
<1>6. CASE Rebuild \/ Dropping \/ Quiet \/ \E k \in Kinds : Accept(k)
  BY <1>2, <1>6 DEF Rebuild, Dropping, EndRound, FramesFail, HandleChannel, Quiet, Accept
<1> QED
  BY <1>1, <1>3, <1>4, <1>5, <1>6, StepKinds DEF Refused

(* The host sees a new device only where an accept connects one.            *)
LEMMA SeenBefore ==
  ASSUME TypeOK, [Next]_vars, NEW p \in Paths
  PROVE  \/ usb'[p] \in {usb[p], None}
         \/ \E k \in Kinds : Accept(k) /\ p \in Named /\ Port(p).live
<1>1. \A ps : Disconnected(ps)[p] \in {usb[p], None}
  BY DEF Disconnected
<1>2. CASE Exit
  BY <1>2 DEF Exit
<1>3. CASE Reload \/ Refused
  BY <1>1, <1>3 DEF Reload, Refused, ReloadFailsToLoad, ReloadFailsToOpen
<1>4. CASE Dropping
  BY <1>1, <1>4 DEF Dropping, EndRound, Flush, FramesFail, HandleChannel, Drop
<1>5. ASSUME NEW k \in Kinds, Accept(k)
      PROVE  usb'[p] \in {usb[p], None} \/ (p \in Named /\ Port(p).live)
  <2>1. ASSUME NEW q \in Named, Port(q).live, NEW v, usb' = [usb EXCEPT ![q] = v]
        PROVE  usb'[p] = usb[p] \/ (p \in Named /\ Port(p).live)
    BY <2>1 DEF TypeOK
  <2>2. \A i : Candidates(i) \subseteq Named
    BY DEF Candidates
  <2>3. \/ UNCHANGED usb
        \/ \E q \in Named : \/ usb' = Disconnected({q})
                            \/ Port(q).live /\ \E v : usb' = [usb EXCEPT ![q] = v]
    <3>1. CASE UNCHANGED <<controllers, usb, epoll_dirty>>
      BY <3>1
    <3>2. ASSUME NEW i, NEW q \in Candidates(i),
                 \/ UNCHANGED usb
                 \/ usb' = Disconnected({q})
                 \/ Port(q).live /\ usb' = [usb EXCEPT ![q] = controllers[i].config.profile]
          PROVE  \/ UNCHANGED usb
                 \/ \E r \in Named : \/ usb' = Disconnected({r})
                                     \/ Port(r).live /\ \E v : usb' = [usb EXCEPT ![r] = v]
      BY <2>2, <3>2
    <3> QED
      BY <1>5, <3>1, <3>2, AcceptEffect
  <2> QED
    BY <1>1, <2>1, <2>3
<1>6. CASE Rebuild \/ Quiet \/ \E q \in Paths : RemoveNode(q)
  BY <1>1, <1>6 DEF Rebuild, Quiet, RemoveNode
<1> QED
  BY <1>2, <1>3, <1>4, <1>5, <1>6, StepKinds

LEMMA NextSeen ==
  ASSUME TypeOK, PortsOnce, LiveThere, SeenLive, [Next]_vars
  PROVE  SeenLive'
<1>1. \A p \in Paths : p # None
  BY NoneApart
<1>2. TypeOK' /\ PortsOnce'
  BY NextType, NextPortsOnce
<1>3. ASSUME NEW p \in Paths, usb'[p] # None PROVE LivePort(p)'
  <2>1. LivePort(p)
    BY <1>1, <1>3, SeenBefore, NamedLive DEF SeenLive
  <2>2. ~Exit
    BY <1>3 DEF Exit
  <2>3. ~RemoveNode(p)
    BY <1>3 DEF RemoveNode, Disconnected
  <2>4. \A d \in Paths : ReloadFailsToOpen(d) => p \notin MovedBefore(d)
    BY <1>3 DEF ReloadFailsToOpen, Disconnected
  <2> QED
    BY <2>1, <2>2, <2>3, <2>4, LiveBefore
<1>4. (\A p \in Paths : p \in Named /\ Port(p).live <=> LivePort(p))'
  BY <1>2, LiveOnes, PTL
<1> QED
  BY <1>3, <1>4 DEF SeenLive
-----------------------------------------------------------------------------
(* A device that the host sees before and after a step is the same          *)
(* controller's before and after.                                           *)

HostInv ==
  /\ TypeOK /\ AddressesOnce /\ PortsExclusive
  /\ ControllersOnce /\ HoldsPort /\ PortsOnce /\ LiveThere /\ SeenLive /\ LoopInv
  /\ KernelAgrees

LEMMA BridgingFacts ==
  ASSUME HostInv, NEW i \in DOMAIN controllers
  PROVE  /\ i \in Bridging <=> controllers[i].virtual_connected
         /\ i \in Bridging => Uses(controllers[i])
         /\ controllers[i] \in Runtimes
BY DEF HostInv, HoldsPort, Bridging, Uses, TypeOK

LEMMA SeenFacts ==
  ASSUME HostInv, NEW p \in Paths, usb[p] # None
  PROVE  p \in Named /\ Port(p).live /\ LivePort(p) /\ p \in nodes /\ p # None
<1>1. p # None
  BY NoneApart
<1>2. p \in Named /\ Port(p).live
  BY DEF HostInv, SeenLive
<1>3. LivePort(p)
  BY <1>1, <1>2, NamedLive DEF HostInv
<1> QED
  BY <1>1, <1>2, <1>3 DEF LivePort, LiveThere, HostInv

(* What the reload does with a controller bridged to a port the host sees.  *)
LEMMA CarriedBridge ==
  ASSUME HostInv, Reload, NEW i \in Bridging, controllers[i].device \in nodes,
         usb'[controllers[i].device] # None, controllers[i].device \in Paths
  PROVE  \E j \in DOMAIN file :
           /\ Reconciled[j].address = controllers[i].address
           /\ Reconciled[j].device = controllers[i].device
           /\ Reconciled[j].backend = controllers[i].backend
           /\ Reconciled[j].virtual_connected
           /\ Reconciled[j].config.profile = controllers[i].config.profile
<1> USE DEF HostInv
<1>1. i \in DOMAIN controllers /\ controllers[i].virtual_connected /\ Uses(controllers[i])
  BY BridgingFacts DEF Bridging
<1>2. Remaining[i] = controllers[i]
  BY <1>1, RemainingFades
<1>3. controllers[i] \in Entries(Remaining)
  BY <1>1, <1>2, RemainingType DEF Entries
<1>4. controllers[i] \notin Removed
  BY DEF Reload, Disconnected
<1>5. PICK j \in DOMAIN file : Keeps(controllers[i], file[j])
  BY <1>1, <1>3, <1>4 DEF Removed, Entries
<1>6. ASSUME NEW k \in DOMAIN controllers, Keeps(Remaining[k], file[j]) PROVE k = i
  BY <1>1, <1>5, <1>6, RemainingFades DEF Keeps, ControllersOnce
<1>7. Reconciled[j] # Runtime(file[j].address, file[j].config)
  <2>1. \E c \in Entries(Remaining) : Keeps(c, file[j])
    BY <1>3, <1>5
  <2> DEFINE c == CHOOSE c \in Entries(Remaining) : Keeps(c, file[j])
  <2>2. c \in Entries(Remaining) /\ Keeps(c, file[j])
    BY <2>1
  <2>3. Reconciled[j] = [c EXCEPT !.config = file[j].config]
    BY <2>1 DEF Reconciled
  <2>4. c = controllers[i]
    BY <1>2, <1>6, <2>2, RemainingType DEF Entries
  <2>5. Reconciled[j].virtual_connected
    <3>1. \A r \in Runtimes : \A f : [r EXCEPT !.config = f].virtual_connected = r.virtual_connected
      BY DEF Runtimes
    <3> HIDE DEF c
    <3> QED
      BY <1>1, <2>3, <2>4, <3>1, BridgingFacts
  <2> QED
    BY <2>5 DEF Runtime
<1>8. PICK k \in DOMAIN controllers :
        /\ CarriedOver(k, file[j])
        /\ Reconciled[j].device = controllers[k].device
        /\ Reconciled[j].backend = controllers[k].backend
        /\ Reconciled[j].virtual_connected = controllers[k].virtual_connected
  BY <1>7, ReloadStep
<1>9. k = i
  BY <1>1, <1>5, <1>8 DEF CarriedOver, Keeps, ControllersOnce
<1> QED
  BY <1>1, <1>5, <1>8, <1>9, ReloadStep DEF Keeps

LEMMA StaysBridged ==
  ASSUME HostInv, [Next]_vars, NEW p \in Paths, usb[p] # None, usb'[p] # None,
         NEW i \in Bridging, controllers[i].device = p
  PROVE  /\ usb'[p] = usb[p]
         /\ \E j \in Bridging' :
              /\ controllers'[j].address = controllers[i].address
              /\ controllers'[j].device = p /\ controllers'[j].virtual_connected
              /\ controllers'[j].config.profile = controllers[i].config.profile
<1> USE DEF HostInv
<1>1. /\ i \in DOMAIN controllers /\ controllers[i].virtual_connected
      /\ controllers[i].backend # None /\ Uses(controllers[i])
  BY BridgingFacts DEF Bridging
<1>2. p \in Named /\ p \in nodes /\ p # None
  BY SeenFacts
<1>3. \A ps : usb' = Disconnected(ps) => p \notin ps /\ usb'[p] = usb[p]
  BY DEF Disconnected
<1>4. ASSUME controllers'[i] = controllers[i], DOMAIN controllers' = DOMAIN controllers
      PROVE  \E j \in Bridging' :
              /\ controllers'[j].address = controllers[i].address
              /\ controllers'[j].device = p /\ controllers'[j].virtual_connected
              /\ controllers'[j].config.profile = controllers[i].config.profile
  BY <1>1, <1>4 DEF Bridging
<1>5. ~Exit
  BY DEF Exit
<1>6. CASE Reload
  <2>1. usb'[p] = usb[p] /\ controllers' = Reconciled
    BY <1>3, <1>6 DEF Reload
  <2> QED
    BY <1>1, <1>2, <1>6, <2>1, CarriedBridge, ReconciledType DEF Bridging
<1>7. CASE Refused
  <2>1. controllers'[i] = controllers[i] /\ DOMAIN controllers' = DOMAIN controllers
    BY <1>1, <1>2, <1>7, RefusedFades, RemainingFades DEF Fading
  <2>2. usb'[p] = usb[p]
    BY <1>3, <1>7 DEF Refused, ReloadFailsToLoad, ReloadFailsToOpen
  <2> QED
    BY <1>4, <2>1, <2>2
<1>8. ASSUME NEW is, NEW ps, Release(is), usb' = Disconnected(ps),
             \A j \in is : controllers[j].device \in ps \/ controllers[j].device \notin Named
      PROVE  /\ usb'[p] = usb[p] /\ controllers'[i] = controllers[i]
             /\ DOMAIN controllers' = DOMAIN controllers
  <2>1. i \notin is
    BY <1>2, <1>3, <1>8
  <2> QED
    BY <1>1, <1>3, <1>8, <2>1, ReleaseFades DEF Fading
<1>9. CASE EndRound
  <2>1. PICK lost, failed :
          /\ \A j \in lost : controllers[j].device \notin Named
          /\ Release(lost \cup failed) /\ usb' = Disconnected(DevicesOf(failed))
    BY <1>9 DEF EndRound, Flush
  <2>2. \A j \in lost \cup failed :
          controllers[j].device \in DevicesOf(failed) \/ controllers[j].device \notin Named
    BY <2>1 DEF DevicesOf
  <2> QED
    BY <1>4, <1>8, <2>1, <2>2
<1>10. ASSUME NEW j, Drop(j)
       PROVE  /\ usb'[p] = usb[p] /\ controllers'[i] = controllers[i]
              /\ DOMAIN controllers' = DOMAIN controllers
  BY <1>8, <1>10 DEF Drop, DevicesOf
<1>11. CASE \E q \in Paths : FramesFail(q)
  BY <1>4, <1>10, <1>11 DEF FramesFail
<1>12. ASSUME NEW k \in Kinds, NEW j, HandleChannel(k, j)
       PROVE  /\ usb'[p] = usb[p] /\ controllers'[i] = controllers[i]
              /\ DOMAIN controllers' = DOMAIN controllers
  <2>1. CASE j \in Bridging /\ controllers[j].device \in Named
    BY <1>10, <1>12, <2>1 DEF HandleChannel
  <2>2. CASE j \in Bridging /\ controllers[j].device \notin Named
    BY <1>1, <1>2, <1>12, <2>2 DEF HandleChannel
  <2>3. CASE j \notin Bridging
    BY <1>12, <2>3 DEF HandleChannel
  <2> QED
    BY <2>1, <2>2, <2>3
<1>13. CASE Dropping
  BY <1>4, <1>9, <1>11, <1>12, <1>13 DEF Dropping
<1>14. ASSUME NEW k \in Kinds, Accept(k)
       PROVE  /\ usb'[p] = usb[p] /\ controllers'[i] = controllers[i]
              /\ DOMAIN controllers' = DOMAIN controllers
  <2>1. CASE UNCHANGED <<controllers, usb, epoll_dirty>>
    BY <2>1
  <2>2. ASSUME NEW j \in DOMAIN controllers \ Bridging, NEW q \in Candidates(j),
               DOMAIN controllers' = DOMAIN controllers,
               \A l \in DOMAIN controllers \ {j} : controllers'[l] = controllers[l],
               \/ UNCHANGED usb
               \/ usb' = [usb EXCEPT ![q] = controllers[j].config.profile]
               \/ usb' = Disconnected({q})
        PROVE  /\ usb'[p] = usb[p] /\ controllers'[i] = controllers[i]
               /\ DOMAIN controllers' = DOMAIN controllers
    <3>1. p # q
      BY <1>1, <2>2, CandidateFacts
    <3> QED
      BY <1>1, <1>3, <2>2, <3>1 DEF TypeOK
  <2> QED
    BY <1>14, <2>1, <2>2, AcceptEffect
<1>15. CASE Rebuild \/ Quiet
  BY <1>4, <1>15 DEF Rebuild, Quiet
<1>16. CASE \E q \in Paths : RemoveNode(q)
  BY <1>3, <1>4, <1>16 DEF RemoveNode
<1> QED
  BY <1>4, <1>5, <1>6, <1>7, <1>13, <1>14, <1>15, <1>16, StepKinds

LEMMA NewlySeen ==
  ASSUME HostInv, [Next]_vars, NEW p \in Paths, usb[p] = None, usb'[p] # None
  PROVE  \E j \in Bridging' :
           /\ controllers'[j].device = p /\ controllers'[j].virtual_connected
           /\ controllers'[j].config.profile = usb'[p]
<1> USE DEF HostInv
<1>1. PICK k \in Kinds : Accept(k)
  BY SeenBefore
<1>2. ASSUME NEW i \in DOMAIN controllers, NEW q \in Candidates(i),
             DOMAIN controllers' = DOMAIN controllers,
             controllers'[i].config = controllers[i].config,
             \/ UNCHANGED usb
             \/ /\ controllers'[i].device = q /\ controllers'[i].virtual_connected = TRUE
                /\ controllers'[i].backend \in [Kinds -> Attempts]
                /\ usb' = [usb EXCEPT ![q] = controllers[i].config.profile]
             \/ usb' = Disconnected({q})
      PROVE  \E j \in Bridging' :
               /\ controllers'[j].device = p /\ controllers'[j].virtual_connected
               /\ controllers'[j].config.profile = usb'[p]
  <2>1. /\ controllers'[i].device = q /\ controllers'[i].virtual_connected = TRUE
        /\ controllers'[i].backend \in [Kinds -> Attempts]
        /\ usb' = [usb EXCEPT ![q] = controllers[i].config.profile]
    BY <1>2 DEF Disconnected
  <2>2. p = q /\ usb'[p] = controllers'[i].config.profile
    BY <1>2, <2>1 DEF TypeOK
  <2>3. i \in Bridging'
    BY <1>2, <2>1, NoneApart DEF Bridging
  <2> QED
    BY <2>1, <2>2, <2>3
<1> QED
  BY <1>1, <1>2, AcceptEffect

(* Whoever is bridged to a live port after a step is seen there.            *)
LEMMA StaysSeen ==
  ASSUME HostInv, [Next]_vars, NEW p \in Paths,
         NEW i \in DOMAIN controllers', controllers'[i].virtual_connected,
         controllers'[i].device = p, LivePort(p)'
  PROVE  usb'[p] = controllers'[i].config.profile
<1> USE DEF HostInv
<1>0. p # None
  BY NoneApart
<1>1. ~Exit
  BY DEF Exit
<1>2. ASSUME NEW k \in DOMAIN controllers, controllers[k].virtual_connected,
             controllers[k].device = p, LivePort(p)
      PROVE  /\ usb[p] = controllers[k].config.profile /\ usb[p] # None
             /\ p \in Named /\ Uses(controllers[k]) /\ k \in Bridging
             /\ \A l \in DOMAIN controllers : l # k /\ Uses(controllers[l])
                  => controllers[l].device # p
  <2>1. p \in Named /\ Port(p).live
    BY <1>0, <1>2, NamedLive
  <2>2. usb[p] = controllers[k].config.profile
    BY <1>2, <2>1 DEF KernelAgrees, Entries
  <2>3. usb[p] # None
    BY <1>2, <2>2, BridgingFacts, ConfigType, NoneApart DEF Runtimes
  <2>4. Uses(controllers[k]) /\ k \in Bridging
    BY <1>2, BridgingFacts
  <2> QED
    BY <1>2, <2>1, <2>2, <2>3, <2>4 DEF PortsExclusive
<1>3. CASE Reload
  <2>1. /\ i \in DOMAIN file /\ controllers' = Reconciled
        /\ Reconciled[i].virtual_connected /\ Reconciled[i].device = p
    BY <1>3, ReconciledType DEF Reload
  <2>2. PICK k \in DOMAIN controllers :
          /\ CarriedOver(k, file[i]) /\ Reconciled[i].device = controllers[k].device
          /\ Reconciled[i].virtual_connected = controllers[k].virtual_connected
    <3>1. \A a, c : ~Runtime(a, c).virtual_connected
      BY DEF Runtime
    <3>2. Reconciled[i] # Runtime(file[i].address, file[i].config)
      BY <2>1, <3>1, Zenon
    <3> QED
      BY <2>1, <3>2, ReloadStep
  <2>3. p \in Named
    BY <1>3, <2>1, <2>2, BridgingFacts DEF LoopInv, Reload, Reloading
  <2>4. LivePort(p)
    BY <1>3, <2>3, LiveBefore
  <2>5. usb[p] = Reconciled[i].config.profile
    BY <1>2, <2>1, <2>2, <2>4, ReloadStep DEF CarriedOver
  <2>6. ASSUME NEW c \in Removed PROVE c.device # p
    <3>1. PICK l \in DOMAIN controllers : c = Remaining[l] /\ c.virtual_connected
      BY RemainingType DEF Removed, Entries
    <3>2. c = controllers[l]
      <4>1. Remaining[l] \in {controllers[l], Released(controllers[l])}
        BY RemainingFades
      <4>2. ~Released(controllers[l]).virtual_connected
        BY DEF Released, Runtime
      <4> QED
        BY <3>1, <4>1, <4>2
    <3>3. Uses(controllers[l])
      BY <3>1, <3>2 DEF Uses
    <3>4. l # k
      <4>1. Keeps(controllers[k], file[i]) /\ file[i] \in Entries(file)
        BY <2>1, <2>2 DEF CarriedOver, Keeps, Entries
      <4>2. ~Keeps(c, file[i])
        BY <4>1 DEF Removed
      <4> QED
        BY <3>2, <4>1, <4>2
    <3> QED
      BY <1>2, <2>1, <2>2, <2>4, <3>2, <3>3, <3>4
  <2>7. usb'[p] = usb[p]
    BY <1>3, <2>6 DEF Reload, Disconnected
  <2> QED
    BY <2>1, <2>5, <2>7
<1>4. ASSUME Fading PROVE i \in DOMAIN controllers /\ controllers'[i] = controllers[i]
  BY <1>4, FadingFacts DEF Fading
<1>5. CASE Refused
  <2>1. i \in DOMAIN controllers /\ controllers'[i] = controllers[i]
    BY <1>4, <1>5, RefusedFades
  <2>2. p \in Named
    BY <1>5, <2>1, BridgingFacts
    DEF LoopInv, Refused, ReloadFailsToLoad, ReloadFailsToOpen, Reloading
  <2>3. LivePort(p)
    BY <2>2, LiveBefore
  <2>4. \A d : ports' = HalfSynced(d) => p \notin MovedBefore(d)
    BY <1>0, HalfSyncedPath DEF LivePort
  <2>5. usb'[p] = usb[p]
    BY <1>5, <2>4 DEF Refused, ReloadFailsToLoad, ReloadFailsToOpen, Disconnected
  <2> QED
    BY <1>2, <2>1, <2>3, <2>5
<1>6. ASSUME UNCHANGED ports, i \in DOMAIN controllers, controllers'[i] = controllers[i],
             usb'[p] = usb[p]
      PROVE  usb'[p] = controllers'[i].config.profile
  BY <1>2, <1>6 DEF LivePort
<1>7. ASSUME NEW is, NEW ps, Release(is), UNCHANGED ports, usb' = Disconnected(ps),
             \A q \in ps : \E l \in is : l \in DOMAIN controllers /\ Uses(controllers[l])
                                         /\ controllers[l].device = q
      PROVE  usb'[p] = controllers'[i].config.profile
  <2>1. i \in DOMAIN controllers /\ controllers'[i] = controllers[i]
    BY <1>4, <1>7, ReleaseFades
  <2>2. i \notin is
    <3>1. ~Released(controllers[i]).virtual_connected
      BY DEF Released, Runtime
    <3> QED
      BY <1>7, <2>1, <3>1, ReleaseFades
  <2>3. LivePort(p)
    BY <1>7 DEF LivePort
  <2>4. p \notin ps
    BY <1>2, <1>7, <2>1, <2>2, <2>3
  <2>5. usb'[p] = usb[p]
    BY <1>7, <2>4 DEF Disconnected
  <2> QED
    BY <1>6, <1>7, <2>1, <2>5
<1>8. CASE EndRound
  <2>1. PICK lost, failed \in SUBSET Bridging :
          /\ Release(lost \cup failed) /\ usb' = Disconnected(DevicesOf(failed))
          /\ UNCHANGED ports
    BY <1>8 DEF EndRound, Flush
  <2>2. \A q \in DevicesOf(failed) : \E l \in lost \cup failed :
          l \in DOMAIN controllers /\ Uses(controllers[l]) /\ controllers[l].device = q
    BY <2>1, BridgingFacts DEF DevicesOf, Bridging
  <2> QED
    BY <1>7, <2>1, <2>2
<1>9. ASSUME NEW j \in Bridging, Drop(j), UNCHANGED ports
      PROVE  usb'[p] = controllers'[i].config.profile
  <2>1. \A q \in DevicesOf({j}) : \E l \in {j} :
          l \in DOMAIN controllers /\ Uses(controllers[l]) /\ controllers[l].device = q
    BY BridgingFacts DEF DevicesOf, Bridging
  <2> QED
    BY <1>7, <1>9, <2>1 DEF Drop
<1>10. CASE \E q \in Paths : FramesFail(q)
  BY <1>9, <1>10 DEF FramesFail
<1>11. ASSUME NEW k \in Kinds, NEW j \in 1..Cardinality(Addrs), HandleChannel(k, j)
       PROVE  usb'[p] = controllers'[i].config.profile
  <2>1. CASE j \in Bridging /\ controllers[j].device \in Named
    BY <1>9, <1>11, <2>1 DEF HandleChannel
  <2>2. CASE ~(j \in Bridging /\ controllers[j].device \in Named)
    <3>1. UNCHANGED <<usb, ports>>
      BY <1>11, <2>2 DEF HandleChannel
    <3>2. i \in DOMAIN controllers /\ controllers'[i] = controllers[i]
      BY <1>4, <1>11, ChannelFades
    <3> QED
      BY <1>6, <3>1, <3>2
  <2> QED
    BY <2>1, <2>2
<1>12. ASSUME NEW k \in Kinds, Accept(k)
       PROVE  usb'[p] = controllers'[i].config.profile
  <2>0. UNCHANGED ports /\ LivePort(p)
    BY <1>12 DEF Accept, LivePort
  <2>1. CASE UNCHANGED <<controllers, usb, epoll_dirty>>
    BY <1>6, <2>0, <2>1
  <2>2. ASSUME NEW j \in DOMAIN controllers \ Bridging, NEW q \in Candidates(j),
               DOMAIN controllers' = DOMAIN controllers,
               \A l \in DOMAIN controllers \ {j} : controllers'[l] = controllers[l],
               controllers'[j].config = controllers[j].config,
               \/ controllers'[j].virtual_connected = controllers[j].virtual_connected
                  /\ UNCHANGED usb
               \/ /\ controllers'[j].device = q
                  /\ usb' = [usb EXCEPT ![q] = controllers[j].config.profile]
               \/ controllers'[j] = Released(controllers[j]) /\ usb' = Disconnected({q})
        PROVE  usb'[p] = controllers'[i].config.profile
    <3>1. CASE i = j
      <4>1. ~controllers[j].virtual_connected
        BY BridgingFacts
      <4>2. ~Released(controllers[j]).virtual_connected
        BY DEF Released, Runtime
      <4>3. controllers'[j].device = q /\ usb' = [usb EXCEPT ![q] = controllers[j].config.profile]
        BY <2>2, <3>1, <4>1, <4>2
      <4> QED
        BY <2>2, <3>1, <4>3 DEF TypeOK
    <3>2. CASE i # j
      <4>1. i \in DOMAIN controllers /\ controllers'[i] = controllers[i]
        BY <2>2, <3>2
      <4>2. q # p
        BY <1>2, <2>0, <2>2, <3>2, <4>1, CandidateFacts
      <4>3. usb'[p] = usb[p]
        BY <2>2, <4>2 DEF TypeOK, Disconnected
      <4> QED
        BY <1>6, <2>0, <4>1, <4>3
    <3> QED
      BY <3>1, <3>2
  <2> QED
    BY <1>12, <2>1, <2>2, AcceptEffect
<1>13. CASE Rebuild \/ Quiet
  BY <1>6, <1>13 DEF Rebuild, Quiet
<1>14. ASSUME NEW q \in Paths, RemoveNode(q)
       PROVE  usb'[p] = controllers'[i].config.profile
  <2>1. LivePort(p) /\ p # q
    BY <1>14, RemovedNode DEF LivePort
  <2>2. usb'[p] = usb[p] /\ controllers' = controllers
    BY <1>14, <2>1 DEF RemoveNode, Disconnected
  <2> QED
    BY <1>2, <2>1, <2>2
<1> QED
  BY <1>1, <1>3, <1>5, <1>8, <1>10, <1>11, <1>12, <1>13, <1>14, StepKinds DEF Dropping

LEMMA NextKernel ==
  ASSUME HostInv, [Next]_vars
  PROVE  KernelAgrees'
<1>1. TypeOK' /\ PortsOnce'
  BY NextType, NextPortsOnce DEF HostInv
<1>2. ASSUME NEW p \in Paths, usb'[p] # None
      PROVE  \E j \in Bridging' :
               /\ controllers'[j].device = p /\ controllers'[j].virtual_connected
               /\ controllers'[j].config.profile = usb'[p]
  <2>1. CASE usb[p] = None
    BY <1>2, <2>1, NewlySeen
  <2>2. CASE usb[p] # None
    <3>1. PICK i \in Bridging : controllers[i].device = p /\ controllers[i].config.profile = usb[p]
      BY <2>2 DEF HostInv, KernelAgrees
    <3> QED
      BY <1>2, <2>2, <3>1, StaysBridged
  <2> QED
    BY <2>1, <2>2
<1>3. (\A p \in Paths : p \in Named /\ Port(p).live <=> LivePort(p))'
  BY <1>1, LiveOnes, PTL
<1>4. ASSUME NEW i \in DOMAIN controllers', controllers'[i].virtual_connected,
             (controllers[i].device \in Named /\ Port(controllers[i].device).live)'
      PROVE  usb'[controllers'[i].device] = controllers'[i].config.profile
  <2>1. controllers'[i].device \in Paths
    <3>1. controllers'[i] \in Runtimes /\ controllers'[i].device # None
      BY <1>1, <1>4 DEF TypeOK, Named
    <3> QED
      BY <3>1 DEF Runtimes
  <2>2. PICK p \in Paths : controllers'[i].device = p
    BY <2>1
  <2>3. LivePort(p)'
    BY <1>3, <1>4, <2>2
  <2> QED
    BY <1>4, <2>2, <2>3, StaysSeen
<1> QED
  BY <1>2, <1>4 DEF KernelAgrees, Entries, Bridging

LEMMA NextHost == HostInv /\ [Next]_vars => HostInv'
<1> SUFFICES ASSUME HostInv, [Next]_vars PROVE HostInv'
  OBVIOUS
<1>1. /\ TypeOK /\ AddressesOnce /\ PortsExclusive
      /\ ControllersOnce /\ HoldsPort /\ PortsOnce /\ LiveThere /\ SeenLive /\ LoopInv
  BY DEF HostInv
<1>2. TypeOK' /\ AddressesOnce' /\ PortsExclusive'
  BY <1>1, NextType, NextAddresses, NextExclusive DEF ExclusiveInv
<1>3. ControllersOnce' /\ HoldsPort' /\ PortsOnce'
  BY <1>1, NextOnce, NextHolds, NextPortsOnce
<1>4. LiveThere' /\ SeenLive' /\ LoopInv'
  BY <1>1, NextLive, NextSeen, NextLoop
<1> QED
  BY <1>2, <1>3, <1>4, NextKernel DEF HostInv

LEMMA InitHost == Init => HostInv
<1> SUFFICES ASSUME Init PROVE HostInv
  OBVIOUS
<1>1. AddressesOnce /\ PortsExclusive /\ TypeOK
  BY InitType DEF Init, Files, AddressesOnce, PortsExclusive
<1>2. ControllersOnce /\ HoldsPort /\ PortsOnce /\ LiveThere
  BY DEF Init, ControllersOnce, HoldsPort, PortsOnce, LiveThere
<1>3. SeenLive /\ LoopInv
  BY DEF Init, SeenLive, LoopInv, Bridging
<1>4. KernelAgrees
  BY DEF Init, KernelAgrees, Entries
<1> QED
  BY <1>1, <1>2, <1>3, <1>4 DEF HostInv

LEMMA HostInvariant == Spec => []HostInv
BY InitHost, NextHost, PTL DEF Spec

(* The host sees a device exactly where a controller is bridged to a live   *)
(* port, with its profile: neither reloads nor errors half-way leave a      *)
(* device without its controller, or a controller unseen.                   *)
THEOREM HostSeesBridges == Spec => []KernelAgrees
<1>1. HostInv => KernelAgrees
  BY DEF HostInv
<1> QED
  BY <1>1, HostInvariant, PTL

LEMMA OneBridge ==
  ASSUME PortsExclusive, NEW p, NEW i \in Bridging, controllers[i].device = p
  PROVE  Bridged(p) = {controllers[i].address}
<1>1. \A j \in Bridging : Uses(controllers[j]) /\ j \in DOMAIN controllers
  BY DEF Bridging, Uses
<1>2. \A j \in Bridging : controllers[j].device = p => j = i
  BY <1>1 DEF PortsExclusive
<1> QED
  BY <1>2 DEF Bridged

SingleBridges ==
  \A p \in Paths : \A i \in Bridging :
    controllers[i].device = p => Bridged(p) = {controllers[i].address}
LEMMA OneBridges == PortsExclusive => SingleBridges
BY OneBridge DEF SingleBridges

(* The host never sees one controller turn into another on a connected      *)
(* port: whatever a reload, an error or an accept does, the port is         *)
(* unplugged in between.                                                    *)
THEOREM HandoverUnplugs == Spec => UnpluggedBetween
<1>1. ASSUME HostInv, HostInv', [Next]_vars, NEW p \in Paths, usb[p] # None, usb'[p] # None
      PROVE  usb'[p] = usb[p] /\ Bridged(p)' = Bridged(p)
  <2>1. PICK i \in Bridging : controllers[i].device = p
    BY <1>1 DEF HostInv, KernelAgrees
  <2>2. usb'[p] = usb[p]
    BY <1>1, <2>1, StaysBridged
  <2>3. PICK j \in Bridging' :
          controllers'[j].address = controllers[i].address /\ controllers'[j].device = p
    BY <1>1, <2>1, StaysBridged
  <2>4. Bridged(p) = {controllers[i].address}
    BY <1>1, <2>1, OneBridge DEF HostInv
  <2>5. PortsExclusive'
    BY <1>1 DEF HostInv
  <2>6. SingleBridges'
    BY <2>5, OneBridges, PTL
  <2>7. Bridged(p)' = {controllers'[j].address}
    BY <2>3, <2>6 DEF SingleBridges, Bridged
  <2> QED
    BY <2>2, <2>3, <2>4, <2>7
<1>2. HostInv /\ HostInv' /\ [Next]_vars =>
        [\A p \in Paths : usb[p] # None /\ usb'[p] # None
           => usb'[p] = usb[p] /\ Bridged(p)' = Bridged(p)]_vars
  BY <1>1
<1> QED
  BY <1>2, HostInvariant, PTL DEF Spec, UnpluggedBetween

(* Whenever the daemon waits, both channels of every backend are registered *)
(* under its place in the list, after accepts, drops and reloads that move  *)
(* controllers.                                                             *)
THEOREM ChannelsReachTheirController == Spec => []ChannelsWatched
<1>1. Init => ChannelsRegistered
  BY DEF Init, ChannelsRegistered
<1>2. HostInv /\ ChannelsRegistered /\ [Next]_vars => ChannelsRegistered'
  BY NextChannels DEF HostInv
<1>3. HostInv /\ ChannelsRegistered => ChannelsWatched
  BY DEF HostInv, LoopInv, ChannelsRegistered, ChannelsWatched
<1> QED
  BY <1>1, <1>2, <1>3, HostInvariant, PTL DEF Spec

(* The same of the ports, as long as the last reload has not failed.        *)
THEOREM PortsReachTheirPlace == Spec => []PortsWatched
<1>1. Init => PortsRegistered
  BY DEF Init, PortsRegistered
<1>2. HostInv /\ PortsRegistered /\ [Next]_vars => PortsRegistered'
  BY NextPortsRegistered DEF HostInv
<1>3. HostInv /\ PortsRegistered => PortsWatched
  BY DEF HostInv, LoopInv, PortsRegistered, PortsWatched
<1> QED
  BY <1>1, <1>2, <1>3, HostInvariant, PTL DEF Spec

(* When the daemon waits it serves the file as it is, unless its last       *)
(* reload failed: no request is forgotten between the flag, the reload and  *)
(* the wait, and no controller holds a port the file does not give it.      *)
THEOREM WaitsOnTheFile == Spec => []FileServed
<1>1. Init => FileLoaded
  BY DEF Init, FileLoaded
<1>2. HostInv /\ FileLoaded /\ [Next]_vars => FileLoaded'
  BY NextLoaded DEF HostInv
<1>3. HostInv /\ FileLoaded => FileServed
  BY DEF HostInv, LoopInv, HoldsPort, FileLoaded, FileServed, Entries
<1> QED
  BY <1>1, <1>2, <1>3, HostInvariant, PTL DEF Spec
=============================================================================
