------------------------ MODULE WinSupervisorProofs ------------------------
(***************************************************************************)
(* The safety of the supervisor for every set of controllers, ports and    *)
(* profiles: SupervisorInv is inductive.  Its parts need one another: a    *)
(* launched worker has a port and a profile only because the scan looks at *)
(* controllers of the file alone, that a delay is served needs that a      *)
(* controller has not two workers, and that no worker is stale when the    *)
(* supervisor waits needs to be followed through the whole loop.           *)
(***************************************************************************)
EXTENDS WinSupervisor, TLAPS

(* Steps that leave the workers, the file and the delays alone keep the     *)
(* parts of the invariant that are about them.                              *)
LEMMA Untouched ==
  ASSUME WorkersExclusive, DelayServed, UNCHANGED <<worker, backoff>>
  PROVE  WorkersExclusive' /\ DelayServed'
BY DEF WorkersExclusive, DelayServed, Live

LEMMA NoneStaleUntouched ==
  ASSUME NoneStale, UNCHANGED <<worker, config>>
  PROVE  NoneStale'
BY DEF NoneStale, Stale, Live

-----------------------------------------------------------------------------
(* Type correctness.                                                        *)

LEMMA InitType == Init => TypeOK
BY SupervisorAssumption DEF Init, TypeOK

LEMMA WorkerType ==
  ASSUME TypeOK, NEW s \in Slots,
         MissesCancel(s) \/ SessionEnds(s) \/ WorkerDone(s)
  PROVE  TypeOK'
<1>1. worker[s] \in Workers
  BY DEF MissesCancel, SessionEnds, WorkerDone, Live, TypeOK
<1>2. CASE SessionEnds(s)
  <2>1. [worker[s] EXCEPT !.run = "ending",
           !.failed = ~g_stop_requested /\ ~worker[s].stop_requested] \in Workers
    BY <1>1 DEF Workers, TypeOK
  <2>2. worker' = [worker EXCEPT ![s] = [worker[s] EXCEPT !.run = "ending",
           !.failed = ~g_stop_requested /\ ~worker[s].stop_requested]]
    BY <1>2 DEF SessionEnds
  <2> QED
    BY <1>2, <2>1, <2>2 DEF SessionEnds, TypeOK, scanVars, envVars
<1>3. CASE WorkerDone(s)
  <2>1. [worker[s] EXCEPT !.run = "done"] \in Workers
    BY <1>1 DEF Workers
  <2>2. worker' = [worker EXCEPT ![s] = [worker[s] EXCEPT !.run = "done"]]
    BY <1>3 DEF WorkerDone
  <2> QED
    BY <1>3, <2>1, <2>2 DEF WorkerDone, TypeOK, scanVars, envVars
<1>4. CASE MissesCancel(s)
  <2>1. [worker[s] EXCEPT !.run = "blind"] \in Workers
    BY <1>1 DEF Workers
  <2>2. worker' = [worker EXCEPT ![s] = [worker[s] EXCEPT !.run = "blind"]]
    BY <1>4 DEF MissesCancel
  <2> QED
    BY <1>4, <2>1, <2>2 DEF MissesCancel, TypeOK, scanVars, envVars
<1> QED
  BY <1>2, <1>3, <1>4

LEMMA LoopType ==
  ASSUME TypeOK,
         \/ Reap \/ ScanStart \/ ScanFails \/ ScanEnd \/ Rest
         \/ WakeStop \/ WakeControl \/ WakeRetry \/ ServeEnd \/ Join
         \/ \E a \in Addrs : Skip(a)
  PROVE  TypeOK'
<1> USE DEF TypeOK, scanVars, envVars
<1>1. CASE Reap
  BY <1>1 DEF Reap, WithoutGone, BackoffAfter
<1>2. CASE ScanStart
  <2>1. \A w \in Workers \cup {None} : Retired(w) \in Workers \cup {None}
    BY DEF Retired, Workers
  <2> QED
    BY <1>2, <2>1 DEF ScanStart
<1>3. CASE ScanFails \/ ScanEnd \/ Rest
  BY <1>3 DEF ScanFails, ScanEnd, Rest
<1>4. CASE WakeStop \/ WakeControl \/ WakeRetry \/ ServeEnd \/ Join
  BY <1>4 DEF WakeStop, WakeControl, WakeRetry, ServeEnd, Join
<1>5. CASE \E a \in Addrs : Skip(a)
  BY <1>5 DEF Skip, ConsumeRetry
<1> QED
  BY <1>1, <1>2, <1>3, <1>4, <1>5

LEMMA LaunchType ==
  ASSUME TypeOK, TodoInv, NEW a \in Addrs, Launch(a)
  PROVE  TypeOK'
<1>1. PICK s \in Slots \ Live, p \in FreePorts(a) :
        worker' = [worker EXCEPT ![s] =
          [address |-> a, port |-> p, profile |-> config[a].profile,
           run |-> "session", stop_requested |-> FALSE, failed |-> FALSE]]
  BY DEF Launch
<1>2. FreePorts(a) \subseteq config[a].ports
  BY DEF FreePorts
<1>3. config[a] \in Configs
  BY DEF TypeOK, TodoInv, Launch
<1>4. p \in Ports /\ config[a].profile \in Profiles
  BY <1>1, <1>2, <1>3 DEF Configs
<1>5. worker' \in [Slots -> Workers \cup {None}]
  BY <1>1, <1>4 DEF TypeOK, Workers
<1> QED
  BY <1>5 DEF Launch, ConsumeRetry, TypeOK, envVars

LEMMA ServeType ==
  ASSUME TypeOK, Serve
  PROVE  TypeOK'
<1>1. command \in Commands
  BY DEF Serve, TypeOK
<1>2. command.address \in Addrs
  BY <1>1 DEF Commands
<1>3. command.op = "attach" => command.config \in Configs
  BY <1>1 DEF Commands
<1> QED
  BY <1>2, <1>3 DEF Serve, Attach, Detach, Refuse, Registered, Reload, TypeOK, scanVars, envVars

LEMMA EnvType ==
  ASSUME TypeOK,
         \/ \E a \in Addrs : Expire(a) \/ Plug(a)
         \/ \E c \in Commands : Request(c)
         \/ ProviderChanges \/ StopDaemon
  PROVE  TypeOK'
<1>1. ASSUME NEW a \in Addrs, Expire(a) \/ Plug(a) PROVE TypeOK'
  BY <1>1 DEF Expire, Plug, TypeOK, scanVars, envVars
<1>2. ASSUME NEW c \in Commands, Request(c) PROVE TypeOK'
  BY <1>2 DEF Request, TypeOK, scanVars, envVars
<1>3. CASE ProviderChanges \/ StopDaemon
  BY <1>3 DEF ProviderChanges, StopDaemon, TypeOK, scanVars, envVars
<1> QED
  BY <1>1, <1>2, <1>3

LEMMA NextType == TypeOK /\ TodoInv /\ [Next]_vars => TypeOK'
<1> SUFFICES ASSUME TypeOK, TodoInv, [Next]_vars PROVE TypeOK'
  OBVIOUS
<1>1. CASE UNCHANGED vars
  BY <1>1 DEF vars, scanVars, envVars, TypeOK
<1>2. ASSUME NEW a \in Addrs, Launch(a) PROVE TypeOK'
  BY <1>2, LaunchType
<1>3. ASSUME NEW s \in Slots, MissesCancel(s) \/ SessionEnds(s) \/ WorkerDone(s)
      PROVE  TypeOK'
  BY <1>3, WorkerType
<1> QED
  BY <1>1, <1>2, <1>3, LoopType, ServeType, EnvType DEF Next, Supervisor

(* The file changes only while the supervisor serves requests, when the     *)
(* scan has looked at every controller.                                     *)
LEMMA NextTodo == TypeOK /\ TodoInv /\ [Next]_vars => TodoInv'
<1> SUFFICES ASSUME TypeOK, TodoInv, [Next]_vars PROVE TodoInv'
  OBVIOUS
<1> USE DEF TodoInv, scanVars, envVars
<1>1. CASE ScanStart \/ ScanFails
  BY <1>1 DEF ScanStart, ScanFails
<1>2. CASE Serve
  BY <1>2 DEF Serve
<1>3. CASE \E a \in Addrs : Skip(a) \/ Launch(a)
  BY <1>3 DEF Skip, Launch
<1>4. CASE Reap \/ ScanEnd \/ Rest
  BY <1>4 DEF Reap, ScanEnd, Rest
<1>5. CASE WakeStop \/ WakeControl \/ WakeRetry \/ ServeEnd \/ Join
  BY <1>5 DEF WakeStop, WakeControl, WakeRetry, ServeEnd, Join
<1>6. CASE \/ \E s \in Slots : MissesCancel(s) \/ SessionEnds(s) \/ WorkerDone(s)
           \/ \E a \in Addrs : Expire(a) \/ Plug(a)
           \/ \E c \in Commands : Request(c)
           \/ ProviderChanges \/ StopDaemon \/ UNCHANGED vars
  BY <1>6 DEF MissesCancel, SessionEnds, WorkerDone, Expire, Plug, Request, ProviderChanges,
     StopDaemon, vars
<1> QED
  BY <1>1, <1>2, <1>3, <1>4, <1>5, <1>6 DEF Next, Supervisor

-----------------------------------------------------------------------------
(* One worker for a port and for a controller, none before its delay.       *)

(* A worker that only runs on, or is told to stop, keeps its place.         *)
LEMMA SamePlaces ==
  ASSUME WorkersExclusive, DelayServed, backoff' = backoff, Live' \subseteq Live,
         \A s \in Live' : /\ worker'[s].port = worker[s].port
                          /\ worker'[s].address = worker[s].address
  PROVE  WorkersExclusive' /\ DelayServed'
BY DEF WorkersExclusive, DelayServed

LEMMA SessionPlaces ==
  ASSUME TypeOK, WorkersExclusive, DelayServed, NEW s \in Slots,
         MissesCancel(s) \/ SessionEnds(s) \/ WorkerDone(s)
  PROVE  WorkersExclusive' /\ DelayServed'
<1>1. /\ s \in Live /\ backoff' = backoff
      /\ \E w : /\ worker' = [worker EXCEPT ![s] = w]
                /\ w # None /\ w.port = worker[s].port
                /\ w.address = worker[s].address
  <2>1. worker[s] \in Workers /\ s \in Live
    BY DEF MissesCancel, SessionEnds, WorkerDone, TypeOK, Live
  <2>2. CASE SessionEnds(s)
    <3> DEFINE w == [worker[s] EXCEPT !.run = "ending",
                       !.failed = ~g_stop_requested /\ ~worker[s].stop_requested]
    <3>1. w \in Workers /\ w.port = worker[s].port /\ w.address = worker[s].address
      BY <2>1 DEF Workers, TypeOK
    <3>2. worker' = [worker EXCEPT ![s] = w] /\ backoff' = backoff
      BY <2>2 DEF SessionEnds
    <3>3. w # None
      BY <3>1, SupervisorAssumption
    <3> QED
      BY <2>1, <3>1, <3>2, <3>3
  <2>3. CASE WorkerDone(s)
    <3> DEFINE w == [worker[s] EXCEPT !.run = "done"]
    <3>1. w \in Workers /\ w.port = worker[s].port /\ w.address = worker[s].address
      BY <2>1 DEF Workers
    <3>2. worker' = [worker EXCEPT ![s] = w] /\ backoff' = backoff
      BY <2>3 DEF WorkerDone
    <3>3. w # None
      BY <3>1, SupervisorAssumption
    <3> QED
      BY <2>1, <3>1, <3>2, <3>3
  <2>4. CASE MissesCancel(s)
    <3> DEFINE w == [worker[s] EXCEPT !.run = "blind"]
    <3>1. w \in Workers /\ w.port = worker[s].port /\ w.address = worker[s].address
      BY <2>1 DEF Workers
    <3>2. worker' = [worker EXCEPT ![s] = w] /\ backoff' = backoff
      BY <2>4 DEF MissesCancel
    <3>3. w # None
      BY <3>1, SupervisorAssumption
    <3> QED
      BY <2>1, <3>1, <3>2, <3>3
  <2> QED
    BY <2>2, <2>3, <2>4
<1>2. Live' = Live
  BY <1>1 DEF Live, TypeOK
<1> QED
  BY <1>1, <1>2, SamePlaces DEF TypeOK, Live

LEMMA ReapPlaces ==
  ASSUME TypeOK, WorkersExclusive, DelayServed, Reap
  PROVE  WorkersExclusive' /\ DelayServed'
<1> DEFINE gone == {s \in Live : worker[s].run = "done"}
<1>1. /\ worker' = [s \in Slots |-> IF s \in gone THEN None ELSE worker[s]]
      /\ backoff' = BackoffAfter(gone)
  BY DEF Reap, WithoutGone
<1>2. Live' = Live \ gone /\ \A s \in Live' : worker'[s] = worker[s]
  BY <1>1 DEF Live, TypeOK
<1>3. ASSUME NEW s \in Live' PROVE backoff'[worker'[s].address] = "none"
  <2>1. s \in Live /\ s \notin gone /\ worker'[s] = worker[s] /\ worker[s] \in Workers
    BY <1>2, <1>3 DEF Live, TypeOK
  <2>2. worker[s].address \in Addrs
    BY <2>1 DEF Workers
  <2>3. \A t \in gone : worker[t].address # worker[s].address
    BY <2>1 DEF WorkersExclusive
  <2>4. backoff'[worker[s].address] = backoff[worker[s].address]
    BY <1>1, <2>2, <2>3 DEF BackoffAfter
  <2> QED
    BY <2>1, <2>4 DEF DelayServed
<1> QED
  BY <1>2, <1>3 DEF WorkersExclusive, DelayServed

LEMMA LaunchPlaces ==
  ASSUME TypeOK, TodoInv, WorkersExclusive, DelayServed, NEW a \in Addrs, Launch(a)
  PROVE  WorkersExclusive' /\ DelayServed'
<1>1. PICK s \in Slots \ Live, p \in FreePorts(a) :
        worker' = [worker EXCEPT ![s] =
          [address |-> a, port |-> p, profile |-> config[a].profile,
           run |-> "session", stop_requested |-> FALSE, failed |-> FALSE]]
  BY DEF Launch
<1> DEFINE w == [address |-> a, port |-> p, profile |-> config[a].profile,
                 run |-> "session", stop_requested |-> FALSE, failed |-> FALSE]
<1>2. w # None
  <2>1. config[a] \in Configs
    BY DEF Launch, TypeOK, TodoInv
  <2>3. p \in Ports
    BY <1>1, <2>1 DEF FreePorts, Configs
  <2>2. w \in Workers
    BY <2>1, <2>3 DEF Workers, Configs
  <2> QED
    BY <2>2, SupervisorAssumption
<1>3. /\ Live' = Live \cup {s} /\ worker'[s] = w
      /\ \A t \in Live : worker'[t] = worker[t]
  BY <1>1, <1>2 DEF Live, TypeOK
<1>4. \A t \in Live : worker[t].address # a /\ worker[t].port # p
  BY <1>1 DEF Launch, Bindable, Serving, FreePorts, Reserved
<1>5. w.address = a /\ w.port = p
  OBVIOUS
<1>6. backoff' = [backoff EXCEPT ![a] = "none"]
  BY DEF Launch, ConsumeRetry
<1>7. WorkersExclusive'
  BY <1>3, <1>4, <1>5 DEF WorkersExclusive
<1>8. \A t \in Live : worker[t].address \in Addrs
  BY DEF TypeOK, Live, Workers
<1>9. DelayServed'
  BY <1>3, <1>5, <1>6, <1>8 DEF DelayServed, TypeOK
<1> QED
  BY <1>7, <1>9

LEMMA ScanStartPlaces ==
  ASSUME TypeOK, WorkersExclusive, DelayServed, ScanStart
  PROVE  WorkersExclusive' /\ DelayServed'
<1>1. ASSUME NEW s \in Slots
      PROVE  /\ worker'[s] # None <=> worker[s] # None
             /\ worker[s] # None => /\ worker'[s].port = worker[s].port
                                    /\ worker'[s].address = worker[s].address
  <2>1. worker'[s] = Retired(worker[s]) /\ worker[s] \in Workers \cup {None}
    BY DEF ScanStart, TypeOK
  <2>2. \A w \in Workers : /\ [w EXCEPT !.stop_requested = TRUE] \in Workers
                           /\ [w EXCEPT !.stop_requested = TRUE].port = w.port
                           /\ [w EXCEPT !.stop_requested = TRUE].address = w.address
    BY DEF Workers
  <2> QED
    BY <2>1, <2>2, SupervisorAssumption DEF Retired
<1>2. Live' = Live /\ backoff' = backoff
  BY <1>1 DEF Live, ScanStart
<1> QED
  BY <1>1, <1>2, SamePlaces DEF Live

LEMMA NextPlaces ==
  TypeOK /\ TodoInv /\ WorkersExclusive /\ DelayServed /\ [Next]_vars
    => WorkersExclusive' /\ DelayServed'
<1> SUFFICES ASSUME TypeOK, TodoInv, WorkersExclusive, DelayServed, [Next]_vars
             PROVE  WorkersExclusive' /\ DelayServed'
  OBVIOUS
<1>1. CASE \/ ScanFails \/ ScanEnd \/ Rest \/ WakeStop \/ WakeControl
           \/ WakeRetry \/ Serve \/ ServeEnd \/ Join \/ ProviderChanges
           \/ StopDaemon \/ UNCHANGED vars
  BY <1>1, Untouched DEF ScanFails, ScanEnd, Rest, WakeStop, WakeControl,
     WakeRetry, Serve, ServeEnd, Join, ProviderChanges, StopDaemon, vars
<1>2. CASE \/ \E a \in Addrs : Plug(a)
           \/ \E c \in Commands : Request(c)
  BY <1>2, Untouched DEF Plug, Request
<1>3. ASSUME NEW a \in Addrs, Expire(a) \/ Skip(a)
      PROVE  WorkersExclusive' /\ DelayServed'
  <2>1. worker' = worker /\ Live' = Live
    BY <1>3 DEF Expire, Skip, Live
  <2>2. \A b \in Addrs : backoff[b] = "none" => backoff'[b] = "none"
    BY <1>3 DEF Expire, Skip, ConsumeRetry, TypeOK
  <2>3. \A s \in Live : worker[s].address \in Addrs
    BY DEF Live, TypeOK, Workers
  <2> QED
    BY <2>1, <2>2, <2>3 DEF WorkersExclusive, DelayServed
<1>4. ASSUME NEW a \in Addrs, Launch(a) PROVE WorkersExclusive' /\ DelayServed'
  BY <1>4, LaunchPlaces
<1>5. ASSUME NEW s \in Slots, MissesCancel(s) \/ SessionEnds(s) \/ WorkerDone(s)
      PROVE  WorkersExclusive' /\ DelayServed'
  BY <1>5, SessionPlaces
<1> QED
  BY <1>1, <1>2, <1>3, <1>4, <1>5, ReapPlaces, ScanStartPlaces DEF Next, Supervisor

LEMMA InitPlaces == Init => WorkersExclusive /\ DelayServed
BY DEF Init, WorkersExclusive, DelayServed, Live

-----------------------------------------------------------------------------
(* No stale worker once the supervisor waits.                               *)

(* A worker that is neither replaced nor reconfigured stays as stale as it  *)
(* was.                                                                     *)
LEMMA SameStaleness ==
  ASSUME NoneStale, config' = config, Live' \subseteq Live,
         \A s \in Live' :
           /\ worker'[s].port = worker[s].port
           /\ worker'[s].address = worker[s].address
           /\ worker'[s].profile = worker[s].profile
           /\ worker[s].stop_requested => worker'[s].stop_requested
  PROVE  NoneStale'
BY DEF NoneStale, Stale

LEMMA SessionStale ==
  ASSUME TypeOK, ReloadInv, NEW s \in Slots,
         MissesCancel(s) \/ SessionEnds(s) \/ WorkerDone(s)
  PROVE  ReloadInv'
<1>1. worker[s] \in Workers /\ s \in Live
  BY DEF MissesCancel, SessionEnds, WorkerDone, TypeOK, Live
<1>2. \E w \in Workers : /\ worker' = [worker EXCEPT ![s] = w]
                         /\ w.port = worker[s].port /\ w.address = worker[s].address
                         /\ w.profile = worker[s].profile
                         /\ w.stop_requested = worker[s].stop_requested
  <2>1. CASE SessionEnds(s)
    <3> DEFINE w == [worker[s] EXCEPT !.run = "ending",
                       !.failed = ~g_stop_requested /\ ~worker[s].stop_requested]
    <3>1. /\ w \in Workers /\ w.port = worker[s].port /\ w.address = worker[s].address
          /\ w.profile = worker[s].profile /\ w.stop_requested = worker[s].stop_requested
      BY <1>1 DEF Workers, TypeOK
    <3>2. worker' = [worker EXCEPT ![s] = w]
      BY <2>1 DEF SessionEnds
    <3> QED
      BY <3>1, <3>2
  <2>2. CASE WorkerDone(s)
    <3> DEFINE w == [worker[s] EXCEPT !.run = "done"]
    <3>1. /\ w \in Workers /\ w.port = worker[s].port /\ w.address = worker[s].address
          /\ w.profile = worker[s].profile /\ w.stop_requested = worker[s].stop_requested
      BY <1>1 DEF Workers
    <3>2. worker' = [worker EXCEPT ![s] = w]
      BY <2>2 DEF WorkerDone
    <3> QED
      BY <3>1, <3>2
  <2>3. CASE MissesCancel(s)
    <3> DEFINE w == [worker[s] EXCEPT !.run = "blind"]
    <3>1. /\ w \in Workers /\ w.port = worker[s].port /\ w.address = worker[s].address
          /\ w.profile = worker[s].profile /\ w.stop_requested = worker[s].stop_requested
      BY <1>1 DEF Workers
    <3>2. worker' = [worker EXCEPT ![s] = w]
      BY <2>3 DEF MissesCancel
    <3> QED
      BY <3>1, <3>2
  <2> QED
    BY <2>1, <2>2, <2>3
<1>3. /\ Live' = Live
      /\ \A t \in Live : /\ worker'[t].port = worker[t].port
                         /\ worker'[t].address = worker[t].address
                         /\ worker'[t].profile = worker[t].profile
                         /\ worker[t].stop_requested => worker'[t].stop_requested
  BY <1>1, <1>2, SupervisorAssumption DEF Live, TypeOK
<1>4. UNCHANGED <<config, pc, scan_requested, reload_requested>>
  BY DEF MissesCancel, SessionEnds, WorkerDone
<1>5. NoneStale => NoneStale'
  BY <1>3, <1>4, SameStaleness
<1> QED
  BY <1>4, <1>5 DEF ReloadInv

LEMMA ReapStale ==
  ASSUME TypeOK, ReloadInv, Reap
  PROVE  ReloadInv'
<1> DEFINE gone == {s \in Live : worker[s].run = "done"}
<1>1. worker' = [s \in Slots |-> IF s \in gone THEN None ELSE worker[s]]
  BY DEF Reap, WithoutGone
<1>2. Live' = Live \ gone /\ \A s \in Live' : worker'[s] = worker[s]
  BY <1>1 DEF Live, TypeOK
<1>3. NoneStale => NoneStale'
  <2>1. config' = config
    BY DEF Reap
  <2> QED
    BY <1>2, <2>1, SameStaleness
<1>4. pc' = "scan" \/ (pc' = "rest" /\ ~scan_requested /\ ~reload_requested)
  BY DEF Reap
<1>5. pc = "loop"
  BY DEF Reap
<1> QED
  BY <1>3, <1>4, <1>5 DEF ReloadInv

LEMMA ScanStartStale ==
  ASSUME TypeOK, ScanStart
  PROVE  ReloadInv'
<1>1. ASSUME NEW s \in Live' PROVE worker'[s].stop_requested \/ ~Stale(worker[s])
  <2>1. s \in Slots /\ worker'[s] = Retired(worker[s]) /\ worker[s] \in Workers \cup {None}
    BY <1>1 DEF ScanStart, TypeOK, Live
  <2>2. worker[s] # None
    BY <1>1, <2>1 DEF Retired, Live
  <2>3. worker[s] \in Workers => [worker[s] EXCEPT !.stop_requested = TRUE].stop_requested
    BY DEF Workers
  <2> QED
    BY <2>1, <2>2, <2>3 DEF Retired
<1>2. ASSUME NEW s \in Live', ~worker'[s].stop_requested PROVE worker'[s] = worker[s]
  <2>1. s \in Slots /\ worker'[s] = Retired(worker[s]) /\ worker[s] \in Workers \cup {None}
    BY <1>2 DEF ScanStart, TypeOK, Live
  <2>2. worker[s] \in Workers => [worker[s] EXCEPT !.stop_requested = TRUE].stop_requested
    BY DEF Workers
  <2> QED
    BY <1>2, <2>1, <2>2 DEF Retired
<1>3. config' = config /\ pc' = "bind"
  BY DEF ScanStart
<1>4. NoneStale'
  BY <1>1, <1>2, <1>3 DEF NoneStale, Stale
<1> QED
  BY <1>3, <1>4 DEF ReloadInv

LEMMA LaunchStale ==
  ASSUME TypeOK, TodoInv, ReloadInv, NEW a \in Addrs, Launch(a)
  PROVE  ReloadInv'
<1>1. PICK s \in Slots \ Live, p \in FreePorts(a) :
        worker' = [worker EXCEPT ![s] =
          [address |-> a, port |-> p, profile |-> config[a].profile,
           run |-> "session", stop_requested |-> FALSE, failed |-> FALSE]]
  BY DEF Launch
<1>2. pc = "bind" /\ pc' = "bind" /\ config' = config /\ NoneStale
  BY DEF Launch, ReloadInv
<1>3. worker' \in [Slots -> Workers \cup {None}] /\ config[a] # None
  <2>1. TypeOK'
    BY LaunchType
  <2>2. config[a] # None
    BY DEF TodoInv, Launch
  <2> QED
    BY <2>1, <2>2 DEF TypeOK
<1>4. \A t \in Live' : t = s \/ (t \in Live /\ worker'[t] = worker[t])
  BY <1>1 DEF Live, TypeOK
<1>5. ~Stale(worker'[s])
  BY <1>1, <1>3 DEF Stale, FreePorts, TypeOK
<1>6. NoneStale'
  BY <1>2, <1>4, <1>5 DEF NoneStale, Stale
<1> QED
  BY <1>2, <1>6 DEF ReloadInv

LEMMA ServeStale ==
  ASSUME ReloadInv, Serve
  PROVE  ReloadInv'
<1>1. pc = "control" /\ pc' = "control" /\ scan_requested' = scan_requested /\ worker' = worker
  BY DEF Serve
<1>2. \/ UNCHANGED <<config, reload_requested>>
      \/ reload_requested' = TRUE
  BY DEF Serve, Attach, Detach, Refuse, Reload
<1>3. UNCHANGED <<config, reload_requested>> => (NoneStale => NoneStale')
  BY <1>1, NoneStaleUntouched
<1> QED
  BY <1>1, <1>2, <1>3 DEF ReloadInv

LEMMA NextStale == TypeOK /\ TodoInv /\ ReloadInv /\ [Next]_vars => ReloadInv'
<1> SUFFICES ASSUME TypeOK, TodoInv, ReloadInv, [Next]_vars PROVE ReloadInv'
  OBVIOUS
<1>1. UNCHANGED <<worker, config>> => (NoneStale => NoneStale')
  BY NoneStaleUntouched
<1>2. CASE \/ ScanFails \/ ScanEnd \/ Rest \/ WakeStop \/ WakeControl
           \/ WakeRetry \/ ServeEnd \/ Join
  BY <1>1, <1>2 DEF ScanFails, ScanEnd, Rest, WakeStop, WakeControl, WakeRetry,
     ServeEnd, Join, ReloadInv, TypeOK
<1>3. CASE \/ ProviderChanges \/ StopDaemon \/ UNCHANGED vars
           \/ \E a \in Addrs : Expire(a) \/ Plug(a) \/ Skip(a)
           \/ \E c \in Commands : Request(c)
  BY <1>1, <1>3 DEF ProviderChanges, StopDaemon, vars, Expire, Plug, Skip, Request, ReloadInv
<1>4. ASSUME NEW a \in Addrs, Launch(a) PROVE ReloadInv'
  BY <1>4, LaunchStale
<1>5. ASSUME NEW s \in Slots, MissesCancel(s) \/ SessionEnds(s) \/ WorkerDone(s)
      PROVE  ReloadInv'
  BY <1>5, SessionStale
<1> QED
  BY <1>2, <1>3, <1>4, <1>5, ReapStale, ScanStartStale, ServeStale DEF Next, Supervisor

-----------------------------------------------------------------------------
(* The theorems.                                                            *)

LEMMA InitInv == Init => SupervisorInv
<1>1. Init => TodoInv /\ ReloadInv
  BY DEF Init, TodoInv, ReloadInv
<1> QED
  BY <1>1, InitType, InitPlaces DEF SupervisorInv

LEMMA NextInv == SupervisorInv /\ [Next]_vars => SupervisorInv'
BY NextType, NextTodo, NextPlaces, NextStale DEF SupervisorInv

(* SupervisorInv holds throughout.                                          *)
THEOREM SupervisorInvariant == Spec => []SupervisorInv
BY InitInv, NextInv, PTL DEF Spec

(* The supervisor's variables keep their types: in particular a worker is   *)
(* launched only with a port and a profile of a registered controller.      *)
THEOREM SupervisorTypes == Spec => []TypeOK
<1>1. SupervisorInv => TypeOK
  BY DEF SupervisorInv
<1> QED
  BY <1>1, SupervisorInvariant, PTL

(* No two workers of the list share a port or a controller.                 *)
THEOREM OneWorkerEach == Spec => []WorkersExclusive
<1>1. SupervisorInv => WorkersExclusive
  BY DEF SupervisorInv
<1> QED
  BY <1>1, SupervisorInvariant, PTL

(* A controller whose worker has failed has none until its delay is over.   *)
THEOREM FailuresAreDelayed == Spec => []DelayServed
<1>1. SupervisorInv => DelayServed
  BY DEF SupervisorInv
<1> QED
  BY <1>1, SupervisorInvariant, PTL

(* Once the supervisor has settled, every worker whose configuration has    *)
(* changed has been told to stop.                                           *)
THEOREM StaleWorkersRetire == Spec => []NoStaleWorker
<1>1. SupervisorInv => NoStaleWorker
  BY DEF SupervisorInv, ReloadInv, NoStaleWorker, NoneStale
<1> QED
  BY <1>1, SupervisorInvariant, PTL
=============================================================================
