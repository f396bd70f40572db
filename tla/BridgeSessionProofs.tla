------------------------ MODULE BridgeSessionProofs ------------------------
(***************************************************************************)
(* Theorems about BridgeSession, for every value of its constants.         *)
(***************************************************************************)
EXTENDS BridgeSession, QueueLemmas

-----------------------------------------------------------------------------
(* Where the threads are, what they send and who holds bluetooth_mutex.     *)

Threads == Senders \cup {"monitor", "writer"}
Resume  == {"check", "build", "audio", "record"}
MainPlaces == Early \cup {"join", "join_monitor", "join_writer", "ended"}

PlaceType ==
  /\ pc \in [Threads -> Labels] /\ bluetooth_mutex \in Senders \cup {None}
  /\ out \in [Senders -> Seq(Report)] /\ output_state \in DsState
Carries == \A t \in Senders : pc[t] \in HasReport => out[t] # <<>>
Resumes == then \in [Senders -> Resume]
PlaceInv == PlaceType /\ LockInv /\ Carries /\ Resumes /\ MainInv

(* Thread t goes on at l.                                                   *)
Moves(t, l) ==
  /\ t \in Threads /\ l \in Labels /\ pc' = [pc EXCEPT ![t] = l]
  /\ out' \in [Senders -> Seq(Report)] /\ then' \in [Senders -> Resume]
  /\ \A u \in Senders : u # t => out'[u] = out[u]
  /\ t \in Senders /\ l \in HasReport => out'[t] # <<>>
  /\ t \in Workers => pc[t] # "unborn"
  /\ then'["main"] = then["main"]
  /\ t = "main" => l \in MainPlaces /\ (l \in Early => pc["main"] \in Early)
  /\ l = "apply" => TakeEffects
  /\ pc[t] = "idle" => OutputIdle(t)
(* It holds the lock as before, takes it or gives it back.                  *)
KeepsLock(t, l) == UNCHANGED bluetooth_mutex /\ (pc[t] \in Locked <=> l \in Locked)
TakesLock(t, l) ==
  t \in Senders /\ bluetooth_mutex = None /\ bluetooth_mutex' = t /\ l \in Locked
GivesLock(t, l) ==
  t \in Senders /\ pc[t] \in Locked /\ bluetooth_mutex' = None /\ l \notin Locked
Goes(t, l) == Moves(t, l) /\ (KeepsLock(t, l) \/ TakesLock(t, l) \/ GivesLock(t, l))

LEMMA GoesOn ==
  ASSUME PlaceInv, NEW t, NEW l, Goes(t, l), output_state' \in DsState
  PROVE  PlaceInv'
<1>1. /\ pc \in [Threads -> Labels] /\ pc' \in [Threads -> Labels]
      /\ t \in Threads /\ pc'[t] = l /\ \A u \in Threads : u # t => pc'[u] = pc[u]
  BY DEF PlaceInv, PlaceType, Goes, Moves
<1>2. Senders \subseteq Threads /\ Workers \subseteq Senders /\ "main" \in Senders
      /\ "main" \notin Workers /\ None \notin Senders
  BY BridgeAssumption DEF Senders, Threads, Workers
<1>3. PlaceType'
  BY <1>1 DEF PlaceInv, PlaceType, Goes, Moves, KeepsLock, TakesLock, GivesLock
<1>4. LockInv'
  <2> SUFFICES ASSUME NEW u \in Senders PROVE pc'[u] \in Locked <=> bluetooth_mutex' = u
    BY DEF LockInv
  <2>1. pc[u] \in Locked <=> bluetooth_mutex = u
    BY DEF PlaceInv, LockInv
  <2>2. t \in Senders => (pc[t] \in Locked <=> bluetooth_mutex = t)
    BY DEF PlaceInv, LockInv
  <2>3. CASE KeepsLock(t, l)
    BY <1>1, <1>2, <2>1, <2>3 DEF KeepsLock
  <2>4. CASE TakesLock(t, l)
    BY <1>1, <1>2, <2>1, <2>4 DEF TakesLock
  <2>5. CASE GivesLock(t, l)
    BY <1>1, <1>2, <2>1, <2>2, <2>5 DEF GivesLock
  <2> QED
    BY <2>3, <2>4, <2>5 DEF Goes
<1>5. Carries'
  BY <1>1, <1>2 DEF PlaceInv, Carries, Goes, Moves
<1>6. Resumes'
  BY DEF Resumes, Goes, Moves
<1>7. MainInv'
  <2>1. then'["main"] = "record"
    BY DEF PlaceInv, MainInv, Goes, Moves
  <2>2. CASE t = "main"
    BY <1>1, <1>2, <2>1, <2>2 DEF PlaceInv, MainInv, Goes, Moves, MainPlaces
  <2>3. CASE t \in Workers
    BY <1>1, <1>2, <2>1, <2>3 DEF PlaceInv, MainInv, Goes, Moves
  <2>4. CASE t \notin Senders
    BY <1>1, <1>2, <2>1, <2>4 DEF PlaceInv, MainInv
  <2> QED
    BY <2>2, <2>3, <2>4 DEF Senders
<1> QED
  BY <1>3, <1>4, <1>5, <1>6, <1>7 DEF PlaceInv

(* Most steps are of one thread that sends nothing and takes no lock.       *)
LEMMA Plain ==
  ASSUME PlaceInv, NEW t \in Threads, NEW l \in Labels, Goto(t, l), UNCHANGED lockVars,
         t \in Workers => pc[t] # "unborn",
         t = "main" => l \in MainPlaces \ Early,
         l \notin HasReport, pc[t] \notin Locked, l \notin Locked,
         l = "apply" => TakeEffects
  PROVE  Goes(t, l)
<1>1. pc[t] # "idle"
  BY DEF Locked
<1> QED
  BY <1>1 DEF PlaceInv, PlaceType, Resumes, Goto, Goes, Moves, KeepsLock, lockVars

(* The reports of one section are a sequence of them.                       *)
LEMMA Built ==
  ASSUME PlaceInv, NEW t \in Workers, NEW s \in DsState, NEW l \in Resume,
         NEW kinds \in Seq(Kinds), kinds # <<>>,
         Holds(t, kinds, s, l), pc[t] # "unborn", pc[t] \notin Locked, UNCHANGED bluetooth_mutex
  PROVE  Goes(t, "send")
<1> DEFINE rs == [i \in 1 .. Len(kinds) |-> [kind |-> kinds[i], ds |-> s]]
<1>1. Len(kinds) \in Nat \ {0} /\ \A i \in 1 .. Len(kinds) : kinds[i] \in Kinds
  BY LenProperties, ElementOfSeq, EmptySeq
<1>2. rs \in [1 .. Len(kinds) -> Report]
  BY <1>1 DEF Report
<1>3. rs \in Seq(Report) /\ Len(rs) = Len(kinds)
  BY <1>1, <1>2, AsSequence
<1>4. rs # <<>>
  BY <1>1, <1>3
<1>5. /\ out' = [out EXCEPT ![t] = rs] /\ then' = [then EXCEPT ![t] = l]
      /\ pc' = [pc EXCEPT ![t] = "send"]
  BY DEF Holds, Hold, Goto
<1> HIDE DEF rs
<1>6. t \in Threads /\ t \in Senders /\ t # "main" /\ "send" \in Labels
  BY DEF Threads, Senders, Workers, Labels
<1>7. Moves(t, "send")
  BY <1>3, <1>4, <1>5, <1>6 DEF PlaceInv, PlaceType, Resumes, Moves, Locked
<1>8. KeepsLock(t, "send")
  BY DEF KeepsLock, Locked
<1> QED
  BY <1>7, <1>8 DEF Goes

LEMMA SendingGoes ==
  ASSUME PlaceInv, NEW t \in Senders, Sending(t)
  PROVE  \E l : Goes(t, l)
<1>0. t \in Threads /\ pc \in [Threads -> Labels] /\ out \in [Senders -> Seq(Report)]
      /\ then \in [Senders -> Resume] /\ Resume \subseteq Labels /\ output_state \in DsState
  BY DEF PlaceInv, PlaceType, Resumes, Threads, Resume, Labels
<1>1. CASE BuildIfChanged(t)
  <2>1. pc[t] = "build" /\ t \in Workers
    BY <1>1 DEF BuildIfChanged, PlaceInv, MainInv, Early, HasReport, Senders
  <2>2. /\ After(t) \in Resume \cap Labels /\ After(t) \notin HasReport \cup Locked \cup {"apply"}
        /\ pc[t] # "unborn" /\ pc[t] \notin Locked /\ t # "main"
    BY <2>1 DEF After, Resume, Labels, HasReport, Locked, Workers
  <2>3. CASE Goto(t, After(t)) /\ UNCHANGED lockVars
    BY <1>0, <2>2, <2>3, Plain
  <2>4. CASE Holds(t, <<"state">>, output_state, After(t)) /\ UNCHANGED bluetooth_mutex
    <3>1. <<"state">> \in Seq(Kinds) /\ <<"state">> # <<>>
      BY DEF Kinds
    <3> QED
      BY <1>0, <2>1, <2>2, <2>4, <3>1, Built
  <2> QED
    BY <1>1, <2>3, <2>4 DEF BuildIfChanged, lockVars
<1>2. CASE Lock(t)
  <2>1. /\ pc[t] = "send" /\ bluetooth_mutex = None /\ bluetooth_mutex' = t
        /\ pc' = [pc EXCEPT ![t] = "hold"] /\ UNCHANGED <<out, then>>
    BY <1>2 DEF Lock, Goto
  <2>2. Moves(t, "hold")
    BY <1>0, <2>1 DEF Moves, PlaceInv, Carries, HasReport, MainPlaces, Early, Labels
  <2>3. TakesLock(t, "hold")
    BY <2>1 DEF TakesLock, Locked
  <2> QED
    BY <2>2, <2>3 DEF Goes
<1>3. ASSUME NEW l \in Resume, pc[t] \in {"hold", "idle"}, Advance(t, l), t = "main" => l = "record",
             pc[t] = "idle" => OutputIdle(t)
      PROVE  \E m : Goes(t, m)
  <2> DEFINE rest == Tail(out[t])  m == IF rest = <<>> THEN l ELSE "send"
  <2>1. out[t] \in Seq(Report) /\ out[t] # <<>>
    BY <1>0, <1>3 DEF PlaceInv, Carries, HasReport
  <2>2. rest \in Seq(Report)
    BY <2>1, TailOf
  <2>3. /\ bluetooth_mutex' = None /\ out' = [out EXCEPT ![t] = rest]
        /\ pc' = [pc EXCEPT ![t] = m] /\ UNCHANGED then
    BY <1>3 DEF Advance, Goto
  <2>4. /\ m \in Labels /\ m \notin Locked /\ (m \in HasReport => rest # <<>>)
        /\ m # "apply"
        /\ (t = "main" => m \in Early)
    BY <1>0, <1>3 DEF Labels, Locked, HasReport, Resume, Early
  <2> HIDE DEF rest, m
  <2>5. Moves(t, m)
    BY <1>0, <1>3, <2>2, <2>3, <2>4 DEF Moves, MainPlaces, Early, HasReport
  <2>6. GivesLock(t, m)
    BY <1>3, <2>3, <2>4 DEF GivesLock, Locked
  <2> QED
    BY <2>5, <2>6 DEF Goes
<1>4. then[t] \in Resume /\ (t = "main" => then[t] = "record")
  BY <1>0 DEF PlaceInv, MainInv
<1>5. ASSUME NEW l \in {"sent", "blocked"}, pc[t] = "hold", bluetooth_mutex' = None,
             Goto(t, l), UNCHANGED <<out, then>>
      PROVE  Goes(t, l)
  <2>1. Moves(t, l)
    BY <1>0, <1>5 DEF Goto, Moves, MainPlaces, Early, HasReport, Labels, PlaceInv, Carries
  <2>2. GivesLock(t, l)
    BY <1>5 DEF GivesLock, Locked
  <2> QED
    BY <2>1, <2>2 DEF Goes
<1>6. ASSUME pc[t] = "hold", Goto(t, "idle"), UNCHANGED lockVars
      PROVE  Goes(t, "idle")
  <2>1. Moves(t, "idle")
    BY <1>0, <1>6 DEF Goto, Moves, MainPlaces, Early, HasReport, Labels, PlaceInv, Carries,
       lockVars
  <2>2. KeepsLock(t, "idle")
    BY <1>6 DEF KeepsLock, Locked, lockVars
  <2> QED
    BY <2>1, <2>2 DEF Goes
<1>7. CASE Enqueue(t)
  <2>1. /\ pc[t] = "hold"
        /\ \/ bluetooth_mutex' = None /\ Goto(t, "blocked") /\ UNCHANGED <<out, then>>
           \/ Advance(t, then[t])
           \/ bluetooth_mutex' = None /\ Goto(t, "sent") /\ UNCHANGED <<out, then>>
           \/ Goto(t, "idle") /\ UNCHANGED lockVars
    BY <1>7 DEF Enqueue
  <2> QED
    BY <1>3, <1>4, <1>5, <1>6, <2>1
<1>8. CASE OutputIdle(t)
  BY <1>3, <1>4, <1>8 DEF OutputIdle
<1> QED
  BY <1>1, <1>2, <1>7, <1>8 DEF Sending

LEMMA StoppingGoes ==
  ASSUME PlaceInv, NEW t \in Stoppers, Stopping(t)
  PROVE  \E l : Goes(t, l)
<1>0. t \in Threads /\ t # "main"
  BY DEF Stoppers, Threads, Senders, Workers
<1>1. \E l \in Labels \ (HasReport \cup Locked \cup {"apply"}) :
        Goto(t, l) /\ UNCHANGED lockVars /\ pc[t] # "unborn" /\ pc[t] \notin Locked
  BY DEF Stopping, Request, CancelVirtual, CancelBluetooth, JoinWriter, Labels, HasReport, Locked
<1> QED
  BY <1>0, <1>1, Plain

LEMMA WriterGoes ==
  ASSUME PlaceInv, Writer PROVE \E l : Goes("writer", l)
<1>1. "writer" \in Threads /\ "writer" \notin Workers
  BY DEF Threads, Workers
<1>2. \E l \in Labels \ (HasReport \cup Locked \cup {"apply"}) :
        Goto("writer", l) /\ UNCHANGED lockVars /\ pc["writer"] \notin Locked
  BY DEF Writer, WriterTakes, WriteSucceeds, WriteFails, WriterStops, Labels, HasReport, Locked
<1> QED
  BY <1>1, <1>2, Plain

LEMMA MonitorGoes ==
  ASSUME PlaceInv, Monitor PROVE \E l : Goes("monitor", l)
<1>1. "monitor" \in Threads /\ "monitor" \notin Workers /\ "monitor" \in Stoppers
  BY DEF Threads, Workers, Stoppers
<1>2. CASE MonitorPolls
  <2>1. \E l \in {"request", "ended"} :
          Goto("monitor", l) /\ UNCHANGED lockVars /\ pc["monitor"] = "poll"
    BY <1>2 DEF MonitorPolls
  <2> QED
    BY <1>1, <2>1, Plain DEF Labels, HasReport, Locked
<1> QED
  BY <1>1, <1>2, StoppingGoes DEF Monitor

LEMMA VirtualGoes ==
  ASSUME PlaceInv, output_state' \in DsState, Virtual \/ HostSends
  PROVE  \E l : Goes("virtual", l)
<1>0. "virtual" \in Workers /\ "virtual" \in Senders /\ "virtual" \in Threads /\ "virtual" \in Stoppers
  BY DEF Threads, Senders, Workers, Stoppers
<1>1. CASE Sending("virtual") \/ Stopping("virtual")
  BY <1>0, <1>1, SendingGoes, StoppingGoes
<1>2. CASE LoopCheck("virtual", "enter") \/ VirtualReads \/ VirtualReadEnds
  <2>1. \E l \in Labels \ (HasReport \cup Locked \cup {"apply"}) :
          /\ Goto("virtual", l) /\ UNCHANGED lockVars
          /\ pc["virtual"] \in {"check", "enter", "reading"}
    BY <1>2 DEF LoopCheck, VirtualReads, VirtualReadEnds, Throw, Labels, HasReport, Locked
  <2> QED
    BY <1>0, <2>1, Plain DEF Locked
<1>3. CASE HostSends
  <2>1. \E l \in {"build", "check", "mic", "get", "set"} :
          Goto("virtual", l) /\ UNCHANGED lockVars /\ pc["virtual"] = "reading"
    BY <1>3 DEF HostSends, AudioInterface, Capture, Pcm, HidOut, Feature, Frame, Build,
       Continue, lockVars
  <2> QED
    BY <1>0, <2>1, Plain DEF Labels, HasReport, Locked
<1>4. CASE MicState
  <2>1. <<"mic_state", "mic">> \in Seq(Kinds) /\ <<"mic_state", "mic">> # <<>>
    BY DEF Kinds
  <2>2. /\ pc["virtual"] = "mic" /\ UNCHANGED bluetooth_mutex
        /\ Holds("virtual", <<"mic_state", "mic">>, output_state', "check")
    BY <1>4 DEF MicState
  <2> QED
    BY <1>0, <2>1, <2>2, Built DEF Resume, Locked
<1>5. CASE FeatureLock
  <2>1. PICK l \in {"getting", "setting"} :
          /\ pc' = [pc EXCEPT !["virtual"] = l] /\ UNCHANGED <<out, then>>
          /\ bluetooth_mutex = None /\ bluetooth_mutex' = "virtual"
          /\ pc["virtual"] \in {"get", "set"}
    BY <1>5 DEF FeatureLock, Goto
  <2>2. Moves("virtual", l)
    BY <1>0, <2>1 DEF Moves, PlaceInv, PlaceType, Resumes, Labels, HasReport
  <2>3. TakesLock("virtual", l)
    BY <1>0, <2>1 DEF TakesLock, Locked
  <2> QED
    BY <2>2, <2>3 DEF Goes
<1>6. CASE FeatureDone
  <2>1. /\ pc' = [pc EXCEPT !["virtual"] = "check"] /\ UNCHANGED <<out, then>>
        /\ bluetooth_mutex' = None /\ pc["virtual"] \in {"getting", "setting"}
    BY <1>6 DEF FeatureDone, Goto
  <2>2. Moves("virtual", "check")
    BY <1>0, <2>1 DEF Moves, PlaceInv, PlaceType, Resumes, Labels, HasReport
  <2>3. GivesLock("virtual", "check")
    BY <1>0, <2>1 DEF GivesLock, Locked
  <2> QED
    BY <2>2, <2>3 DEF Goes
<1> QED
  BY <1>1, <1>2, <1>3, <1>4, <1>5, <1>6 DEF Virtual

LEMMA BluetoothGoes ==
  ASSUME PlaceInv, output_state' \in DsState, Bluetooth \/ ControllerReports \/ ControllerLost
  PROVE  \E l : Goes("bluetooth", l)
<1>0. /\ "bluetooth" \in Workers /\ "bluetooth" \in Senders /\ "bluetooth" \in Threads
      /\ "bluetooth" \in Stoppers
  BY DEF Threads, Senders, Workers, Stoppers
<1>1. CASE Sending("bluetooth") \/ Stopping("bluetooth")
  BY <1>0, <1>1, SendingGoes, StoppingGoes
<1>2. CASE LoopCheck("bluetooth", "reading") \/ BluetoothReadEnds \/ BluetoothWriteEnds
             \/ ControllerReports \/ ControllerLost
  <2>1. \E l \in Labels \ (HasReport \cup Locked \cup {"apply"}) :
          /\ Goto("bluetooth", l) /\ UNCHANGED lockVars
          /\ pc["bluetooth"] \in {"check", "reading", "writing"}
    BY <1>2 DEF LoopCheck, BluetoothReadEnds, BluetoothWriteEnds, ControllerReports,
       ControllerLost, BluetoothThrows, Throw, Labels, HasReport, Locked
  <2> QED
    BY <1>0, <2>1, Plain DEF Locked
<1>3. ASSUME NEW plugged \in BOOLEAN, NEW toggled \in BOOLEAN, InputReport(plugged, toggled)
      PROVE  \E l : Goes("bluetooth", l)
  <2>1. PICK next \in {"build", "check"} :
          /\ pc["bluetooth"] = "writing" /\ UNCHANGED bluetooth_mutex
          /\ \/ Holds("bluetooth", <<"mic_state">>, output_state', next)
             \/ Goto("bluetooth", next) /\ UNCHANGED <<out, then>>
    BY <1>3 DEF InputReport
  <2>2. CASE Holds("bluetooth", <<"mic_state">>, output_state', next)
    <3>1. <<"mic_state">> \in Seq(Kinds) /\ <<"mic_state">> # <<>>
      BY DEF Kinds
    <3>2. next \in Resume /\ pc["bluetooth"] # "unborn" /\ pc["bluetooth"] \notin Locked
      BY <2>1 DEF Resume, Locked
    <3> QED
      BY <1>0, <2>1, <2>2, <3>1, <3>2, Built
  <2>3. CASE Goto("bluetooth", next) /\ UNCHANGED <<out, then>>
    BY <1>0, <2>1, <2>3, Plain DEF Labels, HasReport, Locked, lockVars
  <2> QED
    BY <2>1, <2>2, <2>3
<1> QED
  BY <1>1, <1>2, <1>3 DEF Bluetooth, BluetoothHandles

LEMMA FlushGoes ==
  ASSUME PlaceInv, output_state' \in DsState, Flush
  PROVE  \E l : Goes("flush", l)
<1>0. "flush" \in Workers /\ "flush" \in Senders /\ "flush" \in Threads
  BY DEF Threads, Senders, Workers
<1>1. CASE Sending("flush")
  BY <1>0, <1>1, SendingGoes
<1>2. CASE FlushEnds \/ TakeEffects \/ ApplyEffects
  <2>1. \E l \in {"ended", "apply", "build"} :
          /\ Goto("flush", l) /\ UNCHANGED lockVars /\ pc["flush"] \in {"check", "apply"}
          /\ l = "apply" => TakeEffects
    BY <1>2 DEF FlushEnds, TakeEffects, ApplyEffects
  <2> QED
    BY <1>0, <2>1, Plain DEF Labels, HasReport, Locked
<1>3. ASSUME FlushFrame PROVE pc["flush"] \in {"check", "audio"} /\ UNCHANGED bluetooth_mutex
  BY <1>3 DEF FlushFrame
<1>4. ASSUME FlushFrame, Continue("flush") PROVE Goes("flush", "check")
  BY <1>0, <1>3, <1>4, Plain DEF Continue, Labels, HasReport, Locked, lockVars
<1>5. ASSUME FlushFrame, NEW k \in Kinds, NEW s \in DsState, Holds("flush", <<k>>, s, "check")
      PROVE  Goes("flush", "send")
  <2>1. <<k>> \in Seq(Kinds) /\ <<k>> # <<>>
    OBVIOUS
  <2>2. "check" \in Resume /\ pc["flush"] # "unborn" /\ pc["flush"] \notin Locked
    BY <1>3, <1>5 DEF Resume, Locked
  <2> QED
    BY <1>0, <1>3, <1>5, <2>1, <2>2, Built
<1>6. CASE FlushWaits
  BY <1>4, <1>6 DEF FlushWaits
<1>7. CASE FlushChunk \/ FlushConceals
  <2>1. output_state \in DsState /\ "audio" \in Kinds /\ "concealment" \in Kinds
    BY DEF PlaceInv, PlaceType, Kinds
  <2> QED
    BY <1>5, <1>7, <2>1 DEF FlushChunk, FlushConceals, SendAudio
<1>8. CASE FlushUnderflow
  <2>1. "state" \in Kinds
    BY DEF Kinds
  <2> QED
    BY <1>4, <1>5, <1>8, <2>1 DEF FlushUnderflow
<1>9. CASE AudioSent \/ AudioBlocked
  <2>1. /\ pc' = [pc EXCEPT !["flush"] = "check"] /\ out' = [out EXCEPT !["flush"] = <<>>]
        /\ UNCHANGED <<then, bluetooth_mutex>> /\ pc["flush"] \in {"sent", "blocked"}
    BY <1>9 DEF AudioSent, AudioBlocked, AudioDone, Goto
  <2>2. <<>> \in Seq(Report)
    OBVIOUS
  <2>3. Moves("flush", "check")
    BY <1>0, <2>1, <2>2 DEF Moves, PlaceInv, PlaceType, Resumes, Labels, HasReport
  <2>4. KeepsLock("flush", "check")
    BY <2>1 DEF KeepsLock, Locked
  <2> QED
    BY <2>3, <2>4 DEF Goes
<1> QED
  BY <1>1, <1>2, <1>6, <1>7, <1>8, <1>9 DEF Flush

(* The threads are born together, when main has done what it does alone.    *)
Born ==
  /\ pc["main"] = "info" /\ UNCHANGED lockVars
  /\ pc' = [t \in DOMAIN pc |->
              IF t \in Workers THEN "check" ELSE IF t = "main" THEN "join" ELSE pc[t]]

LEMMA MainGoes ==
  ASSUME PlaceInv, Main PROVE (\E l : Goes("main", l)) \/ Born
<1>0. "main" \notin Workers /\ "main" \in Senders /\ "main" \in Threads
  BY DEF Threads, Senders, Workers
<1>1. CASE Sending("main")
  BY <1>0, <1>1, SendingGoes
<1>2. CASE RecordInitial
  <2>1. /\ pc' = [pc EXCEPT !["main"] = "info"] /\ UNCHANGED lockVars /\ pc["main"] = "record"
    BY <1>2 DEF RecordInitial, MainFrame, Goto
  <2>2. Moves("main", "info")
    BY <1>0, <2>1 DEF Moves, PlaceInv, PlaceType, Resumes, Labels, HasReport, MainPlaces,
       Early, lockVars
  <2>3. KeepsLock("main", "info")
    BY <2>1 DEF KeepsLock, Locked, lockVars
  <2> QED
    BY <2>2, <2>3 DEF Goes
<1>3. CASE (MainStarts /\ bridge_restart_requested) \/ MainJoins \/ MainDestroys
             \/ JoinWriter("main")
  <2>1. \E l \in {"join_monitor", "join_writer", "ended"} :
          /\ Goto("main", l) /\ UNCHANGED lockVars
          /\ pc["main"] \in {"info", "join", "join_monitor", "join_writer"}
    BY <1>3 DEF MainStarts, MainJoins, MainDestroys, JoinWriter, MainFrame, Goto
  <2> QED
    BY <1>0, <2>1, Plain DEF Labels, HasReport, Locked, MainPlaces, Early
<1>4. CASE MainStarts /\ ~bridge_restart_requested
  BY <1>4 DEF MainStarts, MainFrame, Born
<1> QED
  BY <1>1, <1>2, <1>3, <1>4 DEF Main

LEMMA BornKeeps ==
  ASSUME PlaceInv, Born, output_state' \in DsState PROVE PlaceInv'
<1>1. /\ pc \in [Threads -> Labels] /\ UNCHANGED <<bluetooth_mutex, out, then>>
      /\ pc["main"] = "info"
      /\ pc' = [t \in Threads |->
                  IF t \in Workers THEN "check" ELSE IF t = "main" THEN "join" ELSE pc[t]]
  BY DEF PlaceInv, PlaceType, Born, lockVars
<1>2. pc' \in [Threads -> Labels]
  BY <1>1 DEF Labels
<1>3. Senders \subseteq Threads /\ "main" \in Senders /\ "main" \notin Workers
      /\ Senders = Workers \cup {"main"}
  BY DEF Senders, Threads, Workers
<1>4. \A t \in Senders : pc'[t] \in {"check", "join"} /\ pc[t] \notin Locked
  <2>1. \A t \in Workers : pc[t] = "unborn"
    BY <1>1 DEF PlaceInv, MainInv, Early
  <2> QED
    BY <1>1, <1>3, <2>1 DEF Locked
<1>5. PlaceType'
  BY <1>1, <1>2 DEF PlaceInv, PlaceType
<1>6. LockInv'
  BY <1>1, <1>4 DEF PlaceInv, LockInv, Locked
<1>7. Carries' /\ Resumes'
  BY <1>1, <1>4 DEF PlaceInv, Carries, Resumes, HasReport
<1>8. MainInv'
  BY <1>1, <1>3 DEF PlaceInv, MainInv, Early, HasReport
<1> QED
  BY <1>5, <1>6, <1>7, <1>8 DEF PlaceInv

LEMMA PlaceStep ==
  ASSUME PlaceInv, output_state' \in DsState, [Next]_vars PROVE PlaceInv'
<1>1. CASE UNCHANGED <<pc, lockVars>>
  BY <1>1 DEF PlaceInv, PlaceType, LockInv, Carries, Resumes, MainInv, lockVars
<1>2. CASE EffectsSet \/ StopDaemon \/ StopSession \/ PipeBreaks \/ UNCHANGED vars
  BY <1>1, <1>2 DEF EffectsSet, StopDaemon, StopSession, PipeBreaks, EnvFrame, vars
<1>3. CASE Main
  BY <1>3, MainGoes, GoesOn, BornKeeps
<1>4. CASE Monitor \/ Virtual \/ Bluetooth \/ Flush \/ Writer \/ HostSends
             \/ ControllerReports \/ ControllerLost
  BY <1>4, MonitorGoes, VirtualGoes, BluetoothGoes, FlushGoes, WriterGoes, GoesOn
<1> QED
  BY <1>2, <1>3, <1>4 DEF Next

-----------------------------------------------------------------------------
(* The effects.                                                             *)

StoreType ==
  /\ world \in Worlds /\ effects \in 0 .. world.effects + 2
  /\ store \in Effects!Authored /\ saved \in Effects!Authored
  /\ applied_effects_generation \in 0 .. effects /\ authored_effects \in Effects!Authored
StoreInv == StoreType /\ EffectsInv

LEMMA WorldTypes ==
  ASSUME world \in Worlds
  PROVE  /\ world.frames \in Nat /\ world.reports \in Nat /\ world.effects \in Nat
         /\ \A c \in world.commands : c \in Effects!Fields
BY BridgeAssumption, EffectsAssumption

LEMMA ChangedType ==
  ASSUME NEW e \in Effects!Authored, NEW c \in Effects!Fields, NEW n \in Nat
  PROVE  Effects!Changed(e, c, n) \in Effects!Authored
<1> DEFINE base == IF c.clear THEN Effects!Cleared ELSE e
<1>1. base \in Effects!Authored
  BY DEF Effects!Cleared, Effects!Authored
<1>2. /\ c.trigger \in {"keep", "none", "set"} /\ c.light \in {"keep", "none", "set"}
      /\ c.mute_light \in {"keep", "none", "set"}
      /\ base.trigger \in Nat /\ base.light \in Nat /\ base.mute_light \in Nat
      /\ base.force \in BOOLEAN
  BY <1>1 DEF Effects!Fields, Effects!Authored
<1>3. Effects!Changed(e, c, n) =
        [trigger |-> Effects!Updated(base.trigger, c.trigger, n),
         light   |-> Effects!Updated(base.light, c.light, n),
         mute_light |-> Effects!Updated(base.mute_light, c.mute_light, n),
         force   |-> IF c.force = "keep" THEN base.force ELSE c.force = "on"]
  BY DEF Effects!Changed
<1> HIDE DEF base
<1>4. /\ Effects!Updated(base.trigger, c.trigger, n) \in Nat
      /\ Effects!Updated(base.light, c.light, n) \in Nat
      /\ Effects!Updated(base.mute_light, c.mute_light, n) \in Nat
      /\ (IF c.force = "keep" THEN base.force ELSE c.force = "on") \in BOOLEAN
  BY <1>2 DEF Effects!Updated
<1> QED
  BY <1>3, <1>4 DEF Effects!Authored

(* Only their own steps touch the effects and what the session has of them. *)
LEMMA StoreSteps ==
  ASSUME PlaceInv, output_state' \in DsState, [Next]_vars
  PROVE  \/ EffectsSet /\ UNCHANGED pc
         \/ TakeEffects \/ ApplyEffects
         \/ /\ UNCHANGED <<world, userVars>>
            /\ pc'["flush"] = "apply" => pc["flush"] = "apply"
<1> USE DEF envVars, userVars
<1>1. CASE EffectsSet
  BY <1>1 DEF EffectsSet
<1>2. ASSUME ~TakeEffects, ~ApplyEffects, ~EffectsSet
      PROVE  UNCHANGED <<world, userVars>>
  <2>1. CASE \E t \in Senders : Sending(t)
    BY <2>1 DEF Sending, BuildIfChanged, Lock, Enqueue, OutputIdle
  <2>2. CASE \E t \in Stoppers \cup {"main"} : Stopping(t)
    BY <2>2 DEF Stopping, Request, CancelVirtual, CancelBluetooth, JoinWriter
  <2>3. CASE Writer
    BY <2>3 DEF Writer, WriterTakes, WriteSucceeds, WriteFails, WriterStops
  <2>4. CASE LoopCheck("virtual", "enter") \/ VirtualReads \/ VirtualReadEnds
               \/ MicState \/ FeatureLock \/ FeatureDone
    BY <2>4 DEF LoopCheck, VirtualReads, VirtualReadEnds, MicState, FeatureLock, FeatureDone
  <2>5. CASE HostSends
    BY <2>5 DEF HostSends, AudioInterface, Capture, Pcm, HidOut, Feature, Frame
  <2>6. CASE LoopCheck("bluetooth", "reading") \/ BluetoothReadEnds \/ BluetoothWriteEnds
               \/ BluetoothHandles \/ ControllerReports \/ ControllerLost
    BY <2>6 DEF LoopCheck, BluetoothReadEnds, BluetoothWriteEnds, BluetoothHandles, InputReport,
       ControllerReports, ControllerLost, BluetoothThrows
  <2>7. CASE FlushEnds \/ FlushWaits \/ FlushChunk \/ FlushConceals \/ FlushUnderflow
               \/ AudioSent \/ AudioBlocked
    BY <2>7 DEF FlushEnds, FlushWaits, FlushChunk, FlushConceals, FlushUnderflow,
       FlushFrame, AudioSent, AudioBlocked, AudioDone
  <2>8. CASE MonitorPolls \/ RecordInitial \/ MainStarts \/ MainJoins \/ MainDestroys
               \/ JoinWriter("main")
    BY <2>8 DEF MonitorPolls, RecordInitial, MainStarts, MainJoins, MainDestroys, MainFrame,
       JoinWriter
  <2>9. CASE StopDaemon \/ StopSession \/ PipeBreaks \/ UNCHANGED vars
    BY <2>9 DEF StopDaemon, StopSession, PipeBreaks, EnvFrame, vars
  <2>10. /\ {"virtual", "bluetooth", "flush", "main"} \subseteq Senders
         /\ {"virtual", "bluetooth", "monitor"} \subseteq Stoppers
    BY DEF Senders, Workers, Stoppers
  <2> QED
    BY <1>2, <2>1, <2>2, <2>3, <2>4, <2>5, <2>6, <2>7, <2>8, <2>9, <2>10
       DEF Next, Main, Monitor, Virtual, Bluetooth, Flush
<1>3. ASSUME ~TakeEffects PROVE pc'["flush"] = "apply" => pc["flush"] = "apply"
  <2>0. pc \in [Threads -> Labels] /\ "flush" \in Threads /\ "flush" \in Workers
    BY DEF PlaceInv, PlaceType, Threads, Senders, Workers
  <2>1. ASSUME NEW t, NEW l, Goes(t, l) PROVE pc'["flush"] = "apply" => pc["flush"] = "apply"
    BY <1>3, <2>0, <2>1 DEF Goes, Moves
  <2>2. CASE Born
    BY <2>0, <2>2 DEF Born
  <2>3. CASE UNCHANGED pc
    BY <2>3
  <2>4. CASE EffectsSet \/ StopDaemon \/ StopSession \/ PipeBreaks \/ UNCHANGED vars
    BY <2>3, <2>4 DEF EffectsSet, StopDaemon, StopSession, PipeBreaks, EnvFrame, vars
  <2> QED
    BY <2>1, <2>2, <2>4, MainGoes, MonitorGoes, VirtualGoes, BluetoothGoes, FlushGoes,
       WriterGoes DEF Next
<1> QED
  BY <1>1, <1>2, <1>3

LEMMA StoreStep ==
  ASSUME PlaceInv, StoreInv, output_state' \in DsState, [Next]_vars PROVE StoreInv'
<1>0. /\ world \in Worlds /\ effects \in Nat /\ world.effects \in Nat
      /\ \A c \in world.commands : c \in Effects!Fields
      /\ store \in Effects!Authored /\ saved \in Effects!Authored
      /\ request \in [pc : {"none", "store", "save"}, effects : Effects!Authored]
      /\ applied_effects_generation \in 0 .. effects
      /\ effects <= world.effects + 1 /\ (request.pc = "store" => effects <= world.effects)
      /\ pc["flush"] = "apply" => taken \in [generation : 0 .. effects, effects : Effects!Authored]
  BY WorldTypes DEF StoreInv, StoreType, EffectsInv
<1>1. CASE EffectsSet /\ UNCHANGED pc
  <2>0. UNCHANGED <<world, applied_effects_generation, authored_effects, taken>>
    BY <1>1 DEF EffectsSet
  <2>1. ASSUME NEW e \in Nat, effects' = e, e >= effects, e <= world.effects + 1,
               store' \in Effects!Authored, saved' \in Effects!Authored,
               request' \in [pc : {"none", "store", "save"}, effects : Effects!Authored],
               request'.pc = "store" => e <= world.effects
        PROVE  StoreInv'
    <3>1. \A n \in 0 .. effects : n \in 0 .. e
      BY <1>0, <2>1
    <3>2. pc'["flush"] = "apply" => taken' \in [generation : 0 .. e, effects : Effects!Authored]
      BY <1>0, <1>1, <2>0, <3>1
    <3>3. StoreType'
      BY <1>0, <2>0, <2>1, <3>1 DEF StoreInv, StoreType
    <3> QED
      BY <1>0, <2>0, <2>1, <3>2, <3>3 DEF StoreInv, EffectsInv
  <2>2. ASSUME NEW c \in world.commands, effects < world.effects, Effects!CommandCopies(c)
        PROVE  StoreInv'
    <3>1. Effects!Changed(store, c, effects + 1) \in Effects!Authored
      BY <1>0, ChangedType
    <3>2. /\ request' = [pc |-> "store", effects |-> Effects!Changed(store, c, effects + 1)]
          /\ UNCHANGED <<store, effects, saved>>
      BY <2>2 DEF Effects!CommandCopies
    <3> QED
      BY <1>0, <2>1, <2>2, <3>1, <3>2
  <2>3. ASSUME NEW p, effects < world.effects, Effects!DsxPacket(p)
        PROVE  StoreInv'
    <3>1. /\ effects' \in {effects, effects + 1} /\ UNCHANGED <<request, saved>>
      BY <2>3 DEF Effects!DsxPacket, Effects!Apply
    <3>2. store' \in Effects!Authored
      <4>1. ASSUME NEW old \in Nat, NEW i PROVE Effects!Obeyed(old, i, effects + 1) \in Nat
        BY <1>0 DEF Effects!Obeyed
      <4>0. store \in Effects!Authored
        BY <1>0
      <4>2. /\ store.trigger \in Nat /\ store.light \in Nat /\ store.mute_light \in Nat
            /\ store.force \in BOOLEAN
        BY <4>0 DEF Effects!Authored
      <4>3. \E a, b, m \in Nat, f \in BOOLEAN :
              store' = [trigger |-> a, light |-> b, mute_light |-> m, force |-> f]
        <5>1. PICK a, b, m, i :
                 store' = [trigger    |-> Effects!Obeyed(store.trigger, a, effects + 1),
                           light      |-> Effects!Obeyed(store.light, b, effects + 1),
                           mute_light |-> Effects!Obeyed(store.mute_light, m, effects + 1),
                           force      |-> store.force /\ "reset" \notin i]
          BY <2>3 DEF Effects!DsxPacket, Effects!Apply
        <5>2. (store.force /\ "reset" \notin i) \in BOOLEAN
          OBVIOUS
        <5>3. /\ Effects!Obeyed(store.trigger, a, effects + 1) \in Nat
              /\ Effects!Obeyed(store.light, b, effects + 1) \in Nat
              /\ Effects!Obeyed(store.mute_light, m, effects + 1) \in Nat
          BY <4>1, <4>2
        <5> QED
          BY <5>1, <5>2, <5>3
      <4> QED
        BY <4>3 DEF Effects!Authored
    <3> QED
      BY <1>0, <2>1, <2>3, <3>1, <3>2
  <2>4. CASE Effects!CommandStores
    <3>1. /\ request.pc = "store" /\ store' = request.effects /\ effects' = effects + 1
          /\ request' = [request EXCEPT !.pc = "save"] /\ UNCHANGED saved
      BY <2>4 DEF Effects!CommandStores
    <3> QED
      BY <1>0, <2>1, <3>1
  <2>5. CASE Effects!CommandSaves
    <3>1. /\ request' = Effects!NoRequest /\ saved' \in {saved, request.effects}
          /\ UNCHANGED <<store, effects>>
      BY <2>5 DEF Effects!CommandSaves
    <3>2. Effects!NoRequest \in [pc : {"none", "store", "save"}, effects : Effects!Authored]
          /\ Effects!NoRequest.pc = "none"
      BY DEF Effects!NoRequest, Effects!Cleared, Effects!Authored
    <3> QED
      BY <1>0, <2>1, <3>1, <3>2
  <2> QED
    BY <1>1, <2>2, <2>3, <2>4, <2>5 DEF EffectsSet
<1>2. CASE TakeEffects
  <2>1. /\ taken' = [generation |-> effects, effects |-> store]
        /\ UNCHANGED <<world, storeVars, applied_effects_generation, authored_effects>>
    BY <1>2 DEF TakeEffects
  <2> QED
    BY <1>0, <2>1 DEF StoreInv, StoreType, EffectsInv, storeVars
<1>3. CASE ApplyEffects
  <2>1. /\ pc["flush"] = "apply" /\ pc'["flush"] # "apply"
        /\ applied_effects_generation' = taken.generation /\ authored_effects' = taken.effects
        /\ UNCHANGED <<world, storeVars>>
    BY <1>3 DEF ApplyEffects, Goto, TakenGeneration, PlaceInv, PlaceType, Threads, Senders,
       Workers
  <2> QED
    BY <1>0, <2>1 DEF StoreInv, StoreType, EffectsInv, storeVars
<1>4. CASE /\ UNCHANGED <<world, userVars>>
           /\ pc'["flush"] = "apply" => pc["flush"] = "apply"
  BY <1>4 DEF StoreInv, StoreType, EffectsInv, userVars, storeVars
<1> QED
  BY <1>1, <1>2, <1>3, <1>4, StoreSteps

-----------------------------------------------------------------------------
(* The output state and what is recorded as sent of it.                     *)

StateInv == output_state \in DsState /\ last_sent_state \in DsState \cup {None}

LEMMA RoutedType ==
  ASSUME NEW s \in DsState, NEW active, NEW plugged
  PROVE  Routed(s, active, plugged) \in DsState
BY DEF Routed, DsState

LEMMA AppliedType ==
  ASSUME NEW s \in DsState, NEW e \in Effects!Authored
  PROVE  ApplyAuthored(s, e) \in DsState
<1>1. /\ e.trigger \in Int /\ e.light \in Nat /\ e.mute_light \in Nat
      /\ s.trigger \in Int /\ s.light \in Nat /\ s.mute_light \in MuteLights
  BY DEF Effects!Authored, DsState
<1>2. \A a \in Int, b \in Nat, m \in MuteLights :
        [s EXCEPT !.trigger = a, !.light = b, !.mute_light = m] \in DsState
  BY DEF DsState
<1> DEFINE a == IF e.trigger = 0 THEN s.trigger ELSE e.trigger
           b == IF e.light = 0 THEN s.light ELSE e.light
           m == IF e.mute_light = 0 THEN s.mute_light
                ELSE [by |-> "user", n |-> e.mute_light]
<1>3. ApplyAuthored(s, e) = [s EXCEPT !.trigger = a, !.light = b, !.mute_light = m]
  BY <1>1 DEF ApplyAuthored, DsState
<1>4. a \in Int /\ b \in Nat
  BY <1>1
<1>5. m \in MuteLights
  BY <1>1 DEF MuteLights
<1> HIDE DEF a, b, m
<1> QED
  BY <1>2, <1>3, <1>4, <1>5

LEMMA MicType ==
  ASSUME NEW s \in DsState, NEW live \in BOOLEAN, NEW light \in MuteLights
  PROVE  [s EXCEPT !.mic = live, !.mute_light = light] \in DsState
BY DEF DsState

LEMMA MicLiveType ==
  ASSUME NEW s \in DsState, NEW muted PROVE MicLive(s, muted) \in DsState
<1> DEFINE live  == audio_in_stream_active /\ ~muted
           light == [by |-> "mic", n |-> IF muted THEN 1 ELSE 0]
<1>1. live \in BOOLEAN
  OBVIOUS
<1>2. light \in MuteLights
  BY DEF MuteLights
<1>3. MicLive(s, muted) = [s EXCEPT !.mic = live, !.mute_light = light]
  BY DEF MicLive
<1> HIDE DEF live, light
<1>4. [s EXCEPT !.mic = live, !.mute_light = light] \in DsState
  BY <1>1, <1>2, MicType
<1> QED
  BY <1>3, <1>4

LEMMA GameType ==
  ASSUME NEW s \in DsState, NEW n \in Nat
  PROVE  /\ [s EXCEPT !.game = n] \in DsState
         /\ [s EXCEPT !.game = n, !.trigger = -n,
                      !.mute_light = [by |-> "host", n |-> n]] \in DsState
<1>1. /\ [s EXCEPT !.game = n] \in DsState
      /\ \A m \in Int, light \in MuteLights :
           [s EXCEPT !.game = n, !.trigger = m, !.mute_light = light] \in DsState
  BY DEF DsState
<1>2. -n \in Int /\ [by |-> "host", n |-> n] \in MuteLights
  BY DEF MuteLights
<1> QED
  BY <1>1, <1>2

LEMMA HidOutState ==
  ASSUME StateInv, StoreInv, frames \in Nat, NEW f, HidOut(f)
  PROVE  output_state' \in DsState
<1>1. authored_effects \in Effects!Authored /\ output_state \in DsState
  BY DEF StateInv, StoreInv, StoreType
<1>2. HostReport(f, frames + 1) \in DsState
  <2>1. frames + 1 \in Nat
    OBVIOUS
  <2>2. CASE f = "hid_effects"
    <3>1. HostReport(f, frames + 1) =
            [output_state EXCEPT !.game = frames + 1, !.trigger = -(frames + 1),
                                 !.mute_light = [by |-> "host", n |-> frames + 1]]
      BY <2>2 DEF HostReport
    <3> QED
      BY <1>1, <2>1, <3>1, GameType
  <2>3. CASE f # "hid_effects"
    <3>1. HostReport(f, frames + 1) = [output_state EXCEPT !.game = frames + 1]
      BY <1>1, <2>3 DEF HostReport, DsState
    <3> QED
      BY <1>1, <2>1, <3>1, GameType
  <2> QED
    BY <2>2, <2>3
<1> DEFINE h == HostReport(f, frames + 1)
           r == Reasserted(h)
<1>3. r \in DsState
  BY <1>1, <1>2, AppliedType DEF Reasserted
<1>4. output_state' = r \/ output_state' = Routed(r, TRUE, headset_plugged)
  BY DEF HidOut
<1> HIDE DEF r
<1> QED
  BY <1>3, <1>4, RoutedType

LEMMA StateStep ==
  ASSUME StateInv, StoreInv, frames \in Nat, [Next]_vars PROVE StateInv'
<1> USE DEF stateVars, StateInv
<1>0. /\ output_state \in DsState /\ last_sent_state \in DsState \cup {None}
      /\ \A active, plugged : Routed(output_state, active, plugged) \in DsState
  BY RoutedType
<1>1. CASE \E t \in Senders : Sending(t)
  BY <1>1 DEF Sending, BuildIfChanged, Lock, Enqueue, OutputIdle
<1>2. CASE \E t \in Stoppers \cup {"main"} : Stopping(t)
  BY <1>2 DEF Stopping, Request, CancelVirtual, CancelBluetooth, JoinWriter
<1>3. CASE Writer
  BY <1>3 DEF Writer, WriterTakes, WriteSucceeds, WriteFails, WriterStops
<1>4. CASE LoopCheck("virtual", "enter") \/ VirtualReads \/ VirtualReadEnds
             \/ FeatureLock \/ FeatureDone
  BY <1>4 DEF LoopCheck, VirtualReads, VirtualReadEnds, FeatureLock, FeatureDone
<1>5. CASE MicState
  <2>1. output_state' = MicLive(output_state, mic_muted) /\ last_sent_state' = last_sent_state
    BY <1>5 DEF MicState
  <2> QED
    BY <1>0, <2>1, MicLiveType
<1>6. CASE HostSends
  <2>1. last_sent_state' = last_sent_state
    BY <1>6 DEF HostSends, AudioInterface, Capture, Pcm, HidOut, Feature, Frame
  <2>2. CASE HidOut("hid_out") \/ HidOut("hid_effects")
    BY <2>1, <2>2, HidOutState
  <2>3. CASE \E active : AudioInterface(active)
    <3>1. \E active : output_state' = Routed(output_state, active, headset_plugged)
      BY <2>3 DEF AudioInterface
    <3> QED
      BY <1>0, <2>1, <3>1
  <2>4. CASE Pcm
    <3>1. \/ output_state' = output_state
          \/ output_state' = Routed(output_state, TRUE, headset_plugged)
      BY <2>4 DEF Pcm
    <3> QED
      BY <1>0, <2>1, <3>1
  <2>5. CASE (\E active : Capture(active)) \/ (\E f : Feature(f))
    BY <2>1, <2>5 DEF Capture, Feature
  <2> QED
    BY <1>6, <2>2, <2>3, <2>4, <2>5 DEF HostSends
<1>7. CASE LoopCheck("bluetooth", "reading") \/ BluetoothReadEnds \/ BluetoothWriteEnds
             \/ ControllerReports \/ ControllerLost
  BY <1>7 DEF LoopCheck, BluetoothReadEnds, BluetoothWriteEnds, ControllerReports,
     ControllerLost, BluetoothThrows
<1>8. CASE BluetoothHandles
  <2>1. PICK plugged, toggled \in BOOLEAN : InputReport(plugged, toggled)
    BY <1>8 DEF BluetoothHandles
  <2> DEFINE s == IF plugged # headset_plugged /\ audio_out_stream_active
                    THEN Routed(output_state, TRUE, plugged) ELSE output_state
  <2>2. s \in DsState
    BY <1>0
  <2>3. /\ last_sent_state' = last_sent_state
        /\ output_state' = IF toggled THEN MicLive(s, mic_muted # toggled) ELSE s
    BY <2>1 DEF InputReport
  <2> HIDE DEF s
  <2> QED
    BY <2>2, <2>3, MicLiveType
<1>9. CASE FlushEnds \/ TakeEffects \/ FlushWaits \/ FlushChunk \/ FlushConceals
             \/ AudioSent \/ AudioBlocked
  BY <1>9 DEF FlushEnds, TakeEffects, FlushWaits, FlushChunk, FlushConceals,
     FlushFrame, AudioSent, AudioBlocked, AudioDone
<1>10. CASE ApplyEffects
  <2>1. taken.effects \in Effects!Authored
    BY <1>10 DEF ApplyEffects, StoreInv, EffectsInv
  <2> QED
    BY <1>0, <1>10, <2>1, AppliedType DEF ApplyEffects
<1>11. CASE FlushUnderflow
  BY <1>0, <1>11 DEF FlushUnderflow
<1>12. CASE MonitorPolls \/ RecordInitial \/ MainStarts \/ MainJoins \/ MainDestroys
              \/ JoinWriter("main")
  BY <1>12 DEF MonitorPolls, RecordInitial, MainStarts, MainJoins, MainDestroys, MainFrame,
     JoinWriter
<1>13. CASE EffectsSet \/ StopDaemon \/ StopSession \/ PipeBreaks \/ UNCHANGED vars
  BY <1>13 DEF EffectsSet, StopDaemon, StopSession, PipeBreaks, EnvFrame, vars
<1>14. /\ {"virtual", "bluetooth", "flush", "main"} \subseteq Senders
       /\ {"virtual", "bluetooth", "monitor"} \subseteq Stoppers
  BY DEF Senders, Workers, Stoppers
<1> QED
  BY <1>1, <1>2, <1>3, <1>4, <1>5, <1>6, <1>7, <1>8, <1>9, <1>10, <1>11, <1>12, <1>13, <1>14
     DEF Next, Main, Monitor, Virtual, Bluetooth, Flush

-----------------------------------------------------------------------------
(* The counters, and the history of what is being sent.                     *)

CountInv ==
  /\ world \in Worlds /\ aborted \subseteq {"virtual", "bluetooth"}
  /\ frames \in 0 .. world.frames /\ reports \in 0 .. world.reports
  /\ pending_audio_chunks \in 0 .. MaxPending
  /\ older \in [Senders -> SUBSET Senders] /\ stale \in [Senders -> BOOLEAN]
countVars == <<world, aborted, frames, reports, pending_audio_chunks, older, stale>>

LEMMA HoldType ==
  ASSUME CountInv, NEW t, NEW rs, NEW l, Hold(t, rs, l)
  PROVE  older' \in [Senders -> SUBSET Senders]
BY DEF CountInv, Hold

LEMMA AcceptedType ==
  ASSUME CountInv, NEW t, Accepted(t)
  PROVE  older' \in [Senders -> SUBSET Senders] /\ stale' \in [Senders -> BOOLEAN]
<1>1. older' \in [Senders -> SUBSET Senders]
  BY DEF CountInv, Accepted
<1>2. \A u \in Senders : (IF u = t THEN FALSE ELSE stale[u] \/ (u \in older[t] /\ out[u] # <<>>))
                           \in BOOLEAN
  BY Zenon
<1> QED
  BY <1>1, <1>2, Zenon DEF Accepted

LEMMA CountStep ==
  ASSUME CountInv, [Next]_vars PROVE CountInv'
<1>0. /\ world.frames \in Nat /\ world.reports \in Nat /\ MaxPending \in Nat
      /\ BufferChunks \in 0 .. MaxPending /\ pending_audio_chunks \in 0 .. MaxPending
  BY WorldTypes, BridgeAssumption DEF CountInv, MaxPending
<1>1. CASE UNCHANGED countVars
  BY <1>1 DEF CountInv, countVars
<1>2. ASSUME UNCHANGED <<world, aborted, frames, reports, pending_audio_chunks>>,
             older' \in [Senders -> SUBSET Senders], stale' \in [Senders -> BOOLEAN]
      PROVE  CountInv'
  BY <1>2 DEF CountInv
<1>3. ASSUME UNCHANGED <<world, aborted, frames, reports, stale>>,
             older' \in [Senders -> SUBSET Senders], pending_audio_chunks' \in 0 .. MaxPending
      PROVE  CountInv'
  BY <1>3 DEF CountInv
<1>4. CASE \E t \in Senders : Sending(t)
  <2>1. PICK t \in Senders : Sending(t)
    BY <1>4
  <2>2. CASE BuildIfChanged(t)
    <3>1. older' \in [Senders -> SUBSET Senders]
      BY <2>2, HoldType DEF BuildIfChanged, Holds, CountInv
    <3> QED
      BY <1>2, <2>2, <3>1 DEF BuildIfChanged, CountInv, ioVars, envVars, audioVars
  <2>3. CASE Lock(t) \/ OutputIdle(t)
    BY <1>1, <2>3 DEF Lock, OutputIdle, countVars, ioVars, envVars, audioVars, history
  <2>4. CASE Enqueue(t)
    <3>1. UNCHANGED <<older, stale>> \/ Accepted(t)
      BY <2>4 DEF Enqueue
    <3>2. UNCHANGED <<world, aborted, frames, reports, pending_audio_chunks>>
      BY <2>4 DEF Enqueue, ioVars, envVars, audioVars
    <3>3. older' \in [Senders -> SUBSET Senders] /\ stale' \in [Senders -> BOOLEAN]
      BY <3>1, AcceptedType DEF CountInv
    <3> QED
      BY <1>2, <3>2, <3>3
  <2> QED
    BY <2>1, <2>2, <2>3, <2>4 DEF Sending
<1>5. CASE \E t \in Stoppers \cup {"main"} : Stopping(t)
  <2>1. UNCHANGED <<world, frames, reports, pending_audio_chunks, older, stale>>
    BY <1>5 DEF Stopping, Request, CancelVirtual, CancelBluetooth, JoinWriter, envVars,
       audioVars, history
  <2>2. aborted' \subseteq {"virtual", "bluetooth"}
    BY <1>5 DEF CountInv, Stopping, Request, CancelVirtual, CancelBluetooth, JoinWriter, ioVars
  <2> QED
    BY <2>1, <2>2 DEF CountInv
<1>6. CASE Writer
  BY <1>1, <1>6 DEF Writer, WriterTakes, WriteSucceeds, WriteFails, WriterStops, countVars,
     ioVars, envVars, audioVars, history
<1>7. CASE LoopCheck("virtual", "enter") \/ VirtualReads \/ VirtualReadEnds
             \/ FeatureLock \/ FeatureDone
  BY <1>1, <1>7 DEF LoopCheck, VirtualReads, VirtualReadEnds, FeatureLock, FeatureDone,
     countVars, ioVars, envVars, audioVars, history
<1>8. CASE MicState
  <2>1. older' \in [Senders -> SUBSET Senders]
    BY <1>8, HoldType DEF MicState, Holds
  <2> QED
    BY <1>2, <1>8, <2>1 DEF MicState, CountInv, ioVars, envVars, audioVars
<1>9. CASE HostSends
  <2>1. /\ UNCHANGED <<world, aborted, reports, older, stale>>
        /\ frames < world.frames /\ frames' = frames + 1
    BY <1>9 DEF HostSends, AudioInterface, Capture, Pcm, HidOut, Feature, Frame, Build, Continue,
       ioVars
  <2>2. \/ pending_audio_chunks' \in {0, pending_audio_chunks}
        \/ /\ pending_audio_chunks' = pending_audio_chunks + 1
           /\ pending_audio_chunks # MaxPending
        \/ pending_audio_chunks' = 1 /\ 0 # MaxPending
    <3>1. CASE Pcm
      <4>1. \E kept \in {0, pending_audio_chunks} :
              pending_audio_chunks' = IF kept = MaxPending THEN kept ELSE kept + 1
        BY <3>1 DEF Pcm
      <4> QED
        BY <1>0, <4>1
    <3>2. ASSUME ~Pcm PROVE pending_audio_chunks' \in {0, pending_audio_chunks}
      BY <1>9, <3>2 DEF HostSends, AudioInterface, Capture, HidOut, Feature, audioVars
    <3> QED
      BY <3>1, <3>2
  <2>3. pending_audio_chunks' \in 0 .. MaxPending
    BY <1>0, <2>2
  <2>4. frames' \in 0 .. world.frames
    BY <1>0, <2>1 DEF CountInv
  <2> QED
    BY <2>1, <2>3, <2>4 DEF CountInv
<1>10. CASE LoopCheck("bluetooth", "reading") \/ BluetoothReadEnds \/ BluetoothWriteEnds
             \/ ControllerLost
  BY <1>1, <1>10 DEF LoopCheck, BluetoothReadEnds, BluetoothWriteEnds,
     ControllerLost, BluetoothThrows, countVars, ioVars, envVars, audioVars, history
<1>11. CASE ControllerReports
  <2>1. /\ UNCHANGED <<world, aborted, frames, pending_audio_chunks, older, stale>>
        /\ reports < world.reports /\ reports' = reports + 1
    BY <1>11 DEF ControllerReports, ioVars, audioVars, history
  <2>2. reports' \in 0 .. world.reports
    BY <1>0, <2>1 DEF CountInv
  <2> QED
    BY <2>1, <2>2 DEF CountInv
<1>12. CASE BluetoothHandles
  <2>1. PICK plugged, toggled \in BOOLEAN : InputReport(plugged, toggled)
    BY <1>12 DEF BluetoothHandles
  <2>2. older' = older \/ \E rs, l : Hold("bluetooth", rs, l)
    BY <2>1 DEF InputReport, Holds
  <2>3. older' \in [Senders -> SUBSET Senders]
    BY <2>2, HoldType DEF CountInv
  <2> QED
    BY <1>2, <2>1, <2>3 DEF InputReport, CountInv, ioVars, envVars, audioVars
<1>13. CASE FlushEnds \/ TakeEffects \/ ApplyEffects
  BY <1>1, <1>13 DEF FlushEnds, TakeEffects, ApplyEffects, countVars, ioVars, envVars, lockVars,
     audioVars, history
<1>14. CASE FlushWaits \/ FlushChunk \/ FlushConceals \/ FlushUnderflow
  <2>1. older' = older \/ \E rs, l : Hold("flush", rs, l)
    BY <1>14 DEF FlushWaits, FlushChunk, FlushConceals, FlushUnderflow, Continue, SendAudio, Holds
  <2>2. older' \in [Senders -> SUBSET Senders]
    BY <2>1, HoldType DEF CountInv
  <2>3. pending_audio_chunks' \in {pending_audio_chunks, BufferChunks}
    BY <1>14 DEF FlushWaits, FlushChunk, FlushConceals, FlushUnderflow, audioVars
  <2>4. UNCHANGED <<world, aborted, frames, reports, stale>>
    BY <1>14 DEF FlushWaits, FlushChunk, FlushConceals, FlushUnderflow, FlushFrame, ioVars,
       envVars
  <2> QED
    BY <1>0, <1>3, <2>2, <2>3, <2>4
<1>15. CASE AudioSent \/ AudioBlocked
  <2>1. pending_audio_chunks' \in {pending_audio_chunks, Popped}
    BY <1>15 DEF AudioSent, AudioBlocked
  <2>2. UNCHANGED <<world, aborted, frames, reports, stale, older>>
    BY <1>15 DEF AudioSent, AudioBlocked, AudioDone, ioVars, envVars
  <2>3. Popped \in 0 .. MaxPending
    BY <1>0 DEF Popped
  <2> QED
    BY <1>0, <1>3, <2>1, <2>2, <2>3 DEF CountInv
<1>16. CASE MonitorPolls \/ RecordInitial \/ MainStarts \/ MainJoins \/ MainDestroys
              \/ JoinWriter("main")
  BY <1>1, <1>16 DEF MonitorPolls, RecordInitial, MainStarts, MainJoins, MainDestroys, MainFrame,
     JoinWriter, countVars, ioVars, envVars, audioVars, history
<1>17. CASE EffectsSet \/ StopDaemon \/ StopSession \/ PipeBreaks \/ UNCHANGED vars
  BY <1>1, <1>17 DEF EffectsSet, StopDaemon, StopSession, PipeBreaks, EnvFrame, vars, countVars,
     ioVars, envVars, audioVars, history
<1>18. /\ {"virtual", "bluetooth", "flush", "main"} \subseteq Senders
       /\ {"virtual", "bluetooth", "monitor"} \subseteq Stoppers
  BY DEF Senders, Workers, Stoppers
<1> QED
  BY <1>4, <1>5, <1>6, <1>7, <1>8, <1>9, <1>10, <1>11, <1>12, <1>13, <1>14, <1>15, <1>16, <1>17,
     <1>18 DEF Next, Main, Monitor, Virtual, Bluetooth, Flush

-----------------------------------------------------------------------------
(* The flags.                                                               *)

OuterFlags == /\ stop_requested \in BOOLEAN /\ session_stop_requested \in BOOLEAN
              /\ bridge_restart_requested \in BOOLEAN /\ pipe_up \in BOOLEAN
              /\ cancelled \in BOOLEAN /\ output_stop_requested \in BOOLEAN
              /\ output_error \in BOOLEAN
AudioFlags == /\ audio_out_stream_active \in BOOLEAN /\ audio_pcm_stream_active \in BOOLEAN
              /\ last_audio_chunk \in BOOLEAN
MicFlags   == /\ headset_plugged \in BOOLEAN /\ audio_in_stream_active \in BOOLEAN
              /\ mic_muted \in BOOLEAN /\ feature_cached \in BOOLEAN
PastFlags  == overtaken \in BOOLEAN /\ misrecorded \in BOOLEAN /\ lost \in BOOLEAN
FlagInv    == OuterFlags /\ AudioFlags /\ MicFlags /\ PastFlags

LEMMA OuterStep ==
  ASSUME OuterFlags, [Next]_vars PROVE OuterFlags'
<1>0. {"virtual", "bluetooth", "monitor"} \subseteq Stoppers
      /\ {"virtual", "bluetooth", "flush", "main"} \subseteq Senders
  BY DEF Senders, Workers, Stoppers
<1>1. CASE \E t \in Senders : Sending(t)
  BY <1>1 DEF OuterFlags, Sending, BuildIfChanged, Lock, Enqueue, OutputIdle, stopVars, ioVars,
     outVars
<1>2. CASE \E t \in Stoppers \cup {"main"} : Stopping(t)
  <2>1. PICK t : Stopping(t)
    BY <1>2
  <2>2. CASE Request(t)
    BY <2>2 DEF OuterFlags, Request, stopRest, ioVars, outVars
  <2>3. CASE CancelVirtual(t) \/ CancelBluetooth(t) \/ JoinWriter(t)
    BY <2>3 DEF OuterFlags, CancelVirtual, CancelBluetooth, StopTransport, JoinWriter, stopVars,
       ioVars, outVars
  <2> QED
    BY <2>1, <2>2, <2>3 DEF Stopping
<1>3. CASE Writer
  BY <1>3 DEF OuterFlags, Writer, WriterTakes, WriteSucceeds, WriteFails, WriterStops, stopVars,
     ioVars, outVars
<1>4. CASE LoopCheck("virtual", "enter") \/ VirtualReads \/ VirtualReadEnds
             \/ FeatureLock \/ FeatureDone \/ MicState
  BY <1>4 DEF OuterFlags, LoopCheck, VirtualReads, VirtualReadEnds, FeatureLock, FeatureDone,
     MicState, stopVars, ioVars, outVars
<1>5. CASE HostSends
  <2>1. \E f : Frame(f)
    BY <1>5 DEF HostSends, AudioInterface, Capture, Pcm, HidOut, Feature
  <2> QED
    BY <2>1 DEF OuterFlags, Frame, stopVars, ioVars, outVars
<1>6. CASE LoopCheck("bluetooth", "reading") \/ BluetoothReadEnds \/ BluetoothWriteEnds
             \/ ControllerLost \/ ControllerReports \/ BluetoothHandles
  <2>1. CASE BluetoothHandles
    BY <2>1 DEF OuterFlags, BluetoothHandles, InputReport, stopVars, ioVars, outVars
  <2>2. CASE LoopCheck("bluetooth", "reading") \/ ControllerReports
    BY <2>2 DEF OuterFlags, LoopCheck, ControllerReports, stopVars, ioVars, outVars
  <2>3. CASE BluetoothThrows
    BY <2>3 DEF OuterFlags, BluetoothThrows, stopVars, ioVars, outVars
  <2> QED
    BY <1>6, <2>1, <2>2, <2>3 DEF BluetoothReadEnds, BluetoothWriteEnds, ControllerLost
<1>7. CASE FlushEnds \/ TakeEffects \/ ApplyEffects \/ FlushWaits \/ FlushChunk \/ FlushConceals
             \/ FlushUnderflow \/ AudioSent \/ AudioBlocked
  <2>1. CASE FlushEnds \/ TakeEffects \/ ApplyEffects \/ AudioSent \/ AudioBlocked
    BY <2>1 DEF OuterFlags, FlushEnds, TakeEffects, ApplyEffects, AudioSent, AudioBlocked,
       AudioDone, stopVars, ioVars, outVars
  <2>2. CASE FlushFrame
    BY <2>2 DEF OuterFlags, FlushFrame, stopVars, ioVars, outVars
  <2> QED
    BY <1>7, <2>1, <2>2 DEF FlushWaits, FlushChunk, FlushConceals, FlushUnderflow
<1>8. CASE MonitorPolls \/ RecordInitial \/ MainStarts \/ MainJoins \/ MainDestroys
             \/ JoinWriter("main")
  BY <1>8 DEF OuterFlags, MonitorPolls, RecordInitial, MainStarts, MainJoins, MainDestroys,
     MainFrame, StopTransport, JoinWriter, stopVars, stopRest, ioVars, outVars
<1>9. CASE EffectsSet \/ StopDaemon \/ StopSession \/ PipeBreaks \/ UNCHANGED vars
  BY <1>9 DEF OuterFlags, EffectsSet, StopDaemon, StopSession, PipeBreaks, EnvFrame, vars,
     stopVars, ioVars, outVars
<1> QED
  BY <1>0, <1>1, <1>2, <1>3, <1>4, <1>5, <1>6, <1>7, <1>8, <1>9
     DEF Next, Main, Monitor, Virtual, Bluetooth, Flush

LEMMA AudioFlagStep ==
  ASSUME AudioFlags, [Next]_vars PROVE AudioFlags'
<1>0. {"virtual", "bluetooth", "monitor"} \subseteq Stoppers
      /\ {"virtual", "bluetooth", "flush", "main"} \subseteq Senders
  BY DEF Senders, Workers, Stoppers
<1> USE DEF audioVars
<1>1. CASE \E t \in Senders : Sending(t)
  BY <1>1 DEF AudioFlags, Sending, BuildIfChanged, Lock, Enqueue, OutputIdle
<1>2. CASE \E t \in Stoppers \cup {"main"} : Stopping(t)
  BY <1>2 DEF AudioFlags, Stopping, Request, CancelVirtual, CancelBluetooth, JoinWriter
<1>3. CASE Writer
  BY <1>3 DEF AudioFlags, Writer, WriterTakes, WriteSucceeds, WriteFails, WriterStops
<1>4. CASE LoopCheck("virtual", "enter") \/ VirtualReads \/ VirtualReadEnds
             \/ FeatureLock \/ FeatureDone \/ MicState
  BY <1>4 DEF AudioFlags, LoopCheck, VirtualReads, VirtualReadEnds, FeatureLock, FeatureDone,
     MicState
<1>5. CASE \E active \in BOOLEAN : AudioInterface(active)
  BY <1>5 DEF AudioFlags, AudioInterface
<1>6. CASE Pcm
  <2>1. audio_out_stream_active' \in BOOLEAN /\ audio_pcm_stream_active' \in BOOLEAN
    BY <1>6 DEF Pcm
  <2>2. last_audio_chunk' \in BOOLEAN
    BY <1>6, Zenon DEF Pcm
  <2> QED
    BY <2>1, <2>2 DEF AudioFlags
<1>7. CASE HostSends /\ ~Pcm /\ ~\E active \in BOOLEAN : AudioInterface(active)
  <2>1. (\E active, f : Capture(active) \/ HidOut(f) \/ Feature(f))
    BY <1>7 DEF HostSends
  <2>2. UNCHANGED audioVars
    BY <2>1 DEF Capture, HidOut, Feature
  <2> QED
    BY <2>2 DEF AudioFlags
<1>8. CASE LoopCheck("bluetooth", "reading") \/ BluetoothReadEnds \/ BluetoothWriteEnds
             \/ ControllerLost \/ ControllerReports \/ BluetoothHandles
  <2>1. CASE BluetoothHandles
    BY <2>1 DEF AudioFlags, BluetoothHandles, InputReport
  <2>2. CASE LoopCheck("bluetooth", "reading") \/ ControllerReports
    BY <2>2 DEF AudioFlags, LoopCheck, ControllerReports
  <2>3. CASE BluetoothThrows
    BY <2>3 DEF AudioFlags, BluetoothThrows
  <2> QED
    BY <1>8, <2>1, <2>2, <2>3 DEF BluetoothReadEnds, BluetoothWriteEnds, ControllerLost
<1>9. CASE FlushEnds \/ TakeEffects \/ ApplyEffects \/ FlushWaits \/ FlushChunk \/ FlushConceals
             \/ FlushUnderflow \/ AudioBlocked
  BY <1>9 DEF AudioFlags, FlushEnds, TakeEffects, ApplyEffects, FlushWaits, FlushChunk,
     FlushConceals, FlushUnderflow, AudioBlocked, AudioDone
<1>10. CASE AudioSent
  <2>1. audio_out_stream_active' \in BOOLEAN /\ audio_pcm_stream_active' \in BOOLEAN
    BY <1>10 DEF AudioFlags, AudioSent, AudioDone
  <2>2. last_audio_chunk' \in BOOLEAN
    BY <1>10, Zenon DEF AudioSent
  <2> QED
    BY <2>1, <2>2 DEF AudioFlags
<1>11. CASE MonitorPolls \/ RecordInitial \/ MainStarts \/ MainJoins \/ MainDestroys
              \/ JoinWriter("main")
  BY <1>11 DEF AudioFlags, MonitorPolls, RecordInitial, MainStarts, MainJoins, MainDestroys,
     MainFrame, JoinWriter
<1>12. CASE EffectsSet \/ StopDaemon \/ StopSession \/ PipeBreaks \/ UNCHANGED vars
  BY <1>12 DEF AudioFlags, EffectsSet, StopDaemon, StopSession, PipeBreaks, EnvFrame, vars
<1> QED
  BY <1>0, <1>1, <1>2, <1>3, <1>4, <1>5, <1>6, <1>7, <1>8, <1>9, <1>10, <1>11, <1>12
     DEF Next, Main, Monitor, Virtual, Bluetooth, Flush

LEMMA MicFlagStep ==
  ASSUME MicFlags, [Next]_vars PROVE MicFlags'
<1>0. {"virtual", "bluetooth", "monitor"} \subseteq Stoppers
      /\ {"virtual", "bluetooth", "flush", "main"} \subseteq Senders
  BY DEF Senders, Workers, Stoppers
<1> USE DEF micVars
<1>1. CASE \E t \in Senders : Sending(t)
  BY <1>1 DEF MicFlags, Sending, BuildIfChanged, Lock, Enqueue, OutputIdle
<1>2. CASE \E t \in Stoppers \cup {"main"} : Stopping(t)
  BY <1>2 DEF MicFlags, Stopping, Request, CancelVirtual, CancelBluetooth, JoinWriter
<1>3. CASE Writer
  BY <1>3 DEF MicFlags, Writer, WriterTakes, WriteSucceeds, WriteFails, WriterStops
<1>4. CASE LoopCheck("virtual", "enter") \/ VirtualReads \/ VirtualReadEnds
             \/ FeatureLock \/ FeatureDone \/ MicState
  BY <1>4 DEF MicFlags, LoopCheck, VirtualReads, VirtualReadEnds, FeatureLock, FeatureDone,
     MicState
<1>5. CASE \E f : Feature(f)
  <2>1. PICK f : Feature(f)
    BY <1>5
  <2>2. UNCHANGED <<headset_plugged, audio_in_stream_active, mic_muted>>
    BY <2>1 DEF Feature, Frame
  <2>3. feature_cached' \in BOOLEAN
    BY <2>1, Zenon DEF Feature
  <2> QED
    BY <2>2, <2>3 DEF MicFlags
<1>6. CASE HostSends /\ ~\E f : Feature(f)
  BY <1>6 DEF MicFlags, HostSends, AudioInterface, Capture, Pcm, HidOut, Frame
<1>7. CASE BluetoothHandles
  <2>1. PICK plugged, toggled \in BOOLEAN : InputReport(plugged, toggled)
    BY <1>7 DEF BluetoothHandles
  <2>2. /\ headset_plugged' \in BOOLEAN /\ UNCHANGED <<audio_in_stream_active, feature_cached>>
    BY <2>1 DEF InputReport
  <2>3. mic_muted' \in BOOLEAN
    BY <2>1, Zenon DEF InputReport
  <2> QED
    BY <2>2, <2>3 DEF MicFlags
<1>8. CASE LoopCheck("bluetooth", "reading") \/ BluetoothReadEnds \/ BluetoothWriteEnds
             \/ ControllerLost \/ ControllerReports
  BY <1>8 DEF MicFlags, LoopCheck, BluetoothReadEnds, BluetoothWriteEnds, ControllerLost,
     BluetoothThrows, ControllerReports
<1>9. CASE FlushEnds \/ TakeEffects \/ ApplyEffects \/ FlushWaits \/ FlushChunk \/ FlushConceals
             \/ FlushUnderflow \/ AudioSent \/ AudioBlocked
  BY <1>9 DEF MicFlags, FlushEnds, TakeEffects, ApplyEffects, FlushWaits, FlushChunk,
     FlushConceals, FlushUnderflow, FlushFrame, AudioSent, AudioBlocked, AudioDone
<1>10. CASE MonitorPolls \/ RecordInitial \/ MainStarts \/ MainJoins \/ MainDestroys
              \/ JoinWriter("main")
  BY <1>10 DEF MicFlags, MonitorPolls, RecordInitial, MainStarts, MainJoins, MainDestroys,
     MainFrame, JoinWriter
<1>11. CASE EffectsSet \/ StopDaemon \/ StopSession \/ PipeBreaks \/ UNCHANGED vars
  BY <1>11 DEF MicFlags, EffectsSet, StopDaemon, StopSession, PipeBreaks, EnvFrame, vars
<1> QED
  BY <1>0, <1>1, <1>2, <1>3, <1>4, <1>5, <1>6, <1>7, <1>8, <1>9, <1>10, <1>11
     DEF Next, Main, Monitor, Virtual, Bluetooth, Flush

LEMMA PastFlagStep ==
  ASSUME PastFlags, [Next]_vars PROVE PastFlags'
<1>0. {"virtual", "bluetooth", "monitor"} \subseteq Stoppers
      /\ {"virtual", "bluetooth", "flush", "main"} \subseteq Senders
  BY DEF Senders, Workers, Stoppers
<1>1. CASE \E t \in Senders : Sending(t)
  <2>1. PICK t : Sending(t)
    BY <1>1
  <2>2. CASE BuildIfChanged(t)
    BY <2>2 DEF PastFlags, BuildIfChanged
  <2>3. CASE Lock(t) \/ OutputIdle(t)
    BY <2>3 DEF PastFlags, Lock, OutputIdle, history
  <2>4. CASE Enqueue(t)
    <3>1. UNCHANGED overtaken \/ Accepted(t)
      BY <2>4 DEF Enqueue
    <3>2. overtaken' \in BOOLEAN
      BY <3>1, Zenon DEF PastFlags, Accepted
    <3>3. UNCHANGED <<misrecorded, lost>>
      BY <2>4 DEF Enqueue
    <3> QED
      BY <3>2, <3>3 DEF PastFlags
  <2> QED
    BY <2>1, <2>2, <2>3, <2>4 DEF Sending
<1>2. CASE \E t \in Stoppers \cup {"main"} : Stopping(t)
  BY <1>2 DEF PastFlags, Stopping, Request, CancelVirtual, CancelBluetooth, JoinWriter, history
<1>3. CASE Writer
  <2>1. UNCHANGED <<overtaken, misrecorded>>
    BY <1>3 DEF Writer, WriterTakes, WriteSucceeds, WriteFails, WriterStops, history
  <2>2. lost' \in BOOLEAN
    <3>1. CASE WriteSucceeds
      BY <3>1, Zenon DEF WriteSucceeds
    <3>2. CASE WriterTakes \/ WriteFails \/ WriterStops
      BY <3>2 DEF PastFlags, WriterTakes, WriteFails, WriterStops, history
    <3> QED
      BY <1>3, <3>1, <3>2 DEF Writer
  <2> QED
    BY <2>1, <2>2 DEF PastFlags
<1>4. CASE LoopCheck("virtual", "enter") \/ VirtualReads \/ VirtualReadEnds
             \/ FeatureLock \/ FeatureDone \/ MicState
  BY <1>4 DEF PastFlags, LoopCheck, VirtualReads, VirtualReadEnds, FeatureLock, FeatureDone,
     MicState, history
<1>5. CASE HostSends
  <2>1. \E f : Frame(f)
    BY <1>5 DEF HostSends, AudioInterface, Capture, Pcm, HidOut, Feature
  <2> QED
    BY <2>1 DEF PastFlags, Frame
<1>6. CASE LoopCheck("bluetooth", "reading") \/ BluetoothReadEnds \/ BluetoothWriteEnds
             \/ ControllerLost \/ ControllerReports \/ BluetoothHandles
  <2>1. CASE BluetoothHandles
    BY <2>1 DEF PastFlags, BluetoothHandles, InputReport
  <2>2. CASE LoopCheck("bluetooth", "reading") \/ ControllerReports
    BY <2>2 DEF PastFlags, LoopCheck, ControllerReports, history
  <2>3. CASE BluetoothThrows
    BY <2>3 DEF PastFlags, BluetoothThrows, history
  <2> QED
    BY <1>6, <2>1, <2>2, <2>3 DEF BluetoothReadEnds, BluetoothWriteEnds, ControllerLost
<1>7. CASE FlushEnds \/ TakeEffects \/ ApplyEffects \/ FlushWaits \/ FlushChunk \/ FlushConceals
             \/ FlushUnderflow \/ AudioBlocked
  <2>1. UNCHANGED <<overtaken, lost>> /\ misrecorded' \in {misrecorded, FALSE}
    BY <1>7 DEF FlushEnds, TakeEffects, ApplyEffects, FlushWaits, FlushChunk,
       FlushConceals, FlushUnderflow, FlushFrame, AudioBlocked, AudioDone, history
  <2> QED
    BY <2>1 DEF PastFlags
<1>8. CASE AudioSent
  <2>1. UNCHANGED <<overtaken, lost>>
    BY <1>8 DEF AudioSent, AudioDone
  <2>2. misrecorded' \in BOOLEAN
    BY <1>8, Zenon DEF AudioSent
  <2> QED
    BY <2>1, <2>2 DEF PastFlags
<1>9. CASE MonitorPolls \/ RecordInitial \/ MainStarts \/ MainJoins \/ MainDestroys
             \/ JoinWriter("main")
  BY <1>9 DEF PastFlags, MonitorPolls, RecordInitial, MainStarts, MainJoins, MainDestroys,
     MainFrame, JoinWriter, history
<1>10. CASE EffectsSet \/ StopDaemon \/ StopSession \/ PipeBreaks \/ UNCHANGED vars
  BY <1>10 DEF PastFlags, EffectsSet, StopDaemon, StopSession, PipeBreaks, EnvFrame, vars, history
<1> QED
  BY <1>0, <1>1, <1>2, <1>3, <1>4, <1>5, <1>6, <1>7, <1>8, <1>9, <1>10
     DEF Next, Main, Monitor, Virtual, Bluetooth, Flush

-----------------------------------------------------------------------------
(* The queue of the writer.                                                 *)

TransportType ==
  /\ output_queue \in Seq(Report) /\ writing \in Report \cup {None}
  /\ controller \in DsState \cup {None}
  /\ pc["writer"] = "write" => writing \in Report
TransportInv == TransportType /\ OneAudio /\ OneOther

(* What the queue's parts of the invariant say, place by place.             *)
SoleAudio(q) ==
  \A i, j \in 1 .. Len(q) : IsAudio(q[i]) /\ IsAudio(q[j]) => i = j
SoleOther(q) ==
  \A i, j \in 1 .. Len(q) : ~IsAudio(q[i]) /\ ~IsAudio(q[j]) => i = j
AudioOnly(q) == \A i \in 1 .. Len(q) : IsAudio(q[i])
NobodyIdle == ~output_error /\ \A t \in Senders : pc[t] # "idle"

LEMMA Places ==
  ASSUME output_queue \in Seq(Report)
  PROVE  /\ OneAudio <=> SoleAudio(output_queue)
         /\ OneOther <=> (~output_stop_requested => SoleOther(output_queue)
                                              /\ (NobodyIdle => AudioOnly(output_queue)))
<1>1. DOMAIN output_queue = 1 .. Len(output_queue)
  BY LenProperties
<1>2. OneAudio <=> SoleAudio(output_queue)
  BY <1>1 DEF OneAudio, WaitingAudio, SoleAudio
<1>3. \A i : i \in WaitingOther <=> i \in 1 .. Len(output_queue) /\ ~IsAudio(output_queue[i])
  BY <1>1 DEF WaitingOther, WaitingAudio
<1>4. WaitingOther = {} <=> AudioOnly(output_queue)
  BY <1>3 DEF AudioOnly
<1>5. (\A i, j \in WaitingOther : i = j) <=> SoleOther(output_queue)
  BY <1>3 DEF SoleOther
<1> QED
  BY <1>2, <1>4, <1>5 DEF OneOther, NobodyIdle

(* An audio report drives out the one that waits.                           *)
LEMMA Coalesced ==
  ASSUME NEW q \in Seq(Report), NEW r \in Report, SoleAudio(q)
  PROVE  /\ Coalesce(q, r) \in Seq(Report)
         /\ ~IsAudio(r) => Coalesce(q, r) = q
         /\ IsAudio(r) => \A i \in 1 .. Len(Coalesce(q, r)) : ~IsAudio(Coalesce(q, r)[i])
         /\ IsAudio(r) /\ AudioOnly(q) => Len(Coalesce(q, r)) = 0
<1>1. DOMAIN q = 1 .. Len(q) /\ Len(q) \in Nat
  BY LenProperties
<1>2. \A i : i \in WaitingAudio(q) <=> i \in 1 .. Len(q) /\ IsAudio(q[i])
  BY <1>1 DEF WaitingAudio
<1>3. CASE IsAudio(r) /\ WaitingAudio(q) # {}
  <2>1. PICK m : m \in WaitingAudio(q)
    BY <1>3
  <2>2. WaitingAudio(q) = {m}
    BY <1>2, <2>1 DEF SoleAudio
  <2>3. Min(WaitingAudio(q)) = m
    BY <1>1, <1>2, <2>1, <2>2 DEF Min
  <2>4. Coalesce(q, r) = RemoveAt(q, m) /\ m \in 1 .. Len(q)
    BY <1>2, <1>3, <2>1, <2>3 DEF Coalesce
  <2>5. /\ RemoveAt(q, m) \in Seq(Report) /\ Len(RemoveAt(q, m)) = Len(q) - 1
        /\ \A j \in 1 .. Len(RemoveAt(q, m)) :
             /\ RemoveAt(q, m)[j] = q[IF j < m THEN j ELSE j + 1]
             /\ (IF j < m THEN j ELSE j + 1) \in 1 .. Len(q) \ {m}
    BY <2>4, Removal
  <2>6. \A i \in 1 .. Len(q) \ {m} : ~IsAudio(q[i])
    BY <1>2, <2>2
  <2>7. \A i \in 1 .. Len(RemoveAt(q, m)) : ~IsAudio(RemoveAt(q, m)[i])
    BY <2>5, <2>6
  <2>8. AudioOnly(q) => Len(q) = 1
    <3>1. ASSUME AudioOnly(q), Len(q) # 1 PROVE FALSE
      <4>1. 1 \in 1 .. Len(q) /\ 2 \in 1 .. Len(q)
        BY <1>1, <2>4, <3>1
      <4> QED
        BY <3>1, <4>1 DEF AudioOnly, SoleAudio
    <3> QED
      BY <3>1
  <2> QED
    BY <1>1, <1>3, <2>4, <2>5, <2>7, <2>8
<1>4. CASE ~IsAudio(r)
  BY <1>4 DEF Coalesce
<1>5. CASE IsAudio(r) /\ WaitingAudio(q) = {}
  <2>1. Coalesce(q, r) = q
    BY <1>5 DEF Coalesce
  <2>2. AudioOnly(q) => Len(q) = 0
    <3>1. ASSUME AudioOnly(q), Len(q) # 0 PROVE FALSE
      <4>1. 1 \in 1 .. Len(q)
        BY <1>1, <3>1
      <4> QED
        BY <1>2, <1>5, <3>1, <4>1 DEF AudioOnly
    <3> QED
      BY <3>1
  <2> QED
    BY <1>2, <1>5, <2>1, <2>2
<1> QED
  BY <1>3, <1>4, <1>5

LEMMA Appended ==
  ASSUME NEW q \in Seq(Report), NEW r \in Report, SoleAudio(q)
  PROVE  LET a == Append(Coalesce(q, r), r) IN
         /\ a \in Seq(Report) /\ SoleAudio(a)
         /\ AudioOnly(q) => SoleOther(a) /\ (IsAudio(r) => AudioOnly(a))
<1> DEFINE c == Coalesce(q, r)
           a == Append(c, r)
<1>1. /\ c \in Seq(Report)
      /\ ~IsAudio(r) => c = q
      /\ IsAudio(r) => \A i \in 1 .. Len(c) : ~IsAudio(c[i])
      /\ IsAudio(r) /\ AudioOnly(q) => Len(c) = 0
  BY Coalesced
<1> HIDE DEF c
<1>2. /\ a \in Seq(Report) /\ Len(c) \in Nat /\ Len(a) = Len(c) + 1
      /\ \A i \in 1 .. Len(c) : a[i] = c[i]
      /\ a[Len(c) + 1] = r
      /\ \A i \in 1 .. Len(a) : i \in 1 .. Len(c) \/ i = Len(c) + 1
  BY <1>1, AppendOf
<1> HIDE DEF a
<1>3. SoleAudio(a)
  <2>1. CASE IsAudio(r)
    BY <1>1, <1>2, <2>1 DEF SoleAudio
  <2>2. CASE ~IsAudio(r)
    BY <1>1, <1>2, <2>2 DEF SoleAudio
  <2> QED
    BY <2>1, <2>2
<1>4. ASSUME AudioOnly(q) PROVE SoleOther(a) /\ (IsAudio(r) => AudioOnly(a))
  <2>1. CASE IsAudio(r)
    <3>1. AudioOnly(a)
      BY <1>1, <1>2, <1>4, <2>1 DEF AudioOnly
    <3> QED
      BY <3>1 DEF AudioOnly, SoleOther
  <2>2. CASE ~IsAudio(r)
    BY <1>1, <1>2, <1>4, <2>2 DEF AudioOnly, SoleOther
  <2> QED
    BY <2>1, <2>2
<1> QED
  BY <1>2, <1>3, <1>4 DEF c, a

LEMMA Taken ==
  ASSUME NEW q \in Seq(Report), q # <<>>, SoleAudio(q)
  PROVE  /\ Tail(q) \in Seq(Report) /\ Head(q) \in Report /\ SoleAudio(Tail(q))
         /\ SoleOther(q) => SoleOther(Tail(q))
         /\ AudioOnly(q) => AudioOnly(Tail(q))
<1> DEFINE a == Tail(q)
<1>1. /\ a \in Seq(Report) /\ Head(q) \in Report /\ Len(q) \in Nat
      /\ \A i \in 1 .. Len(a) : a[i] = q[i + 1] /\ i + 1 \in 1 .. Len(q) /\ i \in Nat
  <2>1. /\ a \in Seq(Report) /\ Len(q) \in Nat \ {0} /\ Head(q) \in Report
        /\ \A i \in 1 .. Len(a) : a[i] = q[i + 1] /\ i + 1 \in 2 .. Len(q)
    BY TailOf
  <2> QED
    BY <2>1
<1> HIDE DEF a
<1>2. SoleAudio(a)
  BY <1>1 DEF SoleAudio
<1>3. SoleOther(q) => SoleOther(a)
  BY <1>1 DEF SoleOther
<1>4. AudioOnly(q) => AudioOnly(a)
  BY <1>1 DEF AudioOnly
<1> QED
  BY <1>1, <1>2, <1>3, <1>4 DEF a

(* Reports are let in by those who hold the lock, taken by the writer and   *)
(* dropped when the transport is closed.                                    *)
Accepts(t) ==
  /\ Enqueue(t) /\ Accepted(t) /\ ~output_error
  /\ ~IsAudio(Head(out[t])) => Goto(t, "idle")
Closed == output_queue' = <<>> /\ output_stop_requested'
Quiet ==
  /\ UNCHANGED <<output_queue, output_stop_requested>> /\ (output_error => output_error')
  /\ \A t \in Senders : pc[t] = "idle" => pc'[t] = "idle"

LEMMA IdleStays ==
  ASSUME PlaceInv, output_state' \in DsState, [Next]_vars, NEW u \in Senders, pc[u] = "idle"
  PROVE  pc'[u] = "idle" \/ OutputIdle(u)
<1>0. pc \in [Threads -> Labels] /\ u \in Threads
  BY DEF PlaceInv, PlaceType, Threads
<1>1. ASSUME NEW t, NEW l, Goes(t, l) PROVE pc'[u] = "idle" \/ OutputIdle(u)
  BY <1>0, <1>1 DEF Goes, Moves
<1>2. CASE Born
  <2>1. u \notin Workers /\ u # "main"
    BY <1>2 DEF Born, PlaceInv, MainInv, Early
  <2> QED
    BY <2>1 DEF Senders
<1>3. CASE EffectsSet \/ StopDaemon \/ StopSession \/ PipeBreaks \/ UNCHANGED vars
  BY <1>3 DEF EffectsSet, StopDaemon, StopSession, PipeBreaks, EnvFrame, vars
<1> QED
  BY <1>1, <1>2, <1>3, MainGoes, MonitorGoes, VirtualGoes, BluetoothGoes, FlushGoes,
     WriterGoes DEF Next

LEMMA QueueSteps ==
  ASSUME PlaceInv, output_state' \in DsState, [Next]_vars
  PROVE  \/ \E t \in Senders : Accepts(t) \/ OutputIdle(t)
         \/ WriterTakes \/ Closed \/ Quiet
<1>1. ASSUME \A t \in Senders : ~Accepts(t), ~WriterTakes, ~Closed
      PROVE  /\ UNCHANGED <<output_queue, output_stop_requested>>
             /\ output_error => output_error'
  <2> USE DEF outVars
  <2>1. CASE \E t \in Senders : Sending(t)
    BY <1>1, <2>1 DEF Sending, BuildIfChanged, Lock, Enqueue, Accepts, OutputIdle
  <2>2. CASE \E t \in Stoppers \cup {"main"} : Stopping(t)
    BY <1>1, <2>2 DEF Stopping, Request, CancelVirtual, CancelBluetooth, StopTransport,
       Closed, JoinWriter
  <2>3. CASE Writer
    BY <1>1, <2>3 DEF Writer, WriteSucceeds, WriteFails, WriterStops
  <2>4. CASE LoopCheck("virtual", "enter") \/ VirtualReads \/ VirtualReadEnds
               \/ MicState \/ FeatureLock \/ FeatureDone
    BY <2>4 DEF LoopCheck, VirtualReads, VirtualReadEnds, MicState, FeatureLock, FeatureDone
  <2>5. CASE HostSends
    <3>1. \E f : Frame(f)
      BY <2>5 DEF HostSends, AudioInterface, Capture, Pcm, HidOut, Feature
    <3> QED
      BY <3>1 DEF Frame
  <2>6. CASE LoopCheck("bluetooth", "reading") \/ BluetoothReadEnds \/ BluetoothWriteEnds
               \/ ControllerReports \/ ControllerLost
    BY <2>6 DEF LoopCheck, BluetoothReadEnds, BluetoothWriteEnds,
       ControllerReports, ControllerLost, BluetoothThrows
  <2>7. CASE BluetoothHandles
    BY <2>7 DEF BluetoothHandles, InputReport
  <2>8. CASE FlushEnds \/ TakeEffects \/ ApplyEffects \/ AudioSent \/ AudioBlocked
    BY <2>8 DEF FlushEnds, TakeEffects, ApplyEffects, AudioSent, AudioBlocked, AudioDone
  <2>9. CASE FlushFrame
    BY <2>9 DEF FlushFrame
  <2>10. CASE MonitorPolls \/ RecordInitial \/ MainStarts \/ MainJoins \/ JoinWriter("main")
    BY <2>10 DEF MonitorPolls, RecordInitial, MainStarts, MainJoins, MainFrame, JoinWriter
  <2>11. CASE MainDestroys
    BY <1>1, <2>11 DEF MainDestroys, StopTransport, Closed
  <2>12. CASE EffectsSet \/ StopDaemon \/ StopSession \/ PipeBreaks \/ UNCHANGED vars
    BY <2>12 DEF EffectsSet, StopDaemon, StopSession, PipeBreaks, EnvFrame, vars
  <2>13. /\ {"virtual", "bluetooth", "flush", "main"} \subseteq Senders
         /\ {"virtual", "bluetooth", "monitor"} \subseteq Stoppers
    BY DEF Senders, Workers, Stoppers
  <2>14. FlushWaits \/ FlushChunk \/ FlushConceals \/ FlushUnderflow => FlushFrame
    BY DEF FlushWaits, FlushChunk, FlushConceals, FlushUnderflow
  <2> QED
    BY <2>1, <2>2, <2>3, <2>4, <2>5, <2>6, <2>7, <2>8, <2>9, <2>10, <2>11, <2>12, <2>13, <2>14
       DEF Next, Main, Monitor, Virtual, Bluetooth, Flush
<1>2. (\A t \in Senders : ~OutputIdle(t)) => \A t \in Senders : pc[t] = "idle" => pc'[t] = "idle"
  BY IdleStays
<1> QED
  BY <1>1, <1>2 DEF Quiet

LEMMA QueueStep ==
  ASSUME PlaceInv, TransportInv, output_state' \in DsState, [Next]_vars
  PROVE  output_queue' \in Seq(Report) /\ OneAudio' /\ OneOther'
<1> DEFINE q == output_queue
<1>0. /\ q \in Seq(Report) /\ SoleAudio(q)
      /\ ~output_stop_requested => SoleOther(q) /\ (NobodyIdle => AudioOnly(q))
      /\ pc \in [Threads -> Labels] /\ Senders \subseteq Threads
  BY Places DEF TransportInv, TransportType, PlaceInv, PlaceType, Threads
<1>1. SUFFICES /\ q' \in Seq(Report) /\ SoleAudio(q')
               /\ ~output_stop_requested' =>
                    SoleOther(q') /\ (NobodyIdle' => AudioOnly(q'))
  <2>1. ASSUME q' \in Seq(Report)
        PROVE  /\ OneAudio' <=> SoleAudio(q')
               /\ OneOther' <=> (~output_stop_requested' =>
                    SoleOther(q') /\ (NobodyIdle' => AudioOnly(q')))
    <3>1. DOMAIN q' = 1 .. Len(q')
      BY <2>1, LenProperties
    <3>2. OneAudio' <=> SoleAudio(q')
      BY <3>1 DEF OneAudio, WaitingAudio, SoleAudio
    <3>3. \A i : i \in WaitingOther' <=> i \in 1 .. Len(q') /\ ~IsAudio(q'[i])
      BY <3>1 DEF WaitingOther, WaitingAudio
    <3>4. WaitingOther' = {} <=> AudioOnly(q')
      BY <3>3 DEF AudioOnly
    <3>5. (\A i, j \in WaitingOther' : i = j) <=> SoleOther(q')
      BY <3>3 DEF SoleOther
    <3> QED
      BY <3>2, <3>4, <3>5 DEF OneOther, NobodyIdle
  <2> QED
    BY <2>1
<1>2. CASE \E t \in Senders : Accepts(t)
  <2>1. PICK t \in Senders : Accepts(t)
    BY <1>2
  <2> DEFINE r == Head(out[t])
  <2>2. /\ pc[t] = "hold" /\ ~output_error /\ out[t] # <<>> /\ out[t] \in Seq(Report)
        /\ q' = Append(Coalesce(q, r), r) /\ UNCHANGED <<output_stop_requested, output_error>>
    BY <2>1 DEF Accepts, Accepted, Enqueue, PlaceInv, PlaceType, Carries, HasReport
  <2>3. r \in Report
    BY <2>2, TailOf
  <2>4. \A u \in Senders : pc[u] # "idle"
    BY <2>1, <2>2 DEF PlaceInv, LockInv, Locked
  <2>5. ~IsAudio(r) => pc'[t] = "idle"
    <3>1. ~IsAudio(r) => Goto(t, "idle")
      BY <2>1 DEF Accepts
    <3> QED
      BY <1>0, <3>1 DEF Goto
  <2>6. ~output_stop_requested => AudioOnly(q)
    BY <1>0, <2>2, <2>4 DEF NobodyIdle
  <2>7. /\ q' \in Seq(Report) /\ SoleAudio(q')
        /\ AudioOnly(q) => SoleOther(q') /\ (IsAudio(r) => AudioOnly(q'))
    BY <1>0, <2>2, <2>3, Appended
  <2>8. ~IsAudio(r) => ~NobodyIdle'
    BY <2>5 DEF NobodyIdle
  <2> QED
    BY <2>2, <2>6, <2>7, <2>8
<1>3. CASE \E t \in Senders : OutputIdle(t)
  <2>1. PICK t \in Senders : OutputIdle(t)
    BY <1>3
  <2>2. /\ UNCHANGED <<output_queue, output_stop_requested, output_error>>
        /\ output_stop_requested \/ output_error \/ q = <<>>
    BY <2>1 DEF OutputIdle, outVars
  <2>3. q = <<>> => AudioOnly(q)
    <3>1. ASSUME q = <<>> PROVE Len(q) = 0
      BY <3>1
    <3> QED
      BY <3>1 DEF AudioOnly
  <2> QED
    BY <1>0, <2>2, <2>3 DEF NobodyIdle
<1>4. CASE WriterTakes
  <2>1. /\ q # <<>> /\ q' = Tail(q) /\ UNCHANGED <<output_stop_requested, output_error>>
        /\ pc' = [pc EXCEPT !["writer"] = "write"]
    BY <1>4 DEF WriterTakes, Goto
  <2>2. \A t \in Senders : pc'[t] = pc[t]
    BY <1>0, <2>1 DEF Senders, Workers
  <2>3. /\ q' \in Seq(Report) /\ SoleAudio(q') /\ (SoleOther(q) => SoleOther(q'))
        /\ AudioOnly(q) => AudioOnly(q')
    BY <1>0, <2>1, Taken
  <2>4. NobodyIdle' => NobodyIdle
    BY <2>1, <2>2 DEF NobodyIdle
  <2> QED
    BY <1>0, <2>1, <2>3, <2>4
<1>5. CASE Closed
  <2>1. q' = <<>> /\ output_stop_requested'
    BY <1>5 DEF Closed
  <2>2. q' \in Seq(Report) /\ Len(q') = 0
    BY <2>1
  <2>3. SoleAudio(q')
    BY <2>2 DEF SoleAudio
  <2> QED
    BY <2>1, <2>2, <2>3
<1>6. CASE Quiet
  <2>1. q' = q /\ (NobodyIdle' => NobodyIdle)
    BY <1>6 DEF Quiet, NobodyIdle
  <2> QED
    BY <1>0, <1>6, <2>1 DEF Quiet
<1> QED
  BY <1>2, <1>3, <1>4, <1>5, <1>6, QueueSteps

LEMMA WriterSteps ==
  ASSUME PlaceInv, output_state' \in DsState, [Next]_vars
  PROVE  \/ WriterTakes \/ WriteSucceeds \/ WriteFails
         \/ /\ UNCHANGED <<writing, controller>>
            /\ pc'["writer"] = "write" => pc["writer"] = "write"
<1>0. pc \in [Threads -> Labels] /\ "writer" \in Threads /\ "writer" \notin Senders
      /\ "writer" \notin Stoppers
  BY DEF PlaceInv, PlaceType, Threads, Senders, Workers, Stoppers
<1>1. ASSUME ~WriterTakes, ~WriteSucceeds, ~WriteFails
      PROVE  UNCHANGED <<writing, controller>>
  <2> USE DEF outVars
  <2>1. CASE \E t \in Senders : Sending(t)
    BY <2>1 DEF Sending, BuildIfChanged, Lock, Enqueue, OutputIdle
  <2>2. CASE \E t \in Stoppers \cup {"main"} : Stopping(t)
    BY <2>2 DEF Stopping, Request, CancelVirtual, CancelBluetooth, JoinWriter
  <2>3. CASE Writer
    BY <1>1, <2>3 DEF Writer, WriterStops
  <2>4. CASE LoopCheck("virtual", "enter") \/ VirtualReads \/ VirtualReadEnds
               \/ MicState \/ FeatureLock \/ FeatureDone
    BY <2>4 DEF LoopCheck, VirtualReads, VirtualReadEnds, MicState, FeatureLock, FeatureDone
  <2>5. CASE HostSends
    <3>1. \E f : Frame(f)
      BY <2>5 DEF HostSends, AudioInterface, Capture, Pcm, HidOut, Feature
    <3> QED
      BY <3>1 DEF Frame
  <2>6. CASE LoopCheck("bluetooth", "reading") \/ BluetoothReadEnds \/ BluetoothWriteEnds
               \/ ControllerReports \/ ControllerLost
    BY <2>6 DEF LoopCheck, BluetoothReadEnds, BluetoothWriteEnds,
       ControllerReports, ControllerLost, BluetoothThrows
  <2>7. CASE BluetoothHandles
    BY <2>7 DEF BluetoothHandles, InputReport
  <2>8. CASE FlushEnds \/ TakeEffects \/ ApplyEffects \/ AudioSent \/ AudioBlocked
    BY <2>8 DEF FlushEnds, TakeEffects, ApplyEffects, AudioSent, AudioBlocked, AudioDone
  <2>9. CASE FlushFrame
    BY <2>9 DEF FlushFrame
  <2>10. CASE MonitorPolls \/ RecordInitial \/ MainStarts \/ MainJoins \/ MainDestroys
                \/ JoinWriter("main")
    BY <2>10 DEF MonitorPolls, RecordInitial, MainStarts, MainJoins, MainDestroys, MainFrame,
       JoinWriter
  <2>11. CASE EffectsSet \/ StopDaemon \/ StopSession \/ PipeBreaks \/ UNCHANGED vars
    BY <2>11 DEF EffectsSet, StopDaemon, StopSession, PipeBreaks, EnvFrame, vars
  <2>12. /\ {"virtual", "bluetooth", "flush", "main"} \subseteq Senders
         /\ {"virtual", "bluetooth", "monitor"} \subseteq Stoppers
    BY DEF Senders, Workers, Stoppers
  <2>13. FlushWaits \/ FlushChunk \/ FlushConceals \/ FlushUnderflow => FlushFrame
    BY DEF FlushWaits, FlushChunk, FlushConceals, FlushUnderflow
  <2> QED
    BY <2>1, <2>2, <2>3, <2>4, <2>5, <2>6, <2>7, <2>8, <2>9, <2>10, <2>11, <2>12, <2>13
       DEF Next, Main, Monitor, Virtual, Bluetooth, Flush
<1>2. ASSUME ~WriterTakes, ~WriteSucceeds, ~WriteFails
      PROVE  pc'["writer"] = "write" => pc["writer"] = "write"
  <2>1. ASSUME NEW t, NEW l, Goes(t, l), t # "writer" PROVE pc'["writer"] = pc["writer"]
    BY <1>0, <2>1 DEF Goes, Moves
  <2>2. CASE Writer
    BY <1>0, <1>2, <2>2 DEF Writer, WriterStops, Goto
  <2>3. CASE Born
    BY <1>0, <2>3 DEF Born, Senders
  <2>4. CASE EffectsSet \/ StopDaemon \/ StopSession \/ PipeBreaks \/ UNCHANGED vars
    BY <2>4 DEF EffectsSet, StopDaemon, StopSession, PipeBreaks, EnvFrame, vars
  <2> QED
    BY <2>1, <2>2, <2>3, <2>4, MainGoes, MonitorGoes, VirtualGoes, BluetoothGoes, FlushGoes
       DEF Next
<1> QED
  BY <1>1, <1>2

LEMMA ToldType ==
  ASSUME NEW r \in Report, controller \in DsState \cup {None}
  PROVE  Told(r) \in DsState \cup {None}
<1>1. r.ds \in DsState /\ r.ds.mic \in BOOLEAN /\ r.ds.mute_light \in MuteLights
  BY DEF Report, DsState
<1>2. controller # None =>
        [controller EXCEPT !.mic = r.ds.mic, !.mute_light = r.ds.mute_light] \in DsState
  BY <1>1, MicType
<1> QED
  BY <1>1, <1>2 DEF Told

LEMMA TransportStep ==
  ASSUME PlaceInv, TransportInv, output_state' \in DsState, [Next]_vars
  PROVE  TransportInv'
<1>0. /\ output_queue \in Seq(Report) /\ writing \in Report \cup {None}
      /\ controller \in DsState \cup {None} /\ (pc["writer"] = "write" => writing \in Report)
      /\ pc \in [Threads -> Labels] /\ "writer" \in Threads
  BY DEF TransportInv, TransportType, PlaceInv, PlaceType, Threads
<1>1. /\ writing' \in Report \cup {None} /\ controller' \in DsState \cup {None}
      /\ pc'["writer"] = "write" => writing' \in Report
  <2>1. CASE WriterTakes
    <3>1. output_queue # <<>> /\ writing' = Head(output_queue) /\ controller' = controller
      BY <2>1 DEF WriterTakes
    <3> QED
      BY <1>0, <3>1, TailOf
  <2>2. CASE WriteSucceeds
    <3>1. /\ writing \in Report /\ controller' = Told(writing) /\ writing' = None
          /\ pc'["writer"] = "wait"
      BY <1>0, <2>2 DEF WriteSucceeds, Goto
    <3> QED
      BY <1>0, <3>1, ToldType
  <2>3. CASE WriteFails
    <3>1. controller' = controller /\ writing' = None /\ pc'["writer"] # "write"
      BY <1>0, <2>3 DEF WriteFails, Goto
    <3> QED
      BY <1>0, <3>1
  <2>4. CASE /\ UNCHANGED <<writing, controller>>
             /\ pc'["writer"] = "write" => pc["writer"] = "write"
    BY <1>0, <2>4
  <2> QED
    BY <2>1, <2>2, <2>3, <2>4, WriterSteps
<1> QED
  BY <1>1, QueueStep DEF TransportInv, TransportType

-----------------------------------------------------------------------------
(* The whole invariant.                                                     *)

PartsInv == PlaceInv /\ StoreInv /\ StateInv /\ CountInv /\ FlagInv /\ TransportInv

LEMMA PartsInit ==
  ASSUME Init PROVE PartsInv
<1>0. /\ "main" \in Senders /\ "main" \notin Workers /\ Workers \subseteq Senders
      /\ "monitor" \notin Senders /\ "writer" \notin Senders /\ world \in Worlds
      /\ Senders = Workers \cup {"main"} /\ Threads = Workers \cup {"main", "monitor", "writer"}
      /\ None \notin Senders
  BY BridgeAssumption DEF Init, Senders, Workers, Threads
<1>1. InitialState \in DsState
  BY DEF InitialState, DsState, MuteLights
<1>2. /\ \A t \in Workers : pc[t] = "unborn"
      /\ pc["main"] = "send" /\ pc["writer"] = "wait" /\ pc \in [Threads -> Labels]
  BY <1>0 DEF Init, Labels, Threads
<1>3. StateInv
  BY <1>1 DEF Init, StateInv
<1>4. StoreInv
  <2>1. /\ SavedEffects \in Effects!Authored /\ Effects!Cleared \in Effects!Authored
        /\ Effects!NoRequest \in [pc : {"none", "store", "save"}, effects : Effects!Authored]
        /\ Effects!NoRequest.pc = "none"
    BY DEF SavedEffects, Effects!Cleared, Effects!NoRequest, Effects!Authored
  <2>2. /\ store \in Effects!Authored /\ saved \in Effects!Authored
        /\ request = Effects!NoRequest /\ effects \in {0, 1}
    BY <2>1 DEF Init, Effects!Load
  <2>3. world.effects \in Nat
    BY <1>0, WorldTypes
  <2>4. StoreType
    BY <1>0, <2>1, <2>2, <2>3 DEF Init, StoreType
  <2>5. EffectsInv
    BY <1>0, <1>2, <2>1, <2>2, <2>3 DEF EffectsInv, Workers
  <2> QED
    BY <2>4, <2>5 DEF StoreInv
<1>5. PlaceInv
  <2>1. [kind |-> "init", ds |-> InitialState] \in Report
    BY <1>1 DEF Report, Kinds
  <2>2. out \in [Senders -> Seq(Report)] /\ out["main"] # <<>>
    BY <1>0, <2>1 DEF Init
  <2>3. PlaceType
    BY <1>1, <1>2, <2>2 DEF Init, PlaceType
  <2>4. LockInv
    BY <1>0, <1>2 DEF Init, LockInv, Locked
  <2>5. Carries
    BY <1>0, <1>2, <2>2 DEF Carries, HasReport
  <2>6. Resumes
    BY <1>0 DEF Init, Resumes, Resume
  <2>7. MainInv
    BY <1>0, <1>2 DEF Init, MainInv, Early, HasReport
  <2> QED
    BY <2>3, <2>4, <2>5, <2>6, <2>7 DEF PlaceInv
<1>6. CountInv
  <2>1. world.frames \in Nat /\ world.reports \in Nat /\ MaxPending \in Nat
    BY <1>0, WorldTypes, BridgeAssumption DEF MaxPending
  <2> QED
    BY <1>0, <2>1 DEF Init, CountInv
<1>7. FlagInv
  BY DEF Init, FlagInv, OuterFlags, AudioFlags, MicFlags, PastFlags
<1>8. TransportInv
  <2>1. output_queue = <<>> /\ DOMAIN output_queue = {}
    BY DEF Init
  <2>2. OneAudio /\ OneOther
    BY <2>1 DEF OneAudio, OneOther, WaitingOther, WaitingAudio
  <2>3. TransportType
    BY <1>2 DEF Init, TransportType
  <2> QED
    BY <2>2, <2>3 DEF TransportInv
<1> QED
  BY <1>3, <1>4, <1>5, <1>6, <1>7, <1>8 DEF PartsInv

LEMMA PartsStep ==
  ASSUME PartsInv, [Next]_vars PROVE PartsInv'
<1>0. frames \in Nat
  BY WorldTypes DEF PartsInv, CountInv
<1>1. StateInv'
  BY <1>0, StateStep DEF PartsInv
<1>2. output_state' \in DsState
  BY <1>1 DEF StateInv
<1>3. PlaceInv' /\ StoreInv' /\ TransportInv'
  BY <1>2, PlaceStep, StoreStep, TransportStep DEF PartsInv
<1>4. CountInv' /\ FlagInv'
  BY CountStep, OuterStep, AudioFlagStep, MicFlagStep, PastFlagStep DEF PartsInv, FlagInv
<1> QED
  BY <1>1, <1>3, <1>4 DEF PartsInv

LEMMA PartsOfSession ==
  ASSUME PartsInv PROVE SessionInv
<1>1. /\ StoreType /\ EffectsInv /\ StateInv /\ CountInv /\ TransportType /\ OneAudio /\ OneOther
      /\ PlaceType /\ LockInv /\ Carries /\ Resumes /\ MainInv
      /\ OuterFlags /\ AudioFlags /\ MicFlags /\ PastFlags
  BY DEF PartsInv, StoreInv, TransportInv, PlaceInv, FlagInv
<1>2. SendInv
  BY <1>1 DEF SendInv, Carries, Resumes, Resume, TransportType
<1>3. TypeOK
  <2>1. {stop_requested, session_stop_requested, bridge_restart_requested, pipe_up,
         audio_out_stream_active, audio_pcm_stream_active, last_audio_chunk,
         headset_plugged, audio_in_stream_active, mic_muted, feature_cached, cancelled,
         output_stop_requested, output_error, overtaken, misrecorded, lost} \subseteq BOOLEAN
    BY <1>1 DEF OuterFlags, AudioFlags, MicFlags, PastFlags
  <2>2. then \in [Senders -> Labels]
    BY <1>1 DEF Resumes, Resume, Labels
  <2> QED
    BY <1>1, <2>1, <2>2 DEF TypeOK, PlaceType, Threads, StoreType, StateInv, CountInv,
       TransportType
<1> QED
  BY <1>1, <1>2, <1>3 DEF SessionInv

(* Who is sending holds a report, one thread at a time is between lock and  *)
(* unlock of bluetooth_mutex, the threads of run_bridge_session run after   *)
(* main has sent its report, and a report that is not audio waits only      *)
(* while its sender does.                                                   *)
THEOREM SessionStands == Spec => []SessionInv
<1>1. Init => PartsInv
  BY PartsInit
<1>2. PartsInv /\ [Next]_vars => PartsInv'
  BY PartsStep
<1>3. PartsInv => SessionInv
  BY PartsOfSession
<1> QED
  BY <1>1, <1>2, <1>3, PTL DEF Spec

(* What run_bridge_session, its threads and the transport share keeps its   *)
(* type; the audio queue does not grow beyond its limit.                    *)
THEOREM SessionTypes == Spec => []TypeOK
<1>1. SessionInv => TypeOK
  BY DEF SessionInv
<1> QED
  BY <1>1, SessionStands, PTL

(* HidBluetoothTransport::enqueue_output_report is never asked for more     *)
(* than one audio report and one other while the transport is open: the     *)
(* limit of writes that may wait is not met, however many threads send.     *)
THEOREM TransportStaysShort == Spec => []OutputBounded
<1>1. SessionInv => OutputBounded
  BY DEF SessionInv, OutputBounded, OneAudio, OneOther, WaitingAudio, WaitingOther
<1> QED
  BY <1>1, SessionStands, PTL
=============================================================================
