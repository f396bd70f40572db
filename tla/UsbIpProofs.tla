---------------------------- MODULE UsbIpProofs ----------------------------
(***************************************************************************)
(* Theorems about UsbIp, for every value of its constants.                 *)
(***************************************************************************)
EXTENDS UsbIp, QueueLemmas

-----------------------------------------------------------------------------
(* The place of a paced reply is in its queue or just behind it.            *)
LEMMA PlaceInQueue ==
  ASSUME NEW r, paced_replies \in Seq(Paced)
  PROVE  Cardinality(DueBefore(r)) + 1 \in 1 .. Len(paced_replies) + 1
<1>1. /\ IsFiniteSet(1 .. Len(paced_replies)) /\ Len(paced_replies) \in Nat
      /\ Cardinality(1 .. Len(paced_replies)) = Len(paced_replies)
  <2>1. Len(paced_replies) \in Nat
    BY LenProperties
  <2> QED
    BY <2>1, FS_Interval
<1>2. DueBefore(r) \subseteq 1 .. Len(paced_replies)
  BY LenProperties DEF DueBefore
<1>3. IsFiniteSet(DueBefore(r)) /\ Cardinality(DueBefore(r)) <= Len(paced_replies)
  BY <1>1, <1>2, FS_Subset
<1>4. Cardinality(DueBefore(r)) \in Nat
  BY <1>3, FS_CardinalityType
<1> QED
  BY <1>1, <1>3, <1>4

-----------------------------------------------------------------------------
(* The invariant.                                                           *)

(* The types of what the helpers of the actions change.                     *)
HostStates == {"idle", "sent", "unlinking", "done", "unlinked", "late", "lost"}

LEMMA SessionsBound ==
  ASSUME TypeOK PROVE world.sessions \in Nat
BY UsbIpAssumption DEF TypeOK, World

LEMMA CompletedType ==
  ASSUME TypeOK, NEW s, NEW a \in Nat, Completed(s, a)
  PROVE  host' \in [Seqs -> HostStates] /\ answer' \in [Seqs -> Nat]
BY DEF TypeOK, Completed, HostStates

LEMMA ReplyType ==
  ASSUME TypeOK, NEW s, NEW a \in Nat, Reply(s, a)
  PROVE  /\ session' \in {"receive", "cleanup"}
         /\ host' \in [Seqs -> HostStates] /\ answer' \in [Seqs -> Nat]
<1>1. CASE Completed(s, a) /\ Continue
  BY <1>1, CompletedType DEF Continue
<1>2. CASE session' \in {"receive", "cleanup"} /\ UNCHANGED <<host, answer>>
  BY <1>2 DEF TypeOK, HostStates
<1> QED
  BY <1>1, <1>2 DEF Reply, Continue

LEMMA LinkEndsType ==
  ASSUME TypeOK, NEW how \in {"closed", "shut"}, LinkEnds(how) \/ PeerCloses
  PROVE  /\ host' \in [Seqs -> HostStates] /\ link' \in {"up", "closed", "shut"}
         /\ inbox' \in Seq([op : {"submit", "unlink"}, seq : Seqs])
<1>1. <<>> \in Seq([op : {"submit", "unlink"}, seq : Seqs])
  OBVIOUS
<1>2. Lost \in [Seqs -> HostStates]
  BY DEF Lost, TypeOK, HostStates
<1> QED
  BY <1>1, <1>2 DEF LinkEnds, PeerCloses, TypeOK, HostStates

(* A reply that is paced is put into the queue, due no earlier than the     *)
(* audio of its stream has had its time.                                    *)
LEMMA PaceAdds ==
  ASSUME TypeOK, NEW k \in Iso, Pace(k), current \in Seqs
  PROVE  \E due \in Nat :
           /\ [seq |-> current, no |-> session_no, due |-> due] \in Paced
           /\ iso_next_due[k] <= due
           /\ iso_next_due' = [iso_next_due EXCEPT ![k] = due + Packets]
           /\ paced_replies' \in Seq(Paced)
           /\ Range(paced_replies') \subseteq
                Range(paced_replies) \cup {[seq |-> current, no |-> session_no, due |-> due]}
<1> DEFINE due == DueTime(iso_next_due[k])
           reply == [seq |-> current, no |-> session_no, due |-> due]
<1>1. due \in Nat /\ iso_next_due[k] <= due
  <2>1. now \in Nat /\ iso_next_due[k] \in Nat \cup {-1} /\ StaleAfter \in Nat
    BY UsbIpAssumption DEF TypeOK
  <2> QED
    BY <2>1 DEF DueTime
<1>2. session_no \in Nat
  BY DEF TypeOK
<1>3. /\ iso_next_due' = [iso_next_due EXCEPT ![k] = due + Packets]
      /\ paced_replies' = Scheduled(reply)
  BY DEF Pace
<1> HIDE DEF due
<1>4. reply \in Paced
  BY <1>1, <1>2 DEF Paced
<1> HIDE DEF reply
<1>5. paced_replies \in Seq(Paced)
  BY DEF TypeOK
<1>6. Cardinality(DueBefore(reply)) + 1 \in 1 .. Len(paced_replies) + 1
  BY <1>5, PlaceInQueue
<1>7. /\ Scheduled(reply) \in Seq(Paced)
      /\ Range(Scheduled(reply)) \subseteq Range(paced_replies) \cup {reply}
  BY <1>4, <1>5, <1>6, Insertion DEF Scheduled
<1>8. /\ reply \in Paced /\ iso_next_due[k] <= due
      /\ iso_next_due' = [iso_next_due EXCEPT ![k] = due + Packets]
      /\ paced_replies' \in Seq(Paced)
      /\ Range(paced_replies') \subseteq Range(paced_replies) \cup {reply}
  BY <1>1, <1>3, <1>4, <1>7
<1> QED
  BY <1>1, <1>8 DEF reply

LEMMA PaceType ==
  ASSUME TypeOK, NEW k \in Iso, Pace(k), current \in Seqs
  PROVE  /\ session' \in {"receive", "cleanup"}
         /\ paced_replies' \in Seq(Paced)
         /\ \A r \in Range(paced_replies') :
              r \in Range(paced_replies) \/ r.no = session_no
         /\ iso_next_due' \in [Iso -> Nat \cup {-1}]
         /\ pacer' \in {pacer, "look"} /\ in_hand' = in_hand
<1>1. PICK due \in Nat :
        /\ iso_next_due' = [iso_next_due EXCEPT ![k] = due + Packets]
        /\ paced_replies' \in Seq(Paced)
        /\ Range(paced_replies') \subseteq
             Range(paced_replies) \cup {[seq |-> current, no |-> session_no, due |-> due]}
  BY PaceAdds
<1>2. iso_next_due' \in [Iso -> Nat \cup {-1}]
  BY <1>1, UsbIpAssumption DEF TypeOK
<1>3. NotifyPacer /\ in_hand' = in_hand /\ Continue
  BY DEF Pace
<1> QED
  BY <1>1, <1>2, <1>3 DEF NotifyPacer, Continue

(* Every step leaves every variable in its type.                            *)
LEMMA TypesStep ==
  ASSUME TypeOK, [Next]_vars,
         session \in {"handle", "wait_feature"} => current \in Seqs,
         listener = "found" => session_no < world.sessions
  PROVE  TypeOK'
<1> USE DEF TypeOK, Phases, ownerVars, sessVars, linkVars, hostVars, pipeVars, demuxVars,
            pacerVars, timeVars
<1>1. ASSUME NEW s \in Seqs, NEW k \in world.kinds, Submit(s, k) PROVE TypeOK'
  <2>1. inbox' \in Seq([op : {"submit", "unlink"}, seq : Seqs])
    <3>1. inbox' = Append(inbox, [op |-> "submit", seq |-> s])
      BY <1>1 DEF Submit
    <3>2. [op |-> "submit", seq |-> s] \in [op : {"submit", "unlink"}, seq : Seqs]
      OBVIOUS
    <3> QED
      BY <3>1, <3>2, AppendProperties
  <2>2. k \in AllKinds
    BY UsbIpAssumption DEF World
  <2>3. host' \in [Seqs -> HostStates] /\ kind' \in [Seqs -> AllKinds]
    BY <1>1, <2>2 DEF Submit, HostStates
  <2> QED
    BY <1>1, <2>1, <2>3 DEF Submit, HostStates
<1>2. ASSUME NEW s \in Seqs, Unlink(s) PROVE TypeOK'
  BY <1>2 DEF Unlink
<1>3. CASE HostCloses
  <2>1. /\ host' \in [Seqs -> HostStates] /\ link' \in {"up", "closed", "shut"}
        /\ inbox' \in Seq([op : {"submit", "unlink"}, seq : Seqs])
    BY <1>3, LinkEndsType DEF HostCloses
  <2> QED
    BY <1>3, <2>1 DEF HostCloses, HostStates
<1>4. CASE DaemonOpens
  BY <1>4 DEF DaemonOpens
<1>5. CASE DaemonAnswers
  <2>1. asked # <<>> /\ Head(asked) \in Seqs /\ Tail(asked) \in Seq(Seqs)
    BY <1>5, HeadTailProperties DEF DaemonAnswers
  <2>2. Head(asked) \in Nat
    BY <2>1 DEF Seqs
  <2>3. frames' \in Seq([type : {"HID_IN", "FEATURE_REPLY", "AUDIO_IN"}, of : Nat])
    <3>1. frames' = Append(frames, [type |-> "FEATURE_REPLY", of |-> Head(asked)])
      BY <1>5 DEF DaemonAnswers
    <3>2. [type |-> "FEATURE_REPLY", of |-> Head(asked)]
            \in [type : {"HID_IN", "FEATURE_REPLY", "AUDIO_IN"}, of : Nat]
      BY <2>2
    <3> QED
      BY <3>1, <3>2, AppendProperties
  <2> QED
    BY <1>5, <2>1, <2>3, SMTT(30) DEF DaemonAnswers
<1>6. CASE DaemonFails
  BY <1>6 DEF DaemonFails, PipeUp
<1>7. CASE DaemonReports
  BY <1>7 DEF DaemonReports, PipeUp
<1>8. CASE DaemonRecords
  BY <1>8 DEF DaemonRecords, PipeUp, Nothing
<1>9. CASE DaemonCloses
  BY <1>9 DEF DaemonCloses
<1>10. CASE ListenerReady
  BY <1>10 DEF ListenerReady
<1>11. CASE Refuse
  BY <1>11 DEF Refuse, Admissible
<1>12. CASE ClientAsks
  BY <1>12 DEF ClientAsks, FindPort, Registered
<1>13. CASE Admit
  <2>1. session_no' \in 0 .. world'.sessions
    <3>1. /\ session_no \in 0 .. world.sessions /\ session_no < world.sessions
          /\ session_no' = session_no + 1 /\ world' = world
      BY <1>13 DEF Admit
    <3> QED
      BY <3>1, SessionsBound
  <2>2. inbox' \in Seq([op : {"submit", "unlink"}, seq : Seqs])
    BY <1>13 DEF Admit
  <2> QED
    BY <1>13, <2>1, <2>2 DEF Admit
<1>14. CASE Begin
  BY <1>14 DEF Begin
<1>15. CASE Import
  <2>1. session' \in {"connect", "finishing"} /\ attached' \in BOOLEAN
    BY <1>15 DEF Import
  <2> QED
    BY <1>15, <2>1 DEF Import
<1>16. CASE ConnectNamedPipe
  BY <1>16 DEF ConnectNamedPipe, Serve, Continue
<1>17. CASE PipeConnected
  BY <1>17 DEF PipeConnected, Serve, Continue
<1>18. CASE ReceiveUnlink
  <2>1. inbox' \in Seq([op : {"submit", "unlink"}, seq : Seqs])
    BY <1>18 DEF ReceiveUnlink
  <2>2. host' \in [Seqs -> HostStates]
    BY <1>18 DEF ReceiveUnlink, Unlinked, HostStates
  <2> QED
    BY <1>18, <2>1, <2>2 DEF ReceiveUnlink, Continue, HostStates
<1>19. CASE ReceiveSubmit
  <2>1. inbox \in Seq([op : {"submit", "unlink"}, seq : Seqs]) /\ inbox # <<>>
    BY <1>19 DEF ReceiveSubmit
  <2>2. /\ inbox' \in Seq([op : {"submit", "unlink"}, seq : Seqs])
        /\ Head(inbox) \in [op : {"submit", "unlink"}, seq : Seqs]
    BY <1>19, <2>1, HeadTailProperties DEF ReceiveSubmit
  <2>3. current' \in Seqs \cup {Nothing}
    BY <1>19, <2>2 DEF ReceiveSubmit
  <2> QED
    BY <1>19, <2>2, <2>3 DEF ReceiveSubmit
<1>20. CASE ReceiveFails
  BY <1>20 DEF ReceiveFails
<1>21. CASE HandleControl
  <2>1. /\ session' \in {"receive", "cleanup"}
        /\ host' \in [Seqs -> HostStates] /\ answer' \in [Seqs -> Nat]
    <3>1. current \in Seqs /\ Reply(current, Nothing)
      BY <1>21 DEF HandleControl, Handles
    <3> QED
      BY <3>1, ReplyType DEF Nothing
  <2>2. UNCHANGED <<ownerVars, current, session_no, client_socket, attached, linkVars,
                    kind, pipeVars, reader, demuxVars, pacerVars, timeVars>>
    BY <1>21 DEF HandleControl
  <2> QED
    BY <2>1, <2>2 DEF HostStates
<1>22. CASE WriteFails
  BY <1>22, UsbIpAssumption DEF WriteFails
<1>23. CASE SetInterface
  <2>1. /\ session' \in {"receive", "cleanup"}
        /\ host' \in [Seqs -> HostStates] /\ answer' \in [Seqs -> Nat]
    BY <1>23, ReplyType DEF SetInterface, Nothing
  <2>2. mic_ring_buffer' \in 0 .. MicMax /\ mic_primed' \in BOOLEAN
    <3>1. 0 \in 0 .. MicMax
      BY UsbIpAssumption
    <3> QED
      BY <1>23, <3>1 DEF SetInterface
  <2> QED
    BY <1>23, <2>1, <2>2 DEF SetInterface, HostStates
<1>24. CASE HidOut
  <2>1. /\ session' \in {"receive", "cleanup"}
        /\ host' \in [Seqs -> HostStates] /\ answer' \in [Seqs -> Nat]
    <3>1. current \in Seqs /\ Reply(current, Nothing)
      BY <1>24 DEF HidOut, Handles
    <3> QED
      BY <3>1, ReplyType DEF Nothing
  <2>2. UNCHANGED <<ownerVars, current, session_no, client_socket, attached, linkVars,
                    kind, pipeVars, reader, demuxVars, pacerVars, timeVars>>
    BY <1>24 DEF HidOut
  <2> QED
    BY <2>1, <2>2 DEF HostStates
<1>25. CASE GetReport
  <2>1. asked' \in Seq(Seqs)
    BY <1>25 DEF GetReport, Handles
  <2> QED
    BY <1>25, <2>1 DEF GetReport
<1>26. CASE FeatureReply
  <2>1. Head(feature_reply_queue) \in Nat /\ feature_reply_queue' \in Seq(Nat)
    BY <1>26, HeadTailProperties DEF FeatureReply, TakeReply
  <2>2. /\ session' \in {"receive", "cleanup"}
        /\ host' \in [Seqs -> HostStates] /\ answer' \in [Seqs -> Nat]
    BY <1>26, <2>1, ReplyType DEF FeatureReply
  <2>3. UNCHANGED <<ownerVars, current, session_no, client_socket, attached, linkVars,
                    kind, pipeVars, reader, hid_in_queue, mic_ring_buffer, mic_primed,
                    pacerVars, timeVars>>
    BY <1>26 DEF FeatureReply
  <2>4. /\ session' \in Phases
        /\ host' \in [Seqs -> {"idle", "sent", "unlinking", "done", "unlinked", "late", "lost"}]
        /\ answer' \in [Seqs -> Nat] /\ feature_reply_queue' \in Seq(Nat)
    BY <2>1, <2>2 DEF HostStates
  <2> QED
    BY <2>3, <2>4, SMTT(30)
<1>27. CASE FeatureTimeout
  <2>1. /\ session' \in {"receive", "cleanup"}
        /\ host' \in [Seqs -> HostStates] /\ answer' \in [Seqs -> Nat]
    <3>1. current \in Seqs /\ Reply(current, Nothing)
      BY <1>27 DEF FeatureTimeout, Handles
    <3> QED
      BY <3>1, ReplyType DEF Nothing
  <2>2. UNCHANGED <<ownerVars, current, session_no, client_socket, attached, linkVars,
                    kind, pipeVars, reader, demuxVars, pacerVars, timeVars>>
    BY <1>27 DEF FeatureTimeout
  <2> QED
    BY <2>1, <2>2 DEF HostStates
<1>28. CASE HidIn
  <2>1. Head(hid_in_queue) \in Nat /\ hid_in_queue' \in Seq(Nat)
    BY <1>28, HeadTailProperties DEF HidIn
  <2>2. /\ session' \in {"receive", "cleanup"}
        /\ host' \in [Seqs -> HostStates] /\ answer' \in [Seqs -> Nat]
    BY <1>28, <2>1, ReplyType DEF HidIn
  <2>3. UNCHANGED <<ownerVars, current, session_no, client_socket, attached, linkVars,
                    kind, pipeVars, reader, feature_reply_queue, mic_ring_buffer,
                    mic_primed, pacerVars, timeVars>>
    BY <1>28 DEF HidIn
  <2>4. /\ session' \in Phases
        /\ host' \in [Seqs -> {"idle", "sent", "unlinking", "done", "unlinked", "late", "lost"}]
        /\ answer' \in [Seqs -> Nat] /\ hid_in_queue' \in Seq(Nat)
    BY <2>1, <2>2 DEF HostStates
  <2> QED
    BY <2>3, <2>4, SMTT(30)
<1>29. CASE HidInTimeout
  <2>1. /\ session' \in {"receive", "cleanup"}
        /\ host' \in [Seqs -> HostStates] /\ answer' \in [Seqs -> Nat]
    <3>1. current \in Seqs /\ Reply(current, Nothing)
      BY <1>29 DEF HidInTimeout, Handles
    <3> QED
      BY <3>1, ReplyType DEF Nothing
  <2>2. UNCHANGED <<ownerVars, current, session_no, client_socket, attached, linkVars,
                    kind, pipeVars, reader, demuxVars, pacerVars, timeVars>>
    BY <1>29 DEF HidInTimeout
  <2> QED
    BY <2>1, <2>2 DEF HostStates
<1>30. CASE AudioOut
  <2>1. current \in Seqs /\ "audio_out" \in Iso /\ Pace("audio_out")
    BY <1>30 DEF AudioOut, Handles, Iso
  <2>2. /\ session' \in {"receive", "cleanup"} /\ paced_replies' \in Seq(Paced)
        /\ iso_next_due' \in [Iso -> Nat \cup {-1}]
        /\ pacer' \in {pacer, "look"} /\ in_hand' = in_hand
    BY <2>1, PaceType
  <2> QED
    BY <1>30, <2>2 DEF AudioOut
<1>31. CASE AudioIn
  <2>1. current \in Seqs /\ "audio_in" \in Iso /\ Pace("audio_in")
    BY <1>31 DEF AudioIn, Handles, Iso
  <2>2. /\ session' \in {"receive", "cleanup"} /\ paced_replies' \in Seq(Paced)
        /\ iso_next_due' \in [Iso -> Nat \cup {-1}]
        /\ pacer' \in {pacer, "look"} /\ in_hand' = in_hand
    BY <2>1, PaceType
  <2>3. mic_ring_buffer' \in 0 .. MicMax /\ mic_primed' \in BOOLEAN
    BY <1>31, UsbIpAssumption DEF AudioIn, Primed
  <2> QED
    BY <1>31, <2>2, <2>3 DEF AudioIn
<1>32. CASE Cleanup
  <2>1. /\ asked' \in Seq(Seqs) /\ paced_replies' \in Seq(Paced)
        /\ frames' \in Seq([type : {"HID_IN", "FEATURE_REPLY", "AUDIO_IN"}, of : Nat])
        /\ iso_next_due' \in [Iso -> Nat \cup {-1}]
    BY <1>32 DEF Cleanup, DropPaced
  <2>2. attached' \in BOOLEAN /\ pipe' \in {"free", "connected", "disconnected", "closed"}
        /\ session' \in Phases
    BY <1>32 DEF Cleanup
  <2> QED
    BY <1>32, <2>1, <2>2 DEF Cleanup
<1>33. CASE Finish
  <2>1. /\ host' \in [Seqs -> HostStates] /\ link' \in {"up", "closed", "shut"}
        /\ inbox' \in Seq([op : {"submit", "unlink"}, seq : Seqs])
    BY <1>33, LinkEndsType DEF Finish
  <2>2. current' \in Seqs \cup {Nothing} /\ session' \in Phases /\ client_socket' \in BOOLEAN
    BY <1>33 DEF Finish
  <2> QED
    BY <1>33, <2>1, <2>2 DEF Finish, HostStates
<1>34. CASE ReaderReads
  <2> DEFINE F == [type : {"HID_IN", "FEATURE_REPLY", "AUDIO_IN"}, of : Nat]
  <2>1. frames \in Seq(F) /\ frames # <<>> /\ frames' = Tail(frames)
    BY <1>34 DEF ReaderReads
  <2>2. Head(frames) \in F /\ frames' \in Seq(F)
    BY <2>1, HeadTailProperties
  <2>3. Head(frames).of \in Nat
    BY <2>2
  <2>4. \/ UNCHANGED <<hid_in_queue, feature_reply_queue>>
        \/ hid_in_queue' = <<Head(frames).of>> /\ UNCHANGED feature_reply_queue
        \/ /\ feature_reply_queue' = Append(feature_reply_queue, Head(frames).of)
           /\ UNCHANGED hid_in_queue
    BY <1>34 DEF ReaderReads, NewestReport
  <2>5. /\ <<Head(frames).of>> \in Seq(Nat)
        /\ Append(feature_reply_queue, Head(frames).of) \in Seq(Nat)
    <3>1. \A n \in Nat : <<n>> \in Seq(Nat)
      OBVIOUS
    <3>2. feature_reply_queue \in Seq(Nat)
      OBVIOUS
    <3> QED
      BY <2>3, <3>1, <3>2, AppendProperties
  <2>7. hid_in_queue' \in Seq(Nat) /\ feature_reply_queue' \in Seq(Nat)
    <3>1. hid_in_queue \in Seq(Nat) /\ feature_reply_queue \in Seq(Nat)
      OBVIOUS
    <3> QED
      BY <2>4, <2>5, <3>1, Zenon
  <2>6. mic_ring_buffer' \in 0 .. MicMax /\ mic_primed' \in BOOLEAN
    <3>1. /\ mic_ring_buffer' \in {mic_ring_buffer, Capped(mic_ring_buffer + 1)}
          /\ UNCHANGED mic_primed
      BY <1>34 DEF ReaderReads
    <3>2. Capped(mic_ring_buffer + 1) \in 0 .. MicMax
      BY UsbIpAssumption DEF Capped
    <3> QED
      BY <3>1, <3>2
  <2>8. UNCHANGED <<ownerVars, sessVars, linkVars, hostVars, pipe, daemon, asked, pacerVars,
                    timeVars>>
    BY <1>34 DEF ReaderReads
  <2>9. reader' \in {"none", "reading", "exited"} /\ frames' \in Seq(F)
    BY <1>34, <2>2 DEF ReaderReads
  <2> QED
    BY <2>6, <2>7, <2>8, <2>9
<1>35. CASE ReaderFails
  BY <1>35 DEF ReaderFails
<1>36. CASE PacerLooks
  <2>1. paced_replies \in Seq(Paced) /\ in_hand \in Paced \cup {NoReply}
    OBVIOUS
  <2>2. \/ UNCHANGED <<in_hand, paced_replies>>
        \/ /\ paced_replies # <<>>
           /\ in_hand' = Head(paced_replies) /\ paced_replies' = Tail(paced_replies)
    BY <1>36 DEF PacerLooks
  <2>3. paced_replies' \in Seq(Paced) /\ in_hand' \in Paced \cup {NoReply}
    <3>1. CASE UNCHANGED <<in_hand, paced_replies>>
      BY <2>1, <3>1
    <3>2. CASE /\ paced_replies # <<>>
               /\ in_hand' = Head(paced_replies) /\ paced_replies' = Tail(paced_replies)
      <4>1. Tail(paced_replies) \in Seq(Paced) /\ Head(paced_replies) \in Paced
        BY <2>1, <3>2, TailHoldsNothingNew
      <4> QED
        BY <3>2, <4>1
    <3> QED
      BY <2>2, <3>1, <3>2
  <2> QED
    BY <1>36, <2>3 DEF PacerLooks
<1>37. CASE PacerWaits
  BY <1>37 DEF PacerWaits
<1>38. CASE PacerSends
  <2>1. host' \in [Seqs -> HostStates] /\ answer' \in [Seqs -> Nat]
    BY <1>38, CompletedType DEF PacerSends, Nothing, HostStates
  <2> QED
    BY <1>38, <2>1 DEF PacerSends, HostStates
<1>39. CASE Tick
  BY <1>39 DEF Tick
<1>40. CASE Start
  BY <1>40 DEF Start
<1>41. CASE ServerStarts
  BY <1>41 DEF ServerStarts
<1>42. CASE RegisterPort
  BY <1>42 DEF RegisterPort
<1>43. CASE OwnerAttached
  BY <1>43 DEF OwnerAttached
<1>44. CASE AttachedClientPort
  BY <1>44 DEF AttachedClientPort
<1>45. CASE DetachClient
  <2>1. PeerCloses \/ UNCHANGED <<linkVars, host>>
    BY <1>45 DEF DetachClient, ShutSocket
  <2>2. /\ host' \in [Seqs -> HostStates] /\ link' \in {"up", "closed", "shut"}
        /\ inbox' \in Seq([op : {"submit", "unlink"}, seq : Seqs])
    BY <2>1, LinkEndsType DEF HostStates
  <2> QED
    BY <1>45, <2>2 DEF DetachClient, HostStates
<1>46. CASE StopRequested
  BY <1>46 DEF StopRequested
<1>47. CASE StopNotifies
  BY <1>47 DEF StopNotifies, NotifyPacer
<1>48. CASE StopShutsDown
  <2>1. LinkEnds("shut") \/ UNCHANGED <<linkVars, host>>
    BY <1>48 DEF StopShutsDown, ShutSocket
  <2>2. /\ host' \in [Seqs -> HostStates] /\ link' \in {"up", "closed", "shut"}
        /\ inbox' \in Seq([op : {"submit", "unlink"}, seq : Seqs])
    BY <2>1, LinkEndsType DEF HostStates
  <2>3. /\ owner' = "cancel" /\ client_socket' \in BOOLEAN
        /\ UNCHANGED <<stop_requested, session, current, session_no, attached, kind,
                       answer, pipeVars, reader, demuxVars, pacerVars, timeVars>>
    BY <1>48 DEF StopShutsDown
  <2> QED
    BY <2>2, <2>3 DEF HostStates
<1>49. CASE StopCancels
  BY <1>49 DEF StopCancels
<1>50. CASE StopAwaitsSession
  <2>1. /\ asked' \in Seq(Seqs)
        /\ frames' \in Seq([type : {"HID_IN", "FEATURE_REPLY", "AUDIO_IN"}, of : Nat])
    BY <1>50 DEF StopAwaitsSession
  <2> QED
    BY <1>50, <2>1 DEF StopAwaitsSession
<1>51. CASE StopJoinsReader
  BY <1>51 DEF StopJoinsReader, NotifyPacer
<1>52. CASE StopJoinsPacer
  BY <1>52 DEF StopJoinsPacer
<1>53. CASE UNCHANGED vars
  BY <1>53 DEF vars
<1>54. CASE AdmitFails
  BY <1>54 DEF AdmitFails
<1> QED
  BY <1>1, <1>2, <1>3, <1>4, <1>5, <1>6, <1>7, <1>8, <1>9, <1>10, <1>11, <1>12, <1>13,
     <1>14, <1>15, <1>16, <1>17, <1>18, <1>19, <1>20, <1>21, <1>22, <1>23, <1>24, <1>25,
     <1>26, <1>27, <1>28, <1>29, <1>30, <1>31, <1>32, <1>33, <1>34, <1>35, <1>36, <1>37,
     <1>38, <1>39, <1>40, <1>41, <1>42, <1>43, <1>44, <1>45, <1>46, <1>47, <1>48, <1>49,
     <1>50, <1>51, <1>52, <1>53, <1>54 DEF Next, Host, Serving, Daemon, Listener, Session,
     Reader, Pacer, Owner, Stopping

-----------------------------------------------------------------------------
(* The other parts of the invariant, one at a time.                         *)

QueueApart ==
  paced_replies # <<>> =>
    /\ session \in {"receive", "handle", "wait_feature", "cleanup"}
    /\ \A r \in Range(paced_replies) : r.no = session_no
PortEnded == owner \in {"join_reader", "join_pacer", "stopped"} => session = "none"
Handling  == session \in {"handle", "wait_feature"} => current \in Seqs
Room      == listener = "found" => session_no < world.sessions
Said      == owner \in Stops => stop_requested

LEMMA Parts ==
  PortInv <=> TypeOK /\ QueueApart /\ PortEnded /\ Handling /\ Room /\ Said
BY DEF PortInv, SessionsApart, QueueApart, PortEnded, Handling, Room, Said

LEMMA ReplyPhase ==
  ASSUME NEW s, NEW a, Reply(s, a) PROVE session' \in {"receive", "cleanup"}
BY DEF Reply, Continue

(* What each step of the session does to its phase, its number and to the   *)
(* replies that wait.                                                       *)
LEMMA SessionPhase ==
  ASSUME Session
  PROVE  \/ /\ session \in {"admitted", "importing", "connect", "connecting", "finishing"}
            /\ session' # "handle" /\ session' # "wait_feature"
            /\ UNCHANGED <<session_no, paced_replies>>
         \/ /\ session \in {"receive", "handle", "wait_feature"}
            /\ session' \in {"receive", "cleanup"}
            /\ UNCHANGED <<session_no, paced_replies>>
         \/ ReceiveSubmit \/ GetReport \/ AudioOut \/ AudioIn \/ Cleanup
<1> USE DEF sessVars, pacerVars, timeVars
<1>1. CASE Begin \/ Import
  BY <1>1 DEF Begin, Import
<1>2. CASE ConnectNamedPipe \/ PipeConnected
  BY <1>2 DEF ConnectNamedPipe, PipeConnected, Serve, Continue
<1>3. CASE Finish
  BY <1>3 DEF Finish
<1>4. CASE ReceiveUnlink \/ ReceiveFails
  BY <1>4 DEF ReceiveUnlink, ReceiveFails, Continue
<1>5. CASE HandleControl \/ SetInterface \/ HidOut \/ FeatureReply \/ FeatureTimeout
             \/ HidIn \/ HidInTimeout
  <2>1. session' \in {"receive", "cleanup"}
    BY <1>5, ReplyPhase DEF HandleControl, SetInterface, HidOut, FeatureReply,
       FeatureTimeout, HidIn, HidInTimeout
  <2> QED
    BY <1>5, <2>1 DEF HandleControl, SetInterface, HidOut, FeatureReply,
       FeatureTimeout, HidIn, HidInTimeout, Handles
<1>6. CASE WriteFails
  BY <1>6 DEF WriteFails, Handles
<1> QED
  BY <1>1, <1>2, <1>3, <1>4, <1>5, <1>6 DEF Session

(* Every other step leaves number and phase of the session alone, but for a *)
(* client that is admitted and for the cancellation by stop().              *)
LEMMA OtherSteps ==
  ASSUME [Next]_vars
  PROVE  \/ Session \/ Admit \/ PacerLooks \/ StopCancels
         \/ UNCHANGED <<session, session_no, current, paced_replies>>
<1> USE DEF sessVars, pacerVars
<1>1. CASE Host \/ Serving \/ Daemon
  BY <1>1 DEF Host, Submit, Unlink, HostCloses, Serving, DaemonOpens, DaemonAnswers,
     Daemon, DaemonFails, DaemonReports, DaemonRecords, DaemonCloses
<1>2. CASE Listener \/ ClientAsks \/ AdmitFails \/ Reader \/ Tick
  BY <1>2 DEF Listener, ListenerReady, Refuse, ClientAsks, AdmitFails, Reader, ReaderReads,
     ReaderFails, Tick
<1>3. CASE PacerWaits \/ PacerSends
  BY <1>3 DEF PacerWaits, PacerSends
<1>4. CASE Start \/ ServerStarts \/ RegisterPort \/ OwnerAttached \/ AttachedClientPort
             \/ DetachClient \/ StopRequested
  BY <1>4 DEF Start, ServerStarts, RegisterPort, OwnerAttached, AttachedClientPort,
     DetachClient, StopRequested
<1>5. CASE StopNotifies \/ StopShutsDown \/ StopAwaitsSession \/ StopJoinsReader
             \/ StopJoinsPacer
  BY <1>5 DEF StopNotifies, StopShutsDown, StopAwaitsSession, StopJoinsReader, StopJoinsPacer
<1>6. CASE UNCHANGED vars
  BY <1>6 DEF vars
<1> QED
  BY <1>1, <1>2, <1>3, <1>4, <1>5, <1>6 DEF Next, Pacer, Owner, Stopping

(* Only the session that is served has replies waiting: they are dropped    *)
(* before it is over, and a new one finds none.                             *)
LEMMA QueueStep ==
  ASSUME TypeOK, QueueApart, Handling, [Next]_vars PROVE QueueApart'
<1>1. CASE UNCHANGED <<session, session_no, paced_replies>>
  BY <1>1 DEF QueueApart, Range
<1>2. CASE paced_replies' = <<>>
  BY <1>2 DEF QueueApart
<1>3. CASE /\ session' \in {"receive", "handle", "wait_feature", "cleanup"}
           /\ UNCHANGED <<session_no, paced_replies>>
  BY <1>3 DEF QueueApart, Range
<1>4. CASE AudioOut \/ AudioIn
  <2>1. PICK k \in Iso : Pace(k)
    BY <1>4 DEF AudioOut, AudioIn, Iso
  <2>2. /\ session \in {"handle", "wait_feature"} /\ current \in Seqs
        /\ session_no' = session_no
    BY <1>4 DEF AudioOut, AudioIn, Handles, Handling
  <2>3. /\ session' \in {"receive", "cleanup"}
        /\ \A r \in Range(paced_replies') : r \in Range(paced_replies) \/ r.no = session_no
    BY <2>1, <2>2, PaceType
  <2>4. \A r \in Range(paced_replies) : r.no = session_no
    BY DEF QueueApart, Range
  <2> QED
    BY <2>2, <2>3, <2>4 DEF QueueApart, Range
<1>5. CASE PacerLooks
  <2>1. /\ UNCHANGED <<session, session_no>>
        /\ \/ paced_replies' = paced_replies
           \/ paced_replies # <<>> /\ paced_replies' = Tail(paced_replies)
    BY <1>5 DEF PacerLooks, sessVars
  <2>2. paced_replies \in Seq(Paced)
    BY DEF TypeOK
  <2>3. Range(paced_replies') \subseteq Range(paced_replies)
    BY <2>1, <2>2, TailHoldsNothingNew
  <2>4. paced_replies' # <<>> => paced_replies # <<>>
    BY <2>1
  <2> QED
    BY <2>1, <2>3, <2>4 DEF QueueApart, Range
<1>6. CASE Admit \/ StopCancels
  <2>1. UNCHANGED paced_replies
    BY <1>6 DEF Admit, StopCancels, pacerVars
  <2>2. CASE paced_replies = <<>>
    BY <1>2, <2>1, <2>2
  <2>3. CASE paced_replies # <<>>
    BY <1>1, <1>6, <2>1, <2>3 DEF QueueApart, Admit, Admissible, StopCancels
  <2> QED
    BY <2>2, <2>3
<1>7. CASE /\ session \in {"admitted", "importing", "connect", "connecting", "finishing"}
           /\ UNCHANGED paced_replies
  BY <1>2, <1>7 DEF QueueApart
<1>8. CASE Cleanup \/ ReceiveSubmit \/ GetReport
  BY <1>2, <1>3, <1>8 DEF Cleanup, DropPaced, ReceiveSubmit, GetReport, pacerVars
<1> QED
  BY <1>1, <1>3, <1>4, <1>5, <1>6, <1>7, <1>8, SessionPhase, OtherSteps

(* The command that is handled is one of the host's.                        *)
LEMMA HandlingStep ==
  ASSUME TypeOK, Handling, [Next]_vars PROVE Handling'
<1>1. CASE UNCHANGED <<session, current>>
  BY <1>1 DEF Handling
<1>2. CASE session' \notin {"handle", "wait_feature"}
  BY <1>2 DEF Handling
<1>3. CASE ReceiveSubmit
  <2>1. /\ inbox \in Seq([op : {"submit", "unlink"}, seq : Seqs]) /\ inbox # <<>>
        /\ current' = Head(inbox).seq
    BY <1>3 DEF ReceiveSubmit, TypeOK
  <2>2. Head(inbox) \in [op : {"submit", "unlink"}, seq : Seqs]
    BY <2>1, HeadTailProperties
  <2> QED
    BY <2>1, <2>2 DEF Handling
<1>4. CASE GetReport
  BY <1>4 DEF Handling, GetReport, Handles
<1>5. CASE AudioOut \/ AudioIn \/ Cleanup
  BY <1>2, <1>5 DEF AudioOut, AudioIn, Pace, Continue, Cleanup
<1>6. CASE Admit \/ PacerLooks \/ StopCancels
  BY <1>1, <1>2, <1>6 DEF Admit, PacerLooks, StopCancels, sessVars
<1> QED
  BY <1>1, <1>2, <1>3, <1>4, <1>5, <1>6, SessionPhase, OtherSteps

(* A client that has found the port has room among the sessions: nobody     *)
(* else is admitted before it.                                              *)
LEMMA RoomStep ==
  ASSUME Room, [Next]_vars PROVE Room'
<1>1. CASE UNCHANGED <<listener, session_no, world>>
  BY <1>1 DEF Room
<1>2. CASE listener' # "found"
  BY <1>2 DEF Room
<1>3. CASE ClientAsks
  BY <1>3 DEF ClientAsks, Room, sessVars
<1>4. CASE Host \/ Serving \/ Daemon
  BY <1>1, <1>4 DEF Host, Submit, Unlink, HostCloses, Serving, DaemonOpens, DaemonAnswers,
     Daemon, DaemonFails, DaemonReports, DaemonRecords, DaemonCloses, sessVars, timeVars
<1>5. CASE Listener \/ Admit \/ AdmitFails \/ ServerStarts
  BY <1>2, <1>5 DEF Listener, ListenerReady, Refuse, Admit, AdmitFails, ServerStarts
<1>6. CASE Reader \/ Pacer \/ Tick
  BY <1>1, <1>6 DEF Reader, ReaderReads, ReaderFails, Pacer, PacerLooks, PacerWaits,
     PacerSends, Tick, sessVars, timeVars
<1>7. CASE Session
  <2>1. UNCHANGED <<session_no, listener, world>>
    BY <1>7 DEF Session, Begin, Import, ConnectNamedPipe, PipeConnected, ReceiveUnlink,
       ReceiveSubmit, ReceiveFails, HandleControl, WriteFails, SetInterface, HidOut,
       GetReport, FeatureReply, FeatureTimeout, HidIn, HidInTimeout, AudioOut, AudioIn,
       Cleanup, Finish, timeVars
  <2> QED
    BY <1>1, <2>1
<1>8. CASE Start \/ RegisterPort \/ OwnerAttached \/ AttachedClientPort
             \/ DetachClient \/ StopRequested \/ Stopping
  BY <1>1, <1>8 DEF Start, RegisterPort, OwnerAttached, AttachedClientPort,
     DetachClient, StopRequested, Stopping, StopNotifies, StopShutsDown, StopCancels,
     StopAwaitsSession, StopJoinsReader, StopJoinsPacer, sessVars, timeVars
<1>9. CASE UNCHANGED vars
  BY <1>1, <1>9 DEF vars, sessVars, timeVars
<1> QED
  BY <1>3, <1>4, <1>5, <1>6, <1>7, <1>8, <1>9 DEF Next, Owner

(* The owner's own steps, and everybody else's.                             *)
LEMMA OwnerSteps ==
  ASSUME [Next]_vars
  PROVE  \/ Owner \/ AttachedClientPort \/ StopRequested
         \/ UNCHANGED <<owner, stop_requested>>
<1> USE DEF ownerVars
<1>1. CASE Host \/ Serving \/ Daemon
  BY <1>1 DEF Host, Submit, Unlink, HostCloses, Serving, DaemonOpens, DaemonAnswers,
     Daemon, DaemonFails, DaemonReports, DaemonRecords, DaemonCloses
<1>2. CASE Listener \/ ClientAsks \/ AdmitFails \/ Admit \/ Reader \/ Pacer \/ Tick
  BY <1>2 DEF Listener, ListenerReady, Refuse, ClientAsks,
     AdmitFails, Admit, Reader, ReaderReads,
     ReaderFails, Pacer, PacerLooks, PacerWaits, PacerSends, Tick
<1>3. CASE Session
  BY <1>3 DEF Session, Begin, Import, ConnectNamedPipe, PipeConnected, ReceiveUnlink,
     ReceiveSubmit, ReceiveFails, HandleControl, WriteFails, SetInterface, HidOut,
     GetReport, FeatureReply, FeatureTimeout, HidIn, HidInTimeout, AudioOut, AudioIn,
     Cleanup, Finish
<1>4. CASE UNCHANGED vars
  BY <1>4 DEF vars
<1> QED
  BY <1>1, <1>2, <1>3, <1>4 DEF Next

(* stop() raises its flag before anything else, and nobody lowers it.       *)
LEMMA SaidStep ==
  ASSUME Said, [Next]_vars PROVE Said'
<1> USE DEF Said, Stops
<1>1. CASE UNCHANGED <<owner, stop_requested>>
  BY <1>1
<1>2. CASE AttachedClientPort \/ StopRequested
  BY <1>2 DEF AttachedClientPort, StopRequested
<1>3. CASE Start \/ ServerStarts \/ RegisterPort \/ OwnerAttached \/ DetachClient
  BY <1>3 DEF Start, ServerStarts, RegisterPort, OwnerAttached, DetachClient, ownerVars
<1>4. CASE Stopping
  BY <1>4 DEF Stopping, StopNotifies, StopShutsDown, StopCancels, StopAwaitsSession,
     StopJoinsReader, StopJoinsPacer
<1> QED
  BY <1>1, <1>2, <1>3, <1>4, OwnerSteps DEF Owner

(* No session begins once stop() has seen them end: begin_import_session    *)
(* looks at stop_requested again.                                           *)
LEMMA EndedStep ==
  ASSUME PortEnded, Said, [Next]_vars PROVE PortEnded'
<1> USE DEF PortEnded, sessVars
<1>1. CASE UNCHANGED <<owner, session>>
  BY <1>1
<1>2. CASE owner' \notin {"join_reader", "join_pacer", "stopped"}
  BY <1>2
<1>3. CASE AttachedClientPort \/ StopRequested
  BY <1>2, <1>3 DEF AttachedClientPort, StopRequested
<1>4. CASE Start \/ ServerStarts \/ RegisterPort \/ OwnerAttached \/ DetachClient
  BY <1>2, <1>4 DEF Start, ServerStarts, RegisterPort, OwnerAttached, DetachClient, ownerVars
<1>5. CASE Stopping
  BY <1>2, <1>5 DEF Stopping, StopNotifies, StopShutsDown, StopCancels, StopAwaitsSession,
     StopJoinsReader, StopJoinsPacer
<1>6. ASSUME UNCHANGED <<owner, stop_requested>>, owner \in {"join_reader", "join_pacer", "stopped"}
      PROVE  session' = session
  <2>1. session = "none" /\ stop_requested
    BY <1>6 DEF Said, Stops
  <2>2. ~Admit
    BY <2>1 DEF Admit, Admissible
  <2>3. CASE Session
    <3>1. session # "none"
      BY <2>3 DEF Session, Begin, Import, ConnectNamedPipe, PipeConnected, ReceiveUnlink,
         ReceiveSubmit, ReceiveFails, HandleControl, WriteFails, SetInterface, HidOut,
         GetReport, FeatureReply, FeatureTimeout, HidIn, HidInTimeout, AudioOut, AudioIn,
         Cleanup, Finish, Handles
    <3> QED
      BY <2>1, <3>1
  <2>4. CASE PacerLooks \/ StopCancels
    BY <1>6, <2>4 DEF PacerLooks, StopCancels
  <2> QED
    BY <2>2, <2>3, <2>4, OtherSteps
<1> QED
  BY <1>1, <1>2, <1>3, <1>4, <1>5, <1>6, OwnerSteps DEF Owner

-----------------------------------------------------------------------------
(* Isochronous replies: the host's commands and their order.                *)

SameUse == \A s \in Seqs : Used(s)' <=> Used(s)

LEMMA CompletedUse ==
  ASSUME TypeOK, NEW s \in Seqs \cup {Nothing}, s # Nothing => Used(s),
         NEW a, Completed(s, a)
  PROVE  SameUse
<1>1. /\ host \in [Seqs -> HostStates]
      /\ host' = [host EXCEPT ![s] = IF @ = "unlinked" THEN "late" ELSE "done"]
  BY DEF TypeOK, HostStates, Completed
<1>2. ASSUME NEW u \in Seqs PROVE host'[u] # "idle" <=> host[u] # "idle"
  <2>1. CASE u = s
    <3>1. host[u] # "idle"
      BY <2>1 DEF Used, Seqs, Nothing
    <3> QED
      BY <1>1, <2>1, <3>1
  <2>2. CASE u # s
    BY <1>1, <2>2
  <2> QED
    BY <2>1, <2>2
<1> QED
  BY <1>2 DEF SameUse, Used

LEMMA LinkUse ==
  ASSUME TypeOK, NEW how, LinkEnds(how) \/ PeerCloses
  PROVE  SameUse /\ inbox' \in {inbox, <<>>}
BY DEF TypeOK, LinkEnds, PeerCloses, Lost, SameUse, Used

LEMMA ReplyUse ==
  ASSUME TypeOK, Numbered, NEW a, Reply(current, a) PROVE SameUse
<1>1. current \in Seqs \cup {Nothing} /\ (current # Nothing => Used(current))
  BY DEF TypeOK, Numbered
<1>2. CASE Completed(current, a)
  BY <1>1, <1>2, CompletedUse
<1>3. CASE UNCHANGED host
  BY <1>3 DEF SameUse, Used
<1> QED
  BY <1>2, <1>3 DEF Reply

(* Only the host's submission takes a number that was not used before, and  *)
(* numbers keep their use and their kind of transfer from then on.          *)
LEMMA UseStep ==
  ASSUME TypeOK, Numbered, PacedBefore, [Next]_vars
  PROVE  \/ \E s \in Seqs, k \in world.kinds : Submit(s, k)
         \/ SameUse /\ UNCHANGED kind
<1> USE DEF hostVars
<1>0. ASSUME UNCHANGED host PROVE SameUse
  BY <1>0 DEF SameUse, Used
<1>1. ASSUME NEW s \in Seqs, Unlink(s) PROVE SameUse /\ UNCHANGED kind
  BY <1>1 DEF Unlink, SameUse, Used, TypeOK
<1>2. CASE HostCloses \/ Finish
  BY <1>2, LinkUse DEF HostCloses, Finish
<1>3. CASE DetachClient \/ StopShutsDown
  <2>1. LinkEnds("closed") \/ LinkEnds("shut") \/ PeerCloses \/ UNCHANGED host
    BY <1>3 DEF DetachClient, StopShutsDown, ShutSocket
  <2> QED
    BY <1>0, <1>3, <2>1, LinkUse DEF DetachClient, StopShutsDown
<1>4. CASE Serving \/ Daemon \/ Listener \/ ClientAsks
              \/ AdmitFails \/ Admit \/ Reader \/ Tick
  BY <1>0, <1>4 DEF Serving, DaemonOpens, DaemonAnswers, Daemon, DaemonFails, DaemonReports,
     DaemonRecords, DaemonCloses, Listener, ListenerReady, Refuse, ClientAsks,
     AdmitFails, Admit,
     Reader, ReaderReads, ReaderFails, Tick
<1>5. CASE Begin \/ Import \/ ConnectNamedPipe \/ PipeConnected \/ ReceiveSubmit
             \/ ReceiveFails \/ WriteFails \/ GetReport \/ AudioOut \/ AudioIn \/ Cleanup
  BY <1>0, <1>5 DEF Begin, Import, ConnectNamedPipe, PipeConnected, ReceiveSubmit,
     ReceiveFails, WriteFails, GetReport, AudioOut, AudioIn, Cleanup
<1>6. CASE ReceiveUnlink
  <2>1. Unlinked(Head(inbox).seq) /\ UNCHANGED kind
    BY <1>6 DEF ReceiveUnlink
  <2> QED
    BY <2>1 DEF Unlinked, SameUse, Used, TypeOK
<1>7. CASE HandleControl \/ SetInterface \/ HidOut \/ FeatureReply \/ FeatureTimeout
             \/ HidIn \/ HidInTimeout
  BY <1>7, ReplyUse DEF HandleControl, SetInterface, HidOut, FeatureReply,
     FeatureTimeout, HidIn, HidInTimeout
<1>8. CASE PacerLooks \/ PacerWaits
  BY <1>0, <1>8 DEF PacerLooks, PacerWaits
<1>9. CASE PacerSends
  <2>1. in_hand.seq \in Seqs \cup {Nothing}
    BY DEF TypeOK, Paced, NoReply
  <2>2. in_hand.seq # Nothing => Used(in_hand.seq)
    BY DEF PacedBefore, Pending, NoReply
  <2> QED
    BY <1>0, <1>9, <2>1, <2>2, CompletedUse DEF PacerSends
<1>10. CASE Start \/ ServerStarts \/ RegisterPort \/ OwnerAttached \/ AttachedClientPort
              \/ StopRequested \/ StopNotifies \/ StopCancels \/ StopAwaitsSession
              \/ StopJoinsReader \/ StopJoinsPacer
  BY <1>0, <1>10 DEF Start, ServerStarts, RegisterPort, OwnerAttached, AttachedClientPort,
     StopRequested, StopNotifies, StopCancels, StopAwaitsSession, StopJoinsReader,
     StopJoinsPacer
<1>11. CASE UNCHANGED vars
  BY <1>0, <1>11 DEF vars
<1> QED
  BY <1>1, <1>2, <1>3, <1>4, <1>5, <1>6, <1>7, <1>8, <1>9, <1>10, <1>11
     DEF Next, Host, Session, Pacer, Owner, Stopping

(* What is in the connection and in hand changes with a few steps only.     *)
LEMMA InboxStep ==
  ASSUME TypeOK, [Next]_vars
  PROVE  \/ \E s \in Seqs, k \in world.kinds : Submit(s, k)
         \/ \E s \in Seqs : Unlink(s)
         \/ ReceiveUnlink \/ ReceiveSubmit
         \/ inbox' \in {inbox, <<>>} /\ current' \in {current, Nothing}
<1> USE DEF linkVars, sessVars
<1>1. CASE HostCloses \/ Finish
  BY <1>1, LinkUse DEF HostCloses, Finish
<1>2. CASE DetachClient \/ StopShutsDown
  <2>1. LinkEnds("closed") \/ LinkEnds("shut") \/ PeerCloses \/ UNCHANGED inbox
    BY <1>2 DEF DetachClient, StopShutsDown, ShutSocket
  <2> QED
    BY <1>2, <2>1, LinkUse DEF DetachClient, StopShutsDown
<1>3. CASE Serving \/ Daemon \/ Listener \/ ClientAsks
              \/ AdmitFails \/ Admit \/ Reader \/ Tick
  BY <1>3 DEF Serving, DaemonOpens, DaemonAnswers, Daemon, DaemonFails, DaemonReports,
     DaemonRecords, DaemonCloses, Listener, ListenerReady, Refuse, ClientAsks,
     AdmitFails, Admit,
     Reader, ReaderReads, ReaderFails, Tick
<1>4. CASE Begin \/ Import \/ ConnectNamedPipe \/ PipeConnected \/ ReceiveFails
             \/ WriteFails \/ GetReport \/ AudioOut \/ AudioIn \/ Cleanup
  BY <1>4 DEF Begin, Import, ConnectNamedPipe, PipeConnected,
     ReceiveFails, WriteFails, GetReport, AudioOut, AudioIn, Cleanup
<1>5. CASE HandleControl \/ SetInterface \/ HidOut \/ FeatureReply \/ FeatureTimeout
             \/ HidIn \/ HidInTimeout
  BY <1>5 DEF HandleControl, SetInterface, HidOut, FeatureReply,
     FeatureTimeout, HidIn, HidInTimeout
<1>6. CASE Pacer
  BY <1>6 DEF Pacer, PacerLooks, PacerWaits, PacerSends
<1>7. CASE Start \/ ServerStarts \/ RegisterPort \/ OwnerAttached \/ AttachedClientPort
             \/ StopRequested \/ StopNotifies \/ StopCancels \/ StopAwaitsSession
             \/ StopJoinsReader \/ StopJoinsPacer
  BY <1>7 DEF Start, ServerStarts, RegisterPort, OwnerAttached, AttachedClientPort,
     StopRequested, StopNotifies, StopCancels, StopAwaitsSession, StopJoinsReader,
     StopJoinsPacer
<1>8. CASE UNCHANGED vars
  BY <1>8 DEF vars
<1> QED
  BY <1>1, <1>2, <1>3, <1>4, <1>5, <1>6, <1>7, <1>8 DEF Next, Host, Session, Owner, Stopping

Wire == [op : {"submit", "unlink"}, seq : Seqs]

LEMMA WireSeqs ==
  ASSUME NEW q \in Seq(Wire) PROVE \A i \in 1 .. Len(q) : q[i].seq \in Seqs
<1>1. \A i \in 1 .. Len(q) : q[i] \in Wire
  BY ElementOfSeq
<1>2. \A e \in Wire : e.seq \in Seqs
  BY DEF Wire
<1> QED
  BY <1>1, <1>2

(* Numbered, of any queue of commands, command in hand and used numbers.    *)
Ascending(q, c, used) ==
  /\ \A i \in 1 .. Len(q) : q[i].op = "submit" => q[i].seq \in used /\ c < q[i].seq
  /\ \A i, j \in 1 .. Len(q) :
       q[i].op = "submit" /\ q[j].op = "submit" /\ i < j => q[i].seq < q[j].seq
InUse == {s \in Seqs : Used(s)}
Dense == \A s, t \in Seqs : t < s /\ s \in InUse => t \in InUse

LEMMA AsAscending ==
  ASSUME inbox \in Seq(Wire), current \in Seqs \cup {Nothing}
  PROVE  Numbered <=> /\ Dense /\ Ascending(inbox, current, InUse)
                      /\ current # Nothing => current \in InUse
<1>1. DOMAIN inbox = 1 .. Len(inbox)
  BY LenProperties
<1>2. \A i \in 1 .. Len(inbox) : inbox[i].seq \in Seqs
  BY WireSeqs
<1>3. \A s \in Seqs : s \in InUse <=> Used(s)
  BY DEF InUse
<1> HIDE DEF InUse
<1>4. current # Nothing => (Used(current) <=> current \in InUse)
  BY <1>3 DEF Nothing
<1> QED
  BY <1>1, <1>2, <1>3, <1>4 DEF Numbered, Submitted, Ascending, Dense

(* A command that is sent is put behind the others.                         *)
LEMMA SentLast ==
  ASSUME NEW q \in Seq(Wire), NEW e \in Wire, NEW c, NEW old, Ascending(q, c, old),
         NEW used, old \subseteq used,
         e.op = "submit" =>
           /\ e.seq \in used /\ c < e.seq
           /\ \A i \in 1 .. Len(q) : q[i].op = "submit" => q[i].seq < e.seq
  PROVE  Append(q, e) \in Seq(Wire) /\ Ascending(Append(q, e), c, used)
<1> DEFINE r == Append(q, e)
<1>1. /\ r \in Seq(Wire) /\ Len(q) \in Nat /\ Len(r) = Len(q) + 1
      /\ \A i \in 1 .. Len(q) : r[i] = q[i]
      /\ r[Len(q) + 1] = e
  BY AppendProperties, LenProperties
<1> HIDE DEF r
<1>2. \A i \in 1 .. Len(r) : i \in 1 .. Len(q) \/ i = Len(q) + 1
  BY <1>1
<1>3. ASSUME NEW i \in 1 .. Len(r), r[i].op = "submit"
      PROVE  r[i].seq \in used /\ c < r[i].seq
  <2>1. CASE i \in 1 .. Len(q)
    BY <1>1, <1>3, <2>1 DEF Ascending
  <2>2. CASE i = Len(q) + 1
    BY <1>1, <1>3, <2>2
  <2> QED
    BY <1>2, <2>1, <2>2
<1>4. ASSUME NEW i \in 1 .. Len(r), NEW j \in 1 .. Len(r), i < j,
             r[i].op = "submit", r[j].op = "submit"
      PROVE  r[i].seq < r[j].seq
  <2>1. i \in 1 .. Len(q) /\ r[i] = q[i]
    BY <1>1, <1>4
  <2>2. CASE j \in 1 .. Len(q)
    BY <1>1, <1>4, <2>1, <2>2 DEF Ascending
  <2>3. CASE j = Len(q) + 1
    BY <1>1, <1>4, <2>1, <2>3
  <2> QED
    BY <1>2, <2>2, <2>3
<1>5. Ascending(r, c, used)
  BY <1>3, <1>4 DEF Ascending
<1> QED
  BY <1>1, <1>5 DEF r

(* The command that is taken was before all that stay.                      *)
LEMMA TakenFirst ==
  ASSUME NEW q \in Seq(Wire), q # <<>>, NEW c, NEW used, Ascending(q, c, used)
  PROVE  /\ Head(q) \in Wire /\ Tail(q) \in Seq(Wire) /\ Ascending(Tail(q), c, used)
         /\ Head(q).op = "submit" =>
              /\ Head(q).seq \in used /\ c < Head(q).seq
              /\ Ascending(Tail(q), Head(q).seq, used)
<1>1. /\ Head(q) \in Wire /\ Tail(q) \in Seq(Wire) /\ Len(Tail(q)) = Len(q) - 1
      /\ \A i \in 1 .. Len(Tail(q)) : Tail(q)[i] = q[i + 1]
      /\ Len(q) \in Nat \ {0}
  BY HeadTailProperties, EmptySeq
<1>2. Head(q) = q[1] /\ 1 \in 1 .. Len(q)
  BY <1>1
<1>3. \A i \in 1 .. Len(Tail(q)) : i + 1 \in 1 .. Len(q) /\ 1 < i + 1
  BY <1>1
<1>4. \A i, j \in 1 .. Len(Tail(q)) : i < j => i + 1 < j + 1
  BY <1>1
<1> QED
  BY <1>1, <1>2, <1>3, <1>4 DEF Ascending

(* The order of the commands is kept, whoever takes part.                   *)
LEMMA NumberedStep ==
  ASSUME TypeOK, Numbered, PacedBefore, [Next]_vars PROVE Numbered'
<1>0. /\ inbox \in Seq(Wire) /\ current \in Seqs \cup {Nothing}
      /\ Dense /\ Ascending(inbox, current, InUse)
      /\ (current # Nothing => current \in InUse)
  BY AsAscending DEF TypeOK, Wire
<1>1. ASSUME Dense', inbox' \in Seq(Wire), current' \in Seqs \cup {Nothing},
             Ascending(inbox', current', InUse'), current' # Nothing => current' \in InUse'
      PROVE  Numbered'
  <2>1. DOMAIN inbox' = 1 .. Len(inbox')
    BY <1>1, LenProperties
  <2>2. \A i \in 1 .. Len(inbox') : inbox'[i].seq \in Seqs
    BY <1>1, WireSeqs
  <2>3. \A s \in Seqs : s \in InUse' <=> Used(s)'
    BY DEF InUse
  <2> HIDE DEF InUse
  <2>4. current' # Nothing => host'[current'] # "idle"
    BY <1>1, <2>3 DEF Used, Nothing
  <2> QED
    BY <1>1, <2>1, <2>2, <2>3, <2>4 DEF Numbered, Submitted, Ascending, Dense, Used
<1>2. ASSUME SameUse PROVE InUse' = InUse /\ Dense'
  <2>1. InUse' = InUse
    BY <1>2 DEF SameUse, InUse
  <2> QED
    BY <1>0, <2>1 DEF Dense
<1>3. ASSUME NEW s \in Seqs, NEW k \in world.kinds, Submit(s, k) PROVE Numbered'
  <2> DEFINE e == [op |-> "submit", seq |-> s]
  <2>1. /\ inbox' = Append(inbox, e) /\ current' = current /\ s \notin InUse
        /\ \A t \in Seqs : t < s => t \in InUse
        /\ host' = [host EXCEPT ![s] = "sent"] /\ host \in [Seqs -> HostStates]
    BY <1>3 DEF Submit, sessVars, TypeOK, HostStates, InUse, Used
  <2>2. InUse' = InUse \cup {s}
    BY <2>1 DEF InUse, Used
  <2>3. \A t \in InUse : t < s
    <3>1. InUse \subseteq Seqs /\ s \in Int /\ \A t \in Seqs : t \in Int
      BY DEF InUse, Seqs
    <3> QED
      BY <1>0, <2>1, <3>1 DEF Dense
  <2>4. current < s
    BY <1>0, <2>3 DEF Seqs, Nothing
  <2>5. e \in Wire /\ e.op = "submit" /\ e.seq = s
    BY DEF Wire
  <2> HIDE DEF e
  <2>6. inbox' \in Seq(Wire) /\ Ascending(inbox', current', InUse')
    <3>1. \A i \in 1 .. Len(inbox) : inbox[i].op = "submit" => inbox[i].seq < s
      BY <1>0, <2>3 DEF Ascending
    <3>2. InUse \subseteq InUse' /\ e.seq \in InUse'
      BY <2>2, <2>5
    <3> HIDE DEF InUse
    <3> QED
      BY <1>0, <2>1, <2>4, <2>5, <3>1, <3>2, SentLast
  <2>7. Dense'
    BY <1>0, <2>1, <2>2, <2>3 DEF Dense
  <2> QED
    BY <1>0, <1>1, <2>1, <2>2, <2>6, <2>7
<1>4. ASSUME SameUse, NEW s \in Seqs, Unlink(s) PROVE Numbered'
  <2>1. /\ inbox' = Append(inbox, [op |-> "unlink", seq |-> s]) /\ current' = current
        /\ InUse' = InUse /\ Dense'
    BY <1>2, <1>4 DEF Unlink, sessVars
  <2>2. [op |-> "unlink", seq |-> s] \in Wire
    BY DEF Wire
  <2>3. inbox' \in Seq(Wire) /\ Ascending(inbox', current', InUse')
    BY <1>0, <2>1, <2>2, SentLast
  <2> QED
    BY <1>0, <1>1, <2>1, <2>3
<1>5. ASSUME SameUse, ReceiveUnlink \/ ReceiveSubmit PROVE Numbered'
  <2>1. /\ inbox # <<>> /\ inbox' = Tail(inbox)
        /\ \/ current' = current
           \/ Head(inbox).op = "submit" /\ current' = Head(inbox).seq
        /\ InUse' = InUse /\ Dense'
    BY <1>2, <1>5 DEF ReceiveUnlink, ReceiveSubmit, sessVars
  <2>2. /\ Head(inbox) \in Wire /\ Tail(inbox) \in Seq(Wire)
        /\ Ascending(Tail(inbox), current, InUse)
        /\ Head(inbox).op = "submit" =>
             /\ Head(inbox).seq \in InUse
             /\ Ascending(Tail(inbox), Head(inbox).seq, InUse)
    BY <1>0, <2>1, TakenFirst
  <2>3. Head(inbox).seq \in Seqs
    BY <2>2 DEF Wire
  <2> QED
    BY <1>0, <1>1, <2>1, <2>2, <2>3
<1>6. ASSUME SameUse, inbox' \in {inbox, <<>>}, current' \in {current, Nothing}
      PROVE  Numbered'
  <2>1. inbox' \in Seq(Wire)
    BY <1>0, <1>6, EmptySeq
  <2>2. Ascending(inbox', current', InUse)
    <3>1. Ascending(inbox, Nothing, InUse)
      <4>1. \A s \in InUse : Nothing < s
        BY DEF InUse, Seqs, Nothing
      <4> QED
        BY <1>0, <4>1 DEF Ascending
    <3>2. ASSUME NEW c PROVE Ascending(<<>>, c, InUse)
      <4>1. 1 .. Len(<<>>) = {}
        OBVIOUS
      <4> QED
        BY <4>1 DEF Ascending
    <3> QED
      BY <1>0, <1>6, <3>1, <3>2
  <2> QED
    BY <1>0, <1>1, <1>2, <1>6, <2>1, <2>2
<1> QED
  BY <1>3, <1>4, <1>5, <1>6, UseStep, InboxStep

-----------------------------------------------------------------------------
(* Isochronous replies: their times.                                        *)

Coming  == {"admitted", "importing", "connect", "connecting"}
InService == {"receive", "handle", "wait_feature"}

(* What the steps do to a session, for the replies that wait.               *)
LEMMA PhaseStep ==
  ASSUME [Next]_vars
  PROVE  \/ Admit \/ ReceiveSubmit \/ AudioOut \/ AudioIn
         \/ session' \in {"cleanup", "finishing", "none"} /\ UNCHANGED session_no
         \/ session \in Coming /\ session' \in Coming \cup {"receive"} /\ UNCHANGED session_no
         \/ /\ session \in InService /\ session' \in {"receive", "wait_feature"}
            /\ UNCHANGED <<session_no, current, iso_next_due>>
         \/ UNCHANGED <<session, session_no, current, iso_next_due>>
<1> USE DEF sessVars, pacerVars, Coming, InService
<1>1. CASE Host \/ Serving \/ Daemon
  BY <1>1 DEF Host, Submit, Unlink, HostCloses, Serving, DaemonOpens, DaemonAnswers,
     Daemon, DaemonFails, DaemonReports, DaemonRecords, DaemonCloses
<1>2. CASE Listener \/ ClientAsks \/ AdmitFails \/ Reader \/ Pacer \/ Tick
  BY <1>2 DEF Listener, ListenerReady, Refuse, ClientAsks, AdmitFails, Reader, ReaderReads,
     ReaderFails, Pacer, PacerLooks, PacerWaits, PacerSends, Tick
<1>3. CASE Start \/ ServerStarts \/ RegisterPort \/ OwnerAttached \/ AttachedClientPort
             \/ DetachClient \/ StopRequested
  BY <1>3 DEF Start, ServerStarts, RegisterPort, OwnerAttached, AttachedClientPort,
     DetachClient, StopRequested
<1>4. CASE StopNotifies \/ StopShutsDown \/ StopAwaitsSession \/ StopJoinsReader
             \/ StopJoinsPacer
  BY <1>4 DEF StopNotifies, StopShutsDown, StopAwaitsSession, StopJoinsReader, StopJoinsPacer
<1>5. CASE StopCancels
  BY <1>5 DEF StopCancels
<1>6. CASE Begin \/ Import \/ ConnectNamedPipe \/ PipeConnected
  BY <1>6 DEF Begin, Import, ConnectNamedPipe, PipeConnected, Serve, Continue
<1>7. CASE ReceiveUnlink \/ ReceiveFails \/ WriteFails \/ GetReport \/ Cleanup \/ Finish
  BY <1>7 DEF ReceiveUnlink, ReceiveFails, WriteFails, GetReport, Cleanup, Finish, Continue,
     Handles
<1>8. CASE HandleControl \/ SetInterface \/ HidOut \/ FeatureReply \/ FeatureTimeout
             \/ HidIn \/ HidInTimeout
  <2>1. session' \in {"receive", "cleanup"}
    BY <1>8, ReplyPhase DEF HandleControl, SetInterface, HidOut, FeatureReply,
       FeatureTimeout, HidIn, HidInTimeout
  <2> QED
    BY <1>8, <2>1 DEF HandleControl, SetInterface, HidOut, FeatureReply,
       FeatureTimeout, HidIn, HidInTimeout, Handles
<1>9. CASE UNCHANGED vars
  BY <1>9 DEF vars
<1> QED
  BY <1>1, <1>2, <1>3, <1>4, <1>5, <1>6, <1>7, <1>8, <1>9 DEF Next, Session, Owner, Stopping

(* Only pacing adds to what waits; what the pacer takes is due.             *)
LEMMA PendingStep ==
  ASSUME TypeOK, IsoRealtime, [Next]_vars
  PROVE  \/ AudioOut \/ AudioIn
         \/ Pending' \subseteq Pending /\ in_hand'.due <= now' /\ now' \in Nat
<1> USE DEF pacerVars, timeVars
<1>0. /\ now \in Nat /\ in_hand.due \in Nat /\ in_hand.due <= now
      /\ NoReply.due = 0
  BY DEF TypeOK, IsoRealtime, NoReply, Paced
<1>1. ASSUME UNCHANGED <<in_hand, paced_replies, now>>
      PROVE  Pending' \subseteq Pending /\ in_hand'.due <= now' /\ now' \in Nat
  BY <1>0, <1>1 DEF Pending
<1>2. CASE Host \/ Serving \/ Daemon
  BY <1>1, <1>2 DEF Host, Submit, Unlink, HostCloses, Serving, DaemonOpens, DaemonAnswers,
     Daemon, DaemonFails, DaemonReports, DaemonRecords, DaemonCloses
<1>3. CASE Listener \/ ClientAsks \/ AdmitFails \/ Admit \/ Reader \/ PacerWaits
  BY <1>1, <1>3 DEF Listener, ListenerReady, Refuse, ClientAsks,
     AdmitFails, Admit, Reader, ReaderReads,
     ReaderFails, PacerWaits
<1>4. CASE Start \/ ServerStarts \/ RegisterPort \/ OwnerAttached \/ AttachedClientPort
             \/ DetachClient \/ StopRequested \/ Stopping
  BY <1>1, <1>4 DEF Start, ServerStarts, RegisterPort, OwnerAttached, AttachedClientPort,
     DetachClient, StopRequested, Stopping, StopNotifies, StopShutsDown, StopCancels,
     StopAwaitsSession, StopJoinsReader, StopJoinsPacer
<1>5. CASE Begin \/ Import \/ ConnectNamedPipe \/ PipeConnected \/ ReceiveUnlink
             \/ ReceiveSubmit \/ ReceiveFails \/ WriteFails \/ GetReport \/ Finish
  BY <1>1, <1>5 DEF Begin, Import, ConnectNamedPipe, PipeConnected, ReceiveUnlink,
     ReceiveSubmit, ReceiveFails, WriteFails, GetReport, Finish
<1>6. CASE HandleControl \/ SetInterface \/ HidOut \/ FeatureReply \/ FeatureTimeout
             \/ HidIn \/ HidInTimeout
  BY <1>1, <1>6 DEF HandleControl, SetInterface, HidOut, FeatureReply, FeatureTimeout,
     HidIn, HidInTimeout
<1>7. CASE Cleanup
  <2>1. paced_replies' = <<>> /\ UNCHANGED <<in_hand, now>>
    BY <1>7 DEF Cleanup, DropPaced
  <2>2. Range(<<>>) = {}
    BY DEF Range
  <2> QED
    BY <1>0, <2>1, <2>2 DEF Pending
<1>8. CASE PacerSends
  BY <1>0, <1>8 DEF PacerSends, Pending
<1>9. CASE PacerLooks
  <2>1. CASE UNCHANGED <<in_hand, paced_replies>>
    BY <1>1, <1>9, <2>1 DEF PacerLooks
  <2>2. CASE ~UNCHANGED <<in_hand, paced_replies>>
    <3>1. /\ paced_replies # <<>> /\ Head(paced_replies).due <= now /\ UNCHANGED now
          /\ in_hand' = Head(paced_replies) /\ paced_replies' = Tail(paced_replies)
      BY <1>9, <2>2 DEF PacerLooks
    <3>2. paced_replies \in Seq(Paced)
      BY DEF TypeOK
    <3>3. Range(Tail(paced_replies)) \subseteq Range(paced_replies)
      BY <3>1, <3>2, TailHoldsNothingNew
    <3>4. Head(paced_replies) \in Range(paced_replies)
      <4>1. Len(paced_replies) \in Nat \ {0} /\ Head(paced_replies) = paced_replies[1]
        BY <3>1, <3>2, EmptySeq
      <4> QED
        BY <3>2, <4>1, Holdings
    <3> QED
      BY <1>0, <3>1, <3>3, <3>4 DEF Pending
  <2> QED
    BY <2>1, <2>2
<1>10. CASE Tick
  BY <1>0, <1>10 DEF Tick, Pending
<1>11. CASE UNCHANGED vars
  BY <1>1, <1>11 DEF vars
<1> QED
  BY <1>2, <1>3, <1>4, <1>5, <1>6, <1>7, <1>8, <1>9, <1>10, <1>11
     DEF Next, Session, Pacer, Owner

(* What waits is a paced reply.                                             *)
LEMMA PendingType == TypeOK => Pending \subseteq Paced
<1> SUFFICES ASSUME TypeOK PROVE Pending \subseteq Paced
  OBVIOUS
<1>1. paced_replies \in Seq(Paced) /\ in_hand \in Paced \cup {NoReply}
  BY DEF TypeOK
<1>2. Range(paced_replies) \subseteq Paced
  <2>1. \A i \in 1 .. Len(paced_replies) : paced_replies[i] \in Paced
    BY <1>1, ElementOfSeq
  <2> QED
    BY <1>1, <2>1, Holdings
<1> QED
  BY <1>1, <1>2 DEF Pending

(* The command that is taken up is newer than the one before it.            *)
LEMMA TakenIsNewer ==
  ASSUME TypeOK, Numbered, ReceiveSubmit PROVE current < current' /\ current' \in Seqs
<1>1. inbox \in Seq(Wire) /\ current \in Seqs \cup {Nothing} /\ inbox # <<>>
      /\ Head(inbox).op = "submit" /\ current' = Head(inbox).seq
  BY DEF TypeOK, Wire, ReceiveSubmit
<1>2. Ascending(inbox, current, InUse)
  BY <1>1, AsAscending
<1>3. Head(inbox) \in Wire /\ current < Head(inbox).seq
  BY <1>1, <1>2, TakenFirst
<1> QED
  BY <1>1, <1>3 DEF Wire

(* A number that is used stays used, and what it names stays what it was.   *)
LEMMA KindKept ==
  ASSUME TypeOK, Numbered, PacedBefore, [Next]_vars, NEW s \in Seqs, Used(s)
  PROVE  Used(s)' /\ kind'[s] = kind[s]
<1>1. ASSUME NEW t \in Seqs, NEW k \in world.kinds, Submit(t, k)
      PROVE  Used(s)' /\ kind'[s] = kind[s]
  <2>1. /\ host' = [host EXCEPT ![t] = "sent"] /\ kind' = [kind EXCEPT ![t] = k]
        /\ host[t] = "idle" /\ host[s] # "idle"
        /\ host \in [Seqs -> HostStates] /\ kind \in [Seqs -> AllKinds]
    BY <1>1 DEF Submit, Used, TypeOK, HostStates
  <2>2. s # t
    BY <2>1
  <2> QED
    BY <2>1, <2>2 DEF Used
<1>2. CASE SameUse /\ UNCHANGED kind
  BY <1>2 DEF SameUse
<1> QED
  BY <1>1, <1>2, UseStep

(* PacedBefore, of one reply, as far as it is about sessions.               *)
Before(r) ==
  /\ r.no <= session_no
  /\ r.no = session_no /\ session \in {"receive", "handle", "wait_feature"} =>
       /\ r.seq <= current /\ (session = "handle" => r.seq < current)
       /\ r.due + Packets <= iso_next_due[kind[r.seq]]
  /\ session \in {"admitted", "importing", "connect", "connecting"} => r.no < session_no

(* A stream that is paced: the reply comes when the audio of those before   *)
(* it has had its time, and its own has when the next one is due.           *)
LEMMA PacedNext ==
  ASSUME TypeOK, Handling, Numbered, PacedBefore, [Next]_vars,
         NEW k \in Iso, Handles({k}), Pace(k),
         UNCHANGED <<session_no, current, hostVars>>
  PROVE  \E new \in Paced :
           /\ Pending' \subseteq Pending \cup {new} /\ in_hand' = in_hand
           /\ new.seq = current /\ new.no = session_no /\ kind'[new.seq] = k
           /\ Used(new.seq)'
           /\ Before(new)' /\ \A r \in Pending : Before(r)'
           /\ \A r \in Pending :
                r.no = new.no =>
                  r.seq < new.seq /\ (kind'[r.seq] = k => r.due + Packets <= new.due)
<1>1. current \in Seqs /\ session = "handle" /\ kind[current] = k
      /\ UNCHANGED <<host, kind, current, session_no>> /\ session_no \in Nat
      /\ iso_next_due \in [Iso -> Nat \cup {-1}] /\ Packets \in Nat
  BY SessionsBound, UsbIpAssumption DEF TypeOK, Handling, Handles, hostVars
<1>2. PICK due \in Nat :
        /\ [seq |-> current, no |-> session_no, due |-> due] \in Paced
        /\ iso_next_due[k] <= due
        /\ iso_next_due' = [iso_next_due EXCEPT ![k] = due + Packets]
        /\ Range(paced_replies') \subseteq
             Range(paced_replies) \cup {[seq |-> current, no |-> session_no, due |-> due]}
  BY <1>1, PaceAdds
<1>3. PICK new \in Paced :
        /\ new = [seq |-> current, no |-> session_no, due |-> due]
        /\ new.seq = current /\ new.no = session_no /\ new.due = due
  BY <1>2
<1>4. in_hand' = in_hand /\ session' \in {"receive", "cleanup"}
  BY DEF Pace, Continue
<1>5. Pending' \subseteq Pending \cup {new}
  BY <1>2, <1>3, <1>4 DEF Pending
<1>6. Used(new.seq)' /\ kind'[new.seq] = k
  <2>1. Used(current)
    BY <1>1 DEF Numbered, Seqs, Nothing
  <2> QED
    BY <1>1, <1>3, <2>1 DEF Used, hostVars
<1>7. Before(new)'
  <2>1. new.due + Packets <= iso_next_due'[kind'[new.seq]]
    <3>1. iso_next_due'[k] = due + Packets
      BY <1>1, <1>2
    <3> QED
      BY <1>1, <1>3, <1>6, <3>1
  <2>2. new.no = session_no' /\ new.seq = current' /\ new.seq \in Int /\ new.no \in Nat
    BY <1>1, <1>3 DEF Seqs
  <2>3. session' # "handle" /\ session' \notin Coming
    BY <1>4 DEF Coming
  <2> QED
    BY <2>1, <2>2, <2>3 DEF Before, Coming
<1>8. ASSUME NEW r \in Pending
      PROVE  /\ Before(r)'
             /\ r.no = new.no =>
                  r.seq < new.seq /\ (kind'[r.seq] = k => r.due + Packets <= new.due)
  <2>1. r.seq \in Seqs /\ r.no \in Nat /\ r.due \in Nat /\ kind[r.seq] \in Iso
    BY PendingType DEF Paced, PacedBefore
  <2>2. /\ r.no <= session_no
        /\ r.no = session_no =>
             r.seq < current /\ r.due + Packets <= iso_next_due[kind[r.seq]]
    BY <1>1 DEF PacedBefore
  <2>3. CASE kind[r.seq] = k
    BY <1>1, <1>2, <1>3, <1>4, <2>1, <2>2, <2>3 DEF Before, Seqs
  <2>4. CASE kind[r.seq] # k
    BY <1>1, <1>2, <1>3, <1>4, <2>1, <2>2, <2>4 DEF Before, Seqs
  <2> QED
    BY <2>3, <2>4
<1> QED
  BY <1>3, <1>4, <1>5, <1>6, <1>7, <1>8

LEMMA AudioNext ==
  ASSUME TypeOK, Handling, Numbered, PacedBefore, [Next]_vars, AudioOut \/ AudioIn
  PROVE  \E new \in Paced :
           /\ Pending' \subseteq Pending \cup {new} /\ in_hand' = in_hand /\ now' = now
           /\ new.no = session_no /\ kind'[new.seq] \in Iso /\ Used(new.seq)'
           /\ Before(new)' /\ \A r \in Pending : Before(r)'
           /\ \A r \in Pending :
                r.no = new.no =>
                  /\ r.seq < new.seq
                  /\ kind'[r.seq] = kind'[new.seq] => r.due + Packets <= new.due
<1>1. /\ now' = now /\ UNCHANGED <<session_no, current, hostVars>>
      /\ \E k \in Iso : Handles({k}) /\ Pace(k)
  BY DEF AudioOut, AudioIn, timeVars, Iso
<1>2. PICK k \in Iso : Handles({k}) /\ Pace(k)
  BY <1>1
<1>3. PICK new \in Paced :
        /\ Pending' \subseteq Pending \cup {new} /\ in_hand' = in_hand
        /\ new.seq = current /\ new.no = session_no /\ kind'[new.seq] = k
        /\ Used(new.seq)'
        /\ Before(new)' /\ \A r \in Pending : Before(r)'
        /\ \A r \in Pending :
             r.no = new.no =>
               r.seq < new.seq /\ (kind'[r.seq] = k => r.due + Packets <= new.due)
  BY <1>1, <1>2, PacedNext
<1> QED
  BY <1>1, <1>3

(* In every other step, what still waits is behind the session's place.     *)
LEMMA StillBefore ==
  ASSUME TypeOK, Numbered, PacedBefore, [Next]_vars, ~AudioOut, ~AudioIn, NEW r \in Pending
  PROVE  Before(r)'
<1>1. /\ r.seq \in Seqs /\ r.no \in Nat /\ r.due \in Nat /\ session_no \in Nat
      /\ current \in Seqs \cup {Nothing} /\ iso_next_due \in [Iso -> Nat \cup {-1}]
      /\ kind[r.seq] \in Iso /\ kind'[r.seq] = kind[r.seq]
      /\ Before(r)
  <2>1. r.seq \in Seqs /\ r.no \in Nat /\ r.due \in Nat
    BY PendingType DEF Paced
  <2>2. Used(r.seq) /\ kind[r.seq] \in Iso /\ Before(r)
    BY DEF PacedBefore, Before
  <2>3. kind'[r.seq] = kind[r.seq]
    BY <2>1, <2>2, KindKept
  <2>4. /\ session_no \in Nat /\ current \in Seqs \cup {Nothing}
        /\ iso_next_due \in [Iso -> Nat \cup {-1}]
    BY SessionsBound DEF TypeOK
  <2> QED
    BY <2>1, <2>2, <2>3, <2>4, SMTT(30)
<1>2. CASE Admit
  <2>1. session' = "admitted" /\ session_no' = session_no + 1
    BY <1>2 DEF Admit
  <2> QED
    BY <1>1, <2>1 DEF Before
<1>3. CASE ReceiveSubmit
  <2>1. current < current' /\ current' \in Seqs
    BY <1>3, TakenIsNewer
  <2>2. session = "receive" /\ session' = "handle" /\ UNCHANGED <<session_no, iso_next_due>>
    BY <1>3 DEF ReceiveSubmit, pacerVars
  <2>3. r.no = session_no => r.seq < current'
    <3>1. r.seq \in Int /\ current \in Int /\ current' \in Int
      BY <1>1, <2>1 DEF Seqs, Nothing
    <3> QED
      BY <1>1, <2>1, <2>2, <3>1 DEF Before
  <2>4. r.no = session_no' => r.seq < current' /\ r.seq <= current'
    BY <1>1, <2>1, <2>2, <2>3 DEF Seqs
  <2> QED
    BY <1>1, <2>2, <2>4 DEF Before
<1>4. CASE session' \in {"cleanup", "finishing", "none"} /\ UNCHANGED session_no
  BY <1>1, <1>4 DEF Before
<1>5. CASE session \in Coming /\ session' \in Coming \cup {"receive"} /\ UNCHANGED session_no
  BY <1>1, <1>5 DEF Before, Coming
<1>6. CASE /\ session \in InService /\ session' \in {"receive", "wait_feature"}
           /\ UNCHANGED <<session_no, current, iso_next_due>>
  BY <1>1, <1>6 DEF Before, InService
<1>7. CASE UNCHANGED <<session, session_no, current, iso_next_due>>
  BY <1>1, <1>7 DEF Before
<1> QED
  BY <1>2, <1>3, <1>4, <1>5, <1>6, <1>7, PhaseStep

(* What waits keeps its place before the command in hand.                   *)
LEMMA PacedStep ==
  ASSUME TypeOK, Handling, IsoRealtime, Numbered, PacedBefore, [Next]_vars
  PROVE  PacedBefore'
<1>1. SUFFICES ASSUME NEW r \in Pending'
               PROVE  Used(r.seq)' /\ kind'[r.seq] \in Iso /\ Before(r)'
  BY DEF PacedBefore, Before
<1>2. ASSUME r \in Pending PROVE Used(r.seq)' /\ kind'[r.seq] \in Iso
  BY <1>2, PendingType, KindKept DEF Paced, PacedBefore
<1>3. CASE AudioOut \/ AudioIn
  BY <1>2, <1>3, AudioNext
<1>4. CASE ~AudioOut /\ ~AudioIn
  BY <1>2, <1>4, PendingStep, StillBefore
<1> QED
  BY <1>3, <1>4

(* Replies keep their distance in time.                                     *)
LEMMA RealtimeStep ==
  ASSUME TypeOK, TypeOK', Handling, IsoRealtime, Numbered, PacedBefore, [Next]_vars
  PROVE  IsoRealtime'
<1> DEFINE Apart(r, q) ==
      r.seq < q.seq /\ r.no = q.no /\ kind'[r.seq] = kind'[q.seq] => r.due + Packets <= q.due
<1>1. ASSUME NEW r \in Pending, NEW q \in Pending PROVE Apart(r, q)
  BY <1>1, PendingType, KindKept DEF IsoRealtime, Paced, PacedBefore
<1>2. CASE AudioOut \/ AudioIn
  <2>1. PICK new \in Paced :
          /\ Pending' \subseteq Pending \cup {new} /\ in_hand' = in_hand /\ now' = now
          /\ \A r \in Pending :
               r.no = new.no =>
                 /\ r.seq < new.seq
                 /\ kind'[r.seq] = kind'[new.seq] => r.due + Packets <= new.due
    BY <1>2, AudioNext
  <2>2. ASSUME NEW r \in Pending PROVE Apart(r, new) /\ Apart(new, r)
    <3>1. r.seq \in Int /\ new.seq \in Int
      BY PendingType DEF Paced, Seqs
    <3> QED
      BY <2>1, <3>1
  <2>3. Apart(new, new)
    <3>1. new.seq \in Int
      BY DEF Paced, Seqs
    <3> QED
      BY <3>1
  <2>4. \A r, q \in Pending' : Apart(r, q)
    <3> HIDE DEF Apart
    <3> QED
      BY <1>1, <2>1, <2>2, <2>3
  <2> QED
    BY <2>1, <2>4 DEF IsoRealtime
<1>3. CASE ~AudioOut /\ ~AudioIn
  <2>1. Pending' \subseteq Pending /\ in_hand'.due <= now'
    BY <1>3, PendingStep
  <2> QED
    BY <1>1, <2>1 DEF IsoRealtime
<1> QED
  BY <1>2, <1>3

LEMMA InitIso == Init => IsoInv
<1> SUFFICES ASSUME Init PROVE IsoInv
  OBVIOUS
<1>1. Pending = {} /\ in_hand.due <= now
  <2>1. Range(<<>>) = {}
    BY DEF Range
  <2> QED
    BY <2>1 DEF Init, Pending, NoReply
<1>2. Submitted = {} /\ \A s \in Seqs : ~Used(s)
  <2>1. DOMAIN inbox = {}
    BY DEF Init
  <2> QED
    BY <2>1 DEF Init, Submitted, Used
<1> QED
  BY <1>1, <1>2 DEF IsoInv, IsoRealtime, Numbered, PacedBefore, Init

-----------------------------------------------------------------------------
(* The theorems.                                                            *)

LEMMA InitInv == Init => PortInv
<1> SUFFICES ASSUME Init PROVE PortInv
  OBVIOUS
<1>1. TypeOK
  <2>1. \A S : <<>> \in Seq(S)
    OBVIOUS
  <2>2. /\ 0 \in 0 .. world.sessions /\ 0 \in 0 .. MicMax /\ world \in Worlds
    BY UsbIpAssumption DEF Init, World
  <2>3. /\ host \in [Seqs -> HostStates] /\ kind \in [Seqs -> AllKinds]
        /\ answer \in [Seqs -> Nat] /\ iso_next_due \in [Iso -> Nat \cup {-1}]
    BY DEF Init, HostStates, AllKinds, Nothing
  <2> QED
    BY <2>1, <2>2, <2>3 DEF Init, TypeOK, Phases, HostStates
<1>2. QueueApart /\ PortEnded /\ Handling /\ Room /\ Said
  BY DEF Init, QueueApart, PortEnded, Handling, Room, Said, Stops
<1> QED
  BY <1>1, <1>2, Parts

LEMMA NextInv == PortInv /\ [Next]_vars => PortInv'
<1> SUFFICES ASSUME PortInv, [Next]_vars PROVE PortInv'
  OBVIOUS
<1>1. TypeOK /\ QueueApart /\ PortEnded /\ Handling /\ Room /\ Said
  BY Parts
<1>2. TypeOK'
  BY <1>1, TypesStep DEF Handling, Room
<1>3. QueueApart' /\ PortEnded' /\ Handling' /\ Room' /\ Said'
  BY <1>1, QueueStep, HandlingStep, RoomStep, SaidStep, EndedStep
<1> QED
  BY <1>2, <1>3 DEF PortInv, SessionsApart, QueueApart, PortEnded, Handling, Room, Said

(* PortInv holds throughout.                                                *)
THEOREM PortInvariant == Spec => []PortInv
BY InitInv, NextInv, PTL DEF Spec

(* The port's variables keep their types, in particular the microphone's    *)
(* buffer never holds more than kMicMaxBufferBytes, however the reader's    *)
(* frames, the host's requests and SET_INTERFACE take turns.                *)
THEOREM PortTypes == Spec => []TypeOK
<1>1. PortInv => TypeOK
  BY DEF PortInv
<1> QED
  BY <1>1, PortInvariant, PTL

(* cleanup_connection leaves no paced reply to the next session, and stop() *)
(* joins the port's threads with no session left or to come.                *)
THEOREM SessionsStayApart == Spec => []SessionsApart
<1>1. PortInv => SessionsApart
  BY DEF PortInv
<1> QED
  BY <1>1, PortInvariant, PTL

(* Isochronous replies keep real time: none goes out before it is due, and  *)
(* in one direction none is due before the audio of the one before it has   *)
(* had its time, over every session of the port.                            *)
THEOREM IsoPaced == Spec => []IsoRealtime
<1>1. Init => PortInv /\ IsoInv
  BY InitInv, InitIso
<1>2. PortInv /\ IsoInv /\ [Next]_vars => (PortInv /\ IsoInv)'
  <2> SUFFICES ASSUME PortInv, IsoInv, [Next]_vars PROVE PortInv' /\ IsoInv'
    OBVIOUS
  <2>1. PortInv' /\ TypeOK /\ TypeOK' /\ Handling
    BY NextInv, Parts DEF PortInv
  <2>2. IsoRealtime' /\ Numbered' /\ PacedBefore'
    BY <2>1, RealtimeStep, NumberedStep, PacedStep DEF IsoInv
  <2> QED
    BY <2>1, <2>2 DEF IsoInv
<1>3. IsoInv => IsoRealtime
  BY DEF IsoInv
<1> QED
  BY <1>1, <1>2, <1>3, PTL DEF Spec

-----------------------------------------------------------------------------
(* GET_REPORTs: the line of requests and replies that are on their way.     *)

PipeFrame == [type : {"HID_IN", "FEATURE_REPLY", "AUDIO_IN"}, of : Nat]

(* What follows takes the three queues as sequences of numbers and frames.  *)
LEMMA NumbersOf ==
  ASSUME NEW q \in Seq(Nat)
  PROVE  Len(q) \in Nat /\ \A i \in 1 .. Len(q) : q[i] \in Nat
BY LenProperties, ElementOfSeq

LEMMA RepliesOf ==
  ASSUME NEW g \in Seq(PipeFrame)
  PROVE  /\ Len(g) \in Nat /\ Replying(g) \subseteq 1 .. Len(g)
         /\ \A i \in 1 .. Len(g) : g[i].of \in Nat
<1>1. \A i \in 1 .. Len(g) : g[i] \in PipeFrame
  BY ElementOfSeq
<1>2. \A e \in PipeFrame : e.of \in Nat
  BY DEF PipeFrame
<1> QED
  BY <1>1, <1>2, LenProperties DEF Replying

(* A new request is the last in line.                                       *)
LEMMA LineAsked ==
  ASSUME NEW q \in Seq(Nat), NEW g \in Seq(PipeFrame), NEW a \in Seq(Seqs),
         Rising(q, g, a), NEW c \in Seqs, \A t \in OnTheWay(q, g, a) : t < c
  PROVE  /\ Rising(q, g, Append(a, c))
         /\ OnTheWay(q, g, Append(a, c)) \subseteq OnTheWay(q, g, a) \cup {c}
<1> DEFINE b == Append(a, c)
<1>1. /\ Len(a) \in Nat /\ \A i \in 1 .. Len(a) : b[i] = a[i]
      /\ b[Len(a) + 1] = c
      /\ \A i \in 1 .. Len(b) : i \in 1 .. Len(a) \/ i = Len(a) + 1
  BY AppendOf
<1> HIDE DEF b
<1>2. /\ \A i \in 1 .. Len(q) : q[i] < c
      /\ \A i \in Replying(g) : g[i].of < c
      /\ \A i \in 1 .. Len(a) : a[i] < c
  BY DEF OnTheWay
<1>3. Rising(q, g, b)
  <2>1. \A i, j \in 1 .. Len(b) : i < j => b[i] < b[j]
    <3> SUFFICES ASSUME NEW i \in 1 .. Len(b), NEW j \in 1 .. Len(b), i < j
                 PROVE  b[i] < b[j]
      OBVIOUS
    <3>1. i \in 1 .. Len(a)
      BY <1>1
    <3>2. CASE j \in 1 .. Len(a)
      BY <1>1, <3>1, <3>2 DEF Rising
    <3>3. CASE j = Len(a) + 1
      BY <1>1, <1>2, <3>1, <3>3
    <3> QED
      BY <1>1, <3>2, <3>3
  <2>2. \A i \in 1 .. Len(q), j \in 1 .. Len(b) : q[i] < b[j]
    BY <1>1, <1>2 DEF Rising
  <2>3. \A i \in Replying(g), j \in 1 .. Len(b) : g[i].of < b[j]
    BY <1>1, <1>2 DEF Rising
  <2> QED
    BY <2>1, <2>2, <2>3 DEF Rising
<1>4. OnTheWay(q, g, b) \subseteq OnTheWay(q, g, a) \cup {c}
  BY <1>1 DEF OnTheWay
<1> QED
  BY <1>3, <1>4 DEF b

(* The daemon leaves a request out.                                         *)
LEMMA LineShortened ==
  ASSUME NEW q, NEW g, NEW a \in Seq(Seqs), a # <<>>, Rising(q, g, a)
  PROVE  /\ Rising(q, g, Tail(a)) /\ OnTheWay(q, g, Tail(a)) \subseteq OnTheWay(q, g, a)
<1> DEFINE b == Tail(a)
<1>1. /\ Len(a) \in Nat \ {0} /\ Len(b) = Len(a) - 1
      /\ \A i \in 1 .. Len(b) : b[i] = a[i + 1] /\ i + 1 \in 2 .. Len(a)
  BY TailOf
<1> HIDE DEF b
<1>2. \A i \in 1 .. Len(b) : i + 1 \in 1 .. Len(a)
  BY <1>1
<1>3. \A i, j \in 1 .. Len(b) : i < j => i + 1 < j + 1
  BY <1>1
<1>4. Rising(q, g, b)
  BY <1>1, <1>2, <1>3 DEF Rising
<1>5. OnTheWay(q, g, b) \subseteq OnTheWay(q, g, a)
  BY <1>1, <1>2 DEF OnTheWay
<1> QED
  BY <1>4, <1>5 DEF b

(* A frame leaves the pipe.                                                 *)
LEMMA LineRead ==
  ASSUME NEW q, NEW g \in Seq(PipeFrame), NEW a, g # <<>>, Rising(q, g, a)
  PROVE  /\ Rising(q, Tail(g), a) /\ OnTheWay(q, Tail(g), a) \subseteq OnTheWay(q, g, a)
         /\ \A i \in Replying(Tail(g)) : i + 1 \in Replying(g) /\ Tail(g)[i] = g[i + 1]
<1> DEFINE h == Tail(g)
<1>1. /\ Len(g) \in Nat \ {0} /\ Len(h) = Len(g) - 1
      /\ \A i \in 1 .. Len(h) : h[i] = g[i + 1] /\ i + 1 \in 2 .. Len(g)
  BY TailOf
<1> HIDE DEF h
<1>2. \A i \in Replying(h) : i + 1 \in Replying(g) /\ h[i] = g[i + 1] /\ i \in Nat
  BY <1>1 DEF Replying
<1>3. \A i, j \in Replying(h) : i < j => i + 1 < j + 1
  BY <1>2
<1>4. Rising(q, h, a)
  BY <1>2, <1>3 DEF Rising
<1>5. OnTheWay(q, h, a) \subseteq OnTheWay(q, g, a)
  BY <1>2 DEF OnTheWay
<1> QED
  BY <1>2, <1>4, <1>5 DEF h

(* Other frames enter the pipe.                                             *)
LEMMA LineUntouched ==
  ASSUME NEW q, NEW g \in Seq(PipeFrame), NEW a, Rising(q, g, a),
         NEW e \in PipeFrame, e.type # "FEATURE_REPLY"
  PROVE  /\ Rising(q, Append(g, e), a) /\ OnTheWay(q, Append(g, e), a) = OnTheWay(q, g, a)
<1> DEFINE h == Append(g, e)
<1>1. /\ Len(g) \in Nat /\ Len(h) = Len(g) + 1 /\ \A i \in 1 .. Len(g) : h[i] = g[i]
      /\ h[Len(g) + 1] = e
      /\ \A i \in 1 .. Len(h) : i \in 1 .. Len(g) \/ i = Len(g) + 1
  BY AppendOf
<1> HIDE DEF h
<1>2. Replying(h) = Replying(g) /\ \A i \in Replying(g) : h[i] = g[i]
  BY <1>1 DEF Replying
<1>3. Rising(q, h, a)
  BY <1>2 DEF Rising
<1>4. OnTheWay(q, h, a) = OnTheWay(q, g, a)
  BY <1>2 DEF OnTheWay
<1> QED
  BY <1>3, <1>4 DEF h

(* A request moves on to the replies in the pipe ...                        *)
LEMMA LineAnswered ==
  ASSUME NEW q \in Seq(Nat), NEW g \in Seq(PipeFrame), NEW a \in Seq(Seqs), a # <<>>,
         Rising(q, g, a), NEW e \in PipeFrame, e.type = "FEATURE_REPLY", e.of = Head(a)
  PROVE  /\ Rising(q, Append(g, e), Tail(a))
         /\ OnTheWay(q, Append(g, e), Tail(a)) \subseteq OnTheWay(q, g, a)
<1> DEFINE h == Append(g, e)  b == Tail(a)
<1>1. /\ Len(g) \in Nat /\ Len(h) = Len(g) + 1 /\ \A i \in 1 .. Len(g) : h[i] = g[i]
      /\ h[Len(g) + 1] = e
      /\ \A i \in 1 .. Len(h) : i \in 1 .. Len(g) \/ i = Len(g) + 1
  BY AppendOf
<1>2. /\ Len(a) \in Nat \ {0} /\ Len(b) = Len(a) - 1 /\ Head(a) = a[1]
      /\ \A i \in 1 .. Len(b) : b[i] = a[i + 1] /\ i + 1 \in 2 .. Len(a)
  BY TailOf
<1>3. Rising(q, g, b) /\ OnTheWay(q, g, b) \subseteq OnTheWay(q, g, a)
  BY LineShortened
<1> HIDE DEF h, b
<1>4. \A i \in Replying(h) : \/ i \in Replying(g) /\ h[i] = g[i]
                             \/ i = Len(g) + 1 /\ h[i] = e
  BY <1>1 DEF Replying
<1>5. 1 \in 1 .. Len(a) /\ e.of = a[1]
  BY <1>2
<1>6. /\ \A i \in 1 .. Len(q) : q[i] < e.of
      /\ \A i \in Replying(g) : g[i].of < e.of
      /\ \A j \in 1 .. Len(b) : e.of < b[j]
  <2>1. \A j \in 1 .. Len(b) : j + 1 \in 1 .. Len(a) /\ 1 < j + 1
    BY <1>2
  <2> QED
    BY <1>2, <1>5, <2>1 DEF Rising
<1>7. \A i, j \in Replying(h) : i < j => h[i].of < h[j].of
  <2> SUFFICES ASSUME NEW i \in Replying(h), NEW j \in Replying(h), i < j
               PROVE  h[i].of < h[j].of
    OBVIOUS
  <2>1. i \in 1 .. Len(h) /\ j \in 1 .. Len(h)
    BY DEF Replying
  <2>2. i \in Replying(g) /\ h[i] = g[i]
    BY <1>1, <1>4, <2>1
  <2>3. CASE j \in Replying(g) /\ h[j] = g[j]
    BY <2>2, <2>3 DEF Rising
  <2>4. CASE h[j] = e
    BY <1>6, <2>2, <2>4
  <2> QED
    BY <1>4, <2>3, <2>4
<1>8. Rising(q, h, b)
  <2>1. \A i \in 1 .. Len(q), j \in Replying(h) : q[i] < h[j].of
    BY <1>4, <1>6 DEF Rising
  <2>2. \A i \in Replying(h), j \in 1 .. Len(b) : h[i].of < b[j]
    BY <1>3, <1>4, <1>6 DEF Rising
  <2> QED
    BY <1>3, <1>7, <2>1, <2>2 DEF Rising
<1>9. OnTheWay(q, h, b) \subseteq OnTheWay(q, g, a)
  <2>1. e.of \in OnTheWay(q, g, a)
    BY <1>5 DEF OnTheWay
  <2>2. \A i \in Replying(h) : h[i].of = e.of \/ (i \in Replying(g) /\ h[i].of = g[i].of)
    BY <1>4
  <2> QED
    BY <1>3, <2>1, <2>2 DEF OnTheWay
<1> QED
  BY <1>8, <1>9 DEF h, b

(* ... the reply to the queue ...                                           *)
LEMMA LineSorted ==
  ASSUME NEW q \in Seq(Nat), NEW g \in Seq(PipeFrame), NEW a \in Seq(Seqs), g # <<>>,
         Rising(q, g, a), Head(g).type = "FEATURE_REPLY"
  PROVE  /\ Rising(Append(q, Head(g).of), Tail(g), a)
         /\ OnTheWay(Append(q, Head(g).of), Tail(g), a) \subseteq OnTheWay(q, g, a)
<1> DEFINE r == Append(q, Head(g).of)  h == Tail(g)  n == Head(g).of
<1>1. /\ Len(g) \in Nat \ {0} /\ Head(g) = g[1] /\ Len(h) = Len(g) - 1
      /\ \A i \in 1 .. Len(h) : h[i] = g[i + 1] /\ i + 1 \in 2 .. Len(g)
  BY TailOf
<1>2. 1 \in Replying(g) /\ n = g[1].of /\ n \in Nat
  <2>1. 1 \in 1 .. Len(g)
    BY <1>1
  <2> QED
    BY <1>1, <2>1, RepliesOf DEF Replying
<1>3. /\ Len(q) \in Nat /\ Len(r) = Len(q) + 1 /\ \A i \in 1 .. Len(q) : r[i] = q[i]
      /\ r[Len(q) + 1] = n
      /\ \A i \in 1 .. Len(r) : i \in 1 .. Len(q) \/ i = Len(q) + 1
  BY <1>2, AppendOf
<1>4. /\ Rising(q, h, a) /\ OnTheWay(q, h, a) \subseteq OnTheWay(q, g, a)
      /\ \A i \in Replying(h) : i + 1 \in Replying(g) /\ h[i] = g[i + 1]
  BY LineRead
<1> HIDE DEF h, r, n
<1>5. /\ \A i \in 1 .. Len(q) : q[i] < n
      /\ \A j \in Replying(h) : n < h[j].of
      /\ \A j \in 1 .. Len(a) : n < a[j]
  <2>1. \A j \in Replying(h) : j \in Nat \ {0} /\ 1 < j + 1
    BY <1>1 DEF Replying
  <2> QED
    BY <1>2, <1>4, <2>1 DEF Rising
<1>6. \A i, j \in 1 .. Len(r) : i < j => r[i] < r[j]
  <2> SUFFICES ASSUME NEW i \in 1 .. Len(r), NEW j \in 1 .. Len(r), i < j
               PROVE  r[i] < r[j]
    OBVIOUS
  <2>1. i \in 1 .. Len(q) /\ r[i] = q[i]
    BY <1>3
  <2>2. CASE j \in 1 .. Len(q)
    BY <1>3, <2>1, <2>2 DEF Rising
  <2>3. CASE j = Len(q) + 1
    BY <1>3, <1>5, <2>1, <2>3
  <2> QED
    BY <1>3, <2>2, <2>3
<1>7. Rising(r, h, a)
  <2>1. \A i \in 1 .. Len(r), j \in Replying(h) : r[i] < h[j].of
    BY <1>3, <1>4, <1>5 DEF Rising
  <2>2. \A i \in 1 .. Len(r), j \in 1 .. Len(a) : r[i] < a[j]
    BY <1>3, <1>5 DEF Rising
  <2> QED
    BY <1>4, <1>6, <2>1, <2>2 DEF Rising
<1>8. OnTheWay(r, h, a) \subseteq OnTheWay(q, g, a)
  <2>1. n \in OnTheWay(q, g, a)
    BY <1>2 DEF OnTheWay
  <2>2. \A i \in 1 .. Len(r) : r[i] = n \/ (i \in 1 .. Len(q) /\ r[i] = q[i])
    BY <1>3
  <2> QED
    BY <1>4, <2>1, <2>2 DEF OnTheWay
<1> QED
  BY <1>7, <1>8 DEF r, h, n

(* ... and its first leaves the line for good.                              *)
LEMMA LineTaken ==
  ASSUME NEW q \in Seq(Nat), NEW g \in Seq(PipeFrame), NEW a \in Seq(Seqs), q # <<>>,
         Rising(q, g, a)
  PROVE  /\ Rising(Tail(q), g, a) /\ OnTheWay(Tail(q), g, a) \subseteq OnTheWay(q, g, a)
         /\ Head(q) \in OnTheWay(q, g, a) /\ Head(q) \notin OnTheWay(Tail(q), g, a)
<1> DEFINE r == Tail(q)
<1>1. /\ Len(q) \in Nat \ {0} /\ Len(r) = Len(q) - 1 /\ Head(q) = q[1] /\ Head(q) \in Nat
      /\ \A i \in 1 .. Len(r) : r[i] = q[i + 1] /\ i + 1 \in 2 .. Len(q)
  BY TailOf
<1> HIDE DEF r
<1>2. \A i \in 1 .. Len(r) : i + 1 \in 1 .. Len(q) /\ 1 < i + 1
  BY <1>1
<1>3. \A i, j \in 1 .. Len(r) : i < j => i + 1 < j + 1
  BY <1>1
<1>4. Rising(r, g, a)
  BY <1>1, <1>2, <1>3 DEF Rising
<1>5. OnTheWay(r, g, a) \subseteq OnTheWay(q, g, a)
  <2>1. {r[i] : i \in 1 .. Len(r)} \subseteq {q[i] : i \in 1 .. Len(q)}
    BY <1>1, <1>2
  <2> QED
    BY <2>1 DEF OnTheWay
<1>6. 1 \in 1 .. Len(q)
  BY <1>1
<1>7. Head(q) \in OnTheWay(q, g, a)
  BY <1>1, <1>6 DEF OnTheWay
<1>8. /\ \A i \in 1 .. Len(r) : Head(q) < r[i]
      /\ \A i \in Replying(g) : Head(q) < g[i].of
      /\ \A i \in 1 .. Len(a) : Head(q) < a[i]
  BY <1>1, <1>2, <1>6 DEF Rising
<1>9. Head(q) \notin OnTheWay(r, g, a)
  <2>1. /\ \A i \in 1 .. Len(r) : r[i] \in Nat
        /\ \A i \in Replying(g) : g[i].of \in Nat
        /\ \A i \in 1 .. Len(a) : a[i] \in Nat
    <3>1. \A i \in 1 .. Len(a) : a[i] \in Seqs
      BY LenProperties, ElementOfSeq
    <3>2. Seqs \subseteq Nat
      BY UsbIpAssumption DEF Seqs
    <3>3. \A i \in 1 .. Len(r) : r[i] \in Nat
      BY <1>1, <1>2, NumbersOf
    <3> QED
      BY <3>1, <3>2, <3>3, RepliesOf
  <2>2. /\ \A i \in 1 .. Len(r) : Head(q) # r[i]
        /\ \A i \in Replying(g) : Head(q) # g[i].of
        /\ \A i \in 1 .. Len(a) : Head(q) # a[i]
    BY <1>1, <1>8, <2>1
  <2> QED
    BY <2>2 DEF OnTheWay
<1> QED
  BY <1>4, <1>5, <1>7, <1>9 DEF r

(* The pipe is emptied with the requests.                                   *)
LEMMA LineCut ==
  ASSUME NEW q, NEW g, NEW a, Rising(q, g, a)
  PROVE  Rising(q, <<>>, <<>>) /\ OnTheWay(q, <<>>, <<>>) \subseteq OnTheWay(q, g, a)
<1>1. 1 .. Len(<<>>) = {} /\ Replying(<<>>) = {}
  BY DEF Replying
<1> QED
  BY <1>1 DEF Rising, OnTheWay

-----------------------------------------------------------------------------
(* GET_REPORTs: the host's record of its URBs.                              *)

Replies == \/ HandleControl \/ SetInterface \/ HidOut \/ FeatureReply \/ FeatureTimeout
           \/ HidIn \/ HidInTimeout

LEMMA LinkSteps ==
  ASSUME [Next]_vars
  PROVE  \/ \E s \in Seqs, k \in world.kinds : Submit(s, k)
         \/ \E s \in Seqs : Unlink(s)
         \/ /\ PeerCloses \/ \E how \in {"closed", "shut"} : LinkEnds(how)
            /\ UNCHANGED <<kind, answer>>
         \/ ReceiveUnlink \/ Replies \/ PacerSends
         \/ (link' = "up" \/ UNCHANGED link) /\ UNCHANGED hostVars
<1> USE DEF linkVars, hostVars
<1>1. CASE HostCloses \/ Finish
  BY <1>1 DEF HostCloses, Finish
<1>2. CASE DetachClient \/ StopShutsDown
  BY <1>2 DEF DetachClient, StopShutsDown, ShutSocket
<1>3. CASE Serving \/ Daemon \/ Listener \/ ClientAsks
              \/ AdmitFails \/ Admit \/ Reader \/ Tick
  BY <1>3 DEF Serving, DaemonOpens, DaemonAnswers, Daemon, DaemonFails, DaemonReports,
     DaemonRecords, DaemonCloses, Listener, ListenerReady, Refuse, ClientAsks,
     AdmitFails, Admit,
     Reader, ReaderReads, ReaderFails, Tick
<1>4. CASE Begin \/ Import \/ ConnectNamedPipe \/ PipeConnected \/ ReceiveSubmit
             \/ ReceiveFails \/ WriteFails \/ GetReport \/ AudioOut \/ AudioIn \/ Cleanup
  BY <1>4 DEF Begin, Import, ConnectNamedPipe, PipeConnected, ReceiveSubmit,
     ReceiveFails, WriteFails, GetReport, AudioOut, AudioIn, Cleanup
<1>5. CASE PacerLooks \/ PacerWaits
  BY <1>5 DEF PacerLooks, PacerWaits
<1>6. CASE Start \/ ServerStarts \/ RegisterPort \/ OwnerAttached \/ AttachedClientPort
             \/ StopRequested \/ StopNotifies \/ StopCancels \/ StopAwaitsSession
             \/ StopJoinsReader \/ StopJoinsPacer
  BY <1>6 DEF Start, ServerStarts, RegisterPort, OwnerAttached, AttachedClientPort,
     StopRequested, StopNotifies, StopCancels, StopAwaitsSession, StopJoinsReader,
     StopJoinsPacer
<1>7. CASE UNCHANGED vars
  BY <1>7 DEF vars
<1> QED
  BY <1>1, <1>2, <1>3, <1>4, <1>5, <1>6, <1>7 DEF Next, Host, Session, Pacer, Owner,
     Stopping, Replies

(* A reply, of whatever command: what it says, and to whom.                 *)
LEMMA RepliesAre ==
  ASSUME Replies
  PROVE  /\ UNCHANGED <<link, kind, current>> /\ session' \in {"receive", "cleanup"}
         /\ session \in {"handle", "wait_feature"}
         /\ \E a : /\ Reply(current, a)
                   /\ \/ a = Nothing \/ (FeatureReply /\ a = Head(feature_reply_queue))
                      \/ kind[current] = "hid_in"
<1>1. CASE HandleControl \/ SetInterface \/ HidOut \/ HidInTimeout
  BY <1>1, ReplyPhase DEF HandleControl, SetInterface, HidOut, HidInTimeout, Handles, linkVars
<1>2. CASE FeatureReply \/ FeatureTimeout
  BY <1>2, ReplyPhase DEF FeatureReply, FeatureTimeout, linkVars
<1>3. CASE HidIn
  BY <1>3, ReplyPhase DEF HidIn, Handles, linkVars
<1> QED
  BY <1>1, <1>2, <1>3 DEF Replies

LEMMA CompletedHost ==
  ASSUME TypeOK, NEW s, NEW a, Completed(s, a)
  PROVE  /\ \A t \in Seqs : host'[t] = host[t] \/ host'[t] \in {"late", "done"}
         /\ s \in Seqs => host'[s] \in {"late", "done"}
<1>1. /\ host \in [Seqs -> HostStates]
      /\ host' = [host EXCEPT ![s] = IF @ = "unlinked" THEN "late" ELSE "done"]
  BY DEF TypeOK, HostStates, Completed
<1> QED
  BY <1>1

(* Nothing is expected of a connection that has ended, and what has gone to *)
(* its end is never sent again.                                             *)
LEMMA LostStep ==
  ASSUME TypeOK, LinkLost, [Next]_vars
  PROVE  /\ LinkLost'
         /\ \A t \in Seqs : Used(t) /\ host'[t] = "sent" => host[t] = "sent"
<1>0. host \in [Seqs -> HostStates]
  BY DEF TypeOK, HostStates
<1>1. ASSUME NEW s \in Seqs, NEW k, Submit(s, k)
      PROVE  /\ LinkLost'
             /\ \A t \in Seqs : Used(t) /\ host'[t] = "sent" => host[t] = "sent"
  <2>1. link' = "up" /\ host[s] = "idle" /\ host' = [host EXCEPT ![s] = "sent"]
    BY <1>1 DEF Submit
  <2> QED
    BY <1>0, <2>1 DEF LinkLost, Used
<1>2. ASSUME NEW s \in Seqs, Unlink(s)
      PROVE  /\ LinkLost'
             /\ \A t \in Seqs : Used(t) /\ host'[t] = "sent" => host[t] = "sent"
  <2>1. link' = "up" /\ host' = [host EXCEPT ![s] = "unlinking"]
    BY <1>2 DEF Unlink
  <2> QED
    BY <1>0, <2>1 DEF LinkLost
<1>3. ASSUME NEW how, LinkEnds(how) \/ PeerCloses
      PROVE  /\ LinkLost'
             /\ \A t \in Seqs : Used(t) /\ host'[t] = "sent" => host[t] = "sent"
  <2>1. CASE link = "up"
    BY <1>0, <1>3, <2>1 DEF LinkEnds, PeerCloses, Lost, LinkLost
  <2>2. CASE link # "up"
    BY <1>3, <2>2 DEF LinkEnds, PeerCloses, LinkLost
  <2> QED
    BY <2>1, <2>2
<1>4. CASE ReceiveUnlink
  <2>1. link' = link /\ Unlinked(Head(inbox).seq)
    BY <1>4 DEF ReceiveUnlink
  <2>2. \A t \in Seqs : host'[t] = host[t] \/ host'[t] = "unlinked"
    BY <1>0, <2>1 DEF Unlinked
  <2> QED
    BY <2>1, <2>2 DEF LinkLost
<1>5. ASSUME NEW s, NEW a, Completed(s, a), UNCHANGED link
      PROVE  /\ LinkLost'
             /\ \A t \in Seqs : Used(t) /\ host'[t] = "sent" => host[t] = "sent"
  BY <1>5, CompletedHost DEF LinkLost
<1>6. CASE UNCHANGED host /\ (link' = "up" \/ UNCHANGED link)
  BY <1>6 DEF LinkLost
<1>7. CASE Replies
  <2>1. PICK a : Reply(current, a) /\ UNCHANGED link
    BY <1>7, RepliesAre
  <2> QED
    BY <1>5, <1>6, <2>1 DEF Reply
<1>8. CASE PacerSends
  BY <1>5, <1>6, <1>8 DEF PacerSends, linkVars
<1> QED
  BY <1>1, <1>2, <1>3, <1>4, <1>6, <1>7, <1>8, LinkSteps DEF hostVars

(* Answers: each is a reply's to the command in hand, but for the pacer's.  *)
LEMMA AnswerStep ==
  ASSUME TypeOK, PacedBefore, [Next]_vars, NEW t \in Seqs
  PROVE  \/ answer'[t] = answer[t]
         \/ kind[t] \in Iso /\ answer'[t] = Nothing
         \/ /\ t = current /\ Replies
            /\ \/ answer'[t] = Nothing \/ kind[t] = "hid_in"
               \/ FeatureReply /\ answer'[t] = Head(feature_reply_queue)
<1>0. answer \in [Seqs -> Nat]
  BY DEF TypeOK
<1>1. CASE UNCHANGED answer
  BY <1>1
<1>2. CASE Replies
  <2>1. PICK a : /\ Reply(current, a)
                 /\ \/ a = Nothing \/ (FeatureReply /\ a = Head(feature_reply_queue))
                    \/ kind[current] = "hid_in"
    BY <1>2, RepliesAre
  <2>2. CASE t = current
    <3>1. answer'[t] = answer[t] \/ answer'[t] = a
      BY <1>0, <2>1, <2>2 DEF Reply, Completed
    <3> QED
      BY <1>2, <2>1, <2>2, <3>1
  <2>3. CASE t # current
    BY <1>0, <2>1, <2>3 DEF Reply, Completed
  <2> QED
    BY <2>2, <2>3
<1>3. CASE PacerSends
  <2>1. CASE t = in_hand.seq
    <3>1. in_hand # NoReply
      BY <2>1 DEF NoReply, Nothing, Seqs
    <3>2. kind[t] \in Iso
      BY <2>1, <3>1 DEF PacedBefore, Pending
    <3> QED
      BY <1>0, <1>3, <2>1, <3>2 DEF PacerSends, Completed
  <2>2. CASE t # in_hand.seq
    BY <1>0, <1>3, <2>2 DEF PacerSends, Completed
  <2> QED
    BY <2>1, <2>2
<1> QED
  BY <1>1, <1>2, <1>3, LinkSteps DEF Submit, Unlink, ReceiveUnlink, hostVars

(* The wait for a FEATURE_REPLY ends with one, or with the time for it.     *)
LEMMA WaitStep ==
  ASSUME TypeOK, LinkLost, Handling, [Next]_vars, session = "wait_feature"
  PROVE  /\ current \in Seqs /\ current' = current
         /\ \/ session' = "wait_feature"
            \/ host'[current] # "sent"
<1>0. current \in Seqs
  BY DEF Handling
<1>1. CASE FeatureReply \/ FeatureTimeout
  <2>1. PICK a : Reply(current, a) /\ current' = current
    BY <1>1 DEF FeatureReply, FeatureTimeout
  <2>2. CASE link = "up"
    BY <1>0, <2>1, <2>2, CompletedHost DEF Reply
  <2>3. CASE link # "up"
    BY <1>0, <2>1, <2>3 DEF Reply, LinkLost
  <2> QED
    BY <1>0, <2>1, <2>2, <2>3
<1>2. CASE Session /\ ~FeatureReply /\ ~FeatureTimeout
  BY <1>2 DEF Session, Begin, Import, ConnectNamedPipe, PipeConnected, ReceiveUnlink,
     ReceiveSubmit, ReceiveFails, HandleControl, WriteFails, SetInterface, HidOut, GetReport,
     HidIn, HidInTimeout, AudioOut, AudioIn, Cleanup, Finish, Handles
<1>3. CASE ~Session
  <2>1. ~Admit
    BY DEF Admit, Admissible
  <2> QED
    BY <1>0, <1>3, <2>1, OtherSteps DEF PacerLooks, StopCancels, sessVars
<1> QED
  BY <1>1, <1>2, <1>3

(* A command is taken up, a GET_REPORT goes on to wait, or it stays as it   *)
(* was with what is being handled.                                          *)
LEMMA TakeUp ==
  ASSUME [Next]_vars, session' \in {"handle", "wait_feature"}
  PROVE  \/ ReceiveSubmit \/ GetReport
         \/ UNCHANGED <<session, current>> /\ ~Replies
<1>0. ~Replies
  BY RepliesAre
<1>1. CASE Session
  BY <1>0, <1>1, SessionPhase, ReplyPhase DEF AudioOut, AudioIn, Pace, Continue, Cleanup
<1>2. CASE ~Session
  BY <1>0, <1>2, OtherSteps DEF Admit, PacerLooks, StopCancels, sessVars
<1> QED
  BY <1>1, <1>2

-----------------------------------------------------------------------------
(* GET_REPORTs: the line, step by step.                                     *)

Line == <<feature_reply_queue, frames, asked>>

LEMMA LineSteps ==
  ASSUME [Next]_vars
  PROVE  \/ DaemonAnswers \/ DaemonFails \/ DaemonReports \/ DaemonRecords
         \/ GetReport \/ FeatureReply \/ ReaderReads
         \/ UNCHANGED feature_reply_queue /\ frames' = <<>> /\ asked' = <<>>
         \/ UNCHANGED Line
<1> USE DEF Line, pipeVars, demuxVars
<1>1. CASE Host \/ DaemonOpens \/ DaemonCloses \/ Listener \/ ClientAsks
              \/ AdmitFails \/ Admit \/ ReaderFails
             \/ Tick
  BY <1>1 DEF Host, Submit, Unlink, HostCloses, DaemonOpens, DaemonCloses, Listener,
     ListenerReady, Refuse, ClientAsks, AdmitFails, Admit, ReaderFails, Tick
<1>2. CASE Begin \/ Import \/ ConnectNamedPipe \/ PipeConnected \/ ReceiveUnlink
             \/ ReceiveSubmit \/ ReceiveFails
  BY <1>2 DEF Begin, Import, ConnectNamedPipe, PipeConnected, ReceiveUnlink, ReceiveSubmit,
     ReceiveFails
<1>3. CASE HandleControl \/ WriteFails \/ SetInterface \/ HidOut \/ FeatureTimeout
             \/ HidIn \/ HidInTimeout \/ AudioOut \/ AudioIn \/ Cleanup \/ Finish
  BY <1>3 DEF HandleControl, WriteFails, SetInterface, HidOut, FeatureTimeout,
     HidIn, HidInTimeout, AudioOut, AudioIn, Cleanup, Finish
<1>4. CASE Pacer
  BY <1>4 DEF Pacer, PacerLooks, PacerWaits, PacerSends
<1>5. CASE Start \/ ServerStarts \/ RegisterPort \/ OwnerAttached \/ AttachedClientPort
             \/ StopRequested \/ DetachClient \/ Stopping
  BY <1>5 DEF Start, ServerStarts, RegisterPort, OwnerAttached, AttachedClientPort,
     StopRequested, DetachClient, Stopping, StopNotifies, StopShutsDown, StopCancels,
     StopAwaitsSession, StopJoinsReader, StopJoinsPacer
<1>6. CASE UNCHANGED vars
  BY <1>6 DEF vars
<1> QED
  BY <1>1, <1>2, <1>3, <1>4, <1>5, <1>6 DEF Next, Serving, Daemon, Session, Reader, Owner

(* The line stays in order; only a GET_REPORT lengthens it, and the reply   *)
(* that is taken from it never comes again.                                 *)
Ordered == Rising(feature_reply_queue, frames, asked)

LEMMA LineStep ==
  ASSUME TypeOK, TypeOK', Handling, Ordered, OwnReplyAhead, Older, [Next]_vars
  PROVE  /\ Ordered'
         /\ \A t \in Expected' : t \in Expected \/ (GetReport /\ t = current)
         /\ FeatureReply => /\ Head(feature_reply_queue) \in Expected
                            /\ Head(feature_reply_queue) \notin Expected'
<1>0. /\ feature_reply_queue \in Seq(Nat) /\ frames \in Seq(PipeFrame) /\ asked \in Seq(Seqs)
      /\ hid_written' \in Nat
  BY DEF TypeOK, PipeFrame
<1> USE DEF Ordered, Expected
<1>1. CASE DaemonAnswers
  <2> DEFINE e == [type |-> "FEATURE_REPLY", of |-> Head(asked)]
  <2>1. /\ asked # <<>> /\ asked' = Tail(asked) /\ frames' = Append(frames, e)
        /\ feature_reply_queue' = feature_reply_queue
    BY <1>1 DEF DaemonAnswers, demuxVars
  <2>2. Head(asked) \in Nat
    BY <1>0, <2>1, TailOf, UsbIpAssumption DEF Seqs
  <2>3. e \in PipeFrame /\ e.type = "FEATURE_REPLY" /\ e.of = Head(asked)
    BY <2>2 DEF PipeFrame
  <2>4. ~FeatureReply
    BY <1>1, <2>1, <1>0, TailOf DEF FeatureReply, pipeVars
  <2> HIDE DEF e
  <2> QED
    BY <1>0, <2>1, <2>3, <2>4, LineAnswered
<1>2. CASE DaemonFails
  <2>1. /\ asked # <<>> /\ asked' = Tail(asked) /\ frames' = frames
        /\ feature_reply_queue' = feature_reply_queue
    BY <1>2 DEF DaemonFails, demuxVars
  <2>2. ~FeatureReply
    BY <2>1, <1>0, TailOf DEF FeatureReply, pipeVars
  <2> QED
    BY <1>0, <2>1, <2>2, LineShortened
<1>3. CASE DaemonReports \/ DaemonRecords
  <2>1. PICK e \in PipeFrame : e.type # "FEATURE_REPLY" /\ frames' = Append(frames, e)
    <3>1. CASE DaemonReports
      <4>1. [type |-> "HID_IN", of |-> hid_written'] \in PipeFrame
        BY <1>0 DEF PipeFrame
      <4> QED
        BY <3>1, <4>1 DEF DaemonReports
    <3>2. CASE DaemonRecords
      <4>1. [type |-> "AUDIO_IN", of |-> Nothing] \in PipeFrame
        BY DEF PipeFrame, Nothing
      <4> QED
        BY <3>2, <4>1 DEF DaemonRecords
    <3> QED
      BY <1>3, <3>1, <3>2
  <2>2. feature_reply_queue' = feature_reply_queue /\ asked' = asked
    BY <1>3 DEF DaemonReports, DaemonRecords, demuxVars
  <2>3. frames' # frames
    BY <1>0, <2>1, AppendOf
  <2>4. ~FeatureReply
    BY <2>3 DEF FeatureReply, pipeVars
  <2> QED
    BY <1>0, <2>1, <2>2, <2>4, LineUntouched
<1>4. CASE GetReport
  <2>1. /\ asked' = Append(asked, current) /\ frames' = frames
        /\ feature_reply_queue' = feature_reply_queue /\ session = "handle"
    BY <1>4 DEF GetReport, Handles, demuxVars
  <2>2. current \in Seqs /\ \A t \in Expected : t < current
    BY <2>1 DEF Handling, OwnReplyAhead, Older
  <2>3. ~FeatureReply
    BY <2>1 DEF FeatureReply
  <2> QED
    BY <1>0, <1>4, <2>1, <2>2, <2>3, LineAsked
<1>5. CASE FeatureReply
  <2>1. /\ feature_reply_queue # <<>> /\ feature_reply_queue' = Tail(feature_reply_queue)
        /\ frames' = frames /\ asked' = asked
    BY <1>5 DEF FeatureReply, TakeReply, pipeVars
  <2> QED
    BY <1>0, <2>1, LineTaken
<1>6. CASE ReaderReads
  <2>1. /\ frames # <<>> /\ frames' = Tail(frames) /\ asked' = asked
        /\ \/ feature_reply_queue' = feature_reply_queue
           \/ /\ Head(frames).type = "FEATURE_REPLY"
              /\ feature_reply_queue' = Append(feature_reply_queue, Head(frames).of)
    BY <1>6 DEF ReaderReads, demuxVars
  <2>2. ~FeatureReply
    BY <1>0, <2>1, TailOf DEF FeatureReply, pipeVars
  <2> QED
    BY <1>0, <2>1, <2>2, LineRead, LineSorted
<1>7. CASE UNCHANGED feature_reply_queue /\ frames' = <<>> /\ asked' = <<>>
  <2>1. ~FeatureReply
    BY <1>0, <1>7, TailOf DEF FeatureReply, TakeReply
  <2> QED
    BY <1>7, <2>1, LineCut
<1>8. CASE UNCHANGED Line
  <2>1. ~FeatureReply
    BY <1>0, <1>8, TailOf DEF FeatureReply, TakeReply, Line
  <2> QED
    BY <1>8, <2>1 DEF Line
<1> QED
  BY <1>1, <1>2, <1>3, <1>4, <1>5, <1>6, <1>7, <1>8, LineSteps

(* A URB older than whatever still waits for the session stays so.          *)
Served(t) == Used(t) /\ \A i \in Submitted : t < inbox[i].seq

LEMMA AsServed ==
  ASSUME inbox \in Seq(Wire), current \in Seqs \cup {Nothing}, Numbered, NEW t \in Seqs
  PROVE  Served(t) <=> t \in InUse /\ Ascending(inbox, t, InUse)
<1>1. DOMAIN inbox = 1 .. Len(inbox)
  BY LenProperties
<1>2. t \in InUse <=> Used(t)
  BY DEF InUse
<1>3. Ascending(inbox, current, InUse)
  BY AsAscending
<1> QED
  BY <1>1, <1>2, <1>3 DEF Served, Submitted, Ascending

LEMMA ServedStep ==
  ASSUME TypeOK, TypeOK', Numbered, Numbered', PacedBefore, [Next]_vars,
         NEW t \in Seqs, Served(t)
  PROVE  Served(t)'
<1>0. /\ inbox \in Seq(Wire) /\ current \in Seqs \cup {Nothing}
      /\ inbox' \in Seq(Wire) /\ current' \in Seqs \cup {Nothing}
      /\ t \in InUse /\ Ascending(inbox, t, InUse)
  BY AsServed DEF TypeOK, Wire
<1>1. Used(t)'
  BY KindKept DEF Served
<1>2. \A i \in Submitted' : i \in 1 .. Len(inbox') /\ inbox'[i].op = "submit"
  BY <1>0, LenProperties DEF Submitted
<1>3. ASSUME NEW used, Ascending(inbox', t, used) PROVE Served(t)'
  BY <1>1, <1>2, <1>3 DEF Served, Ascending, Used
<1>4. ASSUME NEW s \in Seqs, NEW k \in world.kinds, Submit(s, k) PROVE Served(t)'
  <2> DEFINE e == [op |-> "submit", seq |-> s]
  <2>1. inbox' = Append(inbox, e) /\ ~Used(s)
    BY <1>4 DEF Submit, Used
  <2>2. \A u \in InUse : u < s
    <3>1. ASSUME NEW u \in InUse PROVE u < s
      <4>1. u \in Seqs /\ Used(u) /\ u # s
        BY <2>1 DEF InUse
      <4>2. ~(s < u)
        BY <2>1, <4>1 DEF Numbered
      <4> QED
        BY <4>1, <4>2 DEF Seqs
    <3> QED
      BY <3>1
  <2>3. e \in Wire /\ e.op = "submit" /\ e.seq = s
    BY DEF Wire
  <2>4. \A i \in 1 .. Len(inbox) : inbox[i].op = "submit" => inbox[i].seq < s
    BY <1>0, <2>2 DEF Ascending
  <2> HIDE DEF e, InUse
  <2>5. Ascending(inbox', t, InUse \cup {s})
    BY <1>0, <2>1, <2>2, <2>3, <2>4, SentLast
  <2> QED
    BY <1>3, <2>5
<1>5. ASSUME NEW s \in Seqs, Unlink(s) PROVE Served(t)'
  <2>1. inbox' = Append(inbox, [op |-> "unlink", seq |-> s])
    BY <1>5 DEF Unlink
  <2>2. [op |-> "unlink", seq |-> s] \in Wire
    BY DEF Wire
  <2>3. Ascending(inbox', t, InUse)
    BY <1>0, <2>1, <2>2, SentLast
  <2> QED
    BY <1>3, <2>3
<1>6. CASE ReceiveUnlink \/ ReceiveSubmit
  <2>1. inbox # <<>> /\ inbox' = Tail(inbox)
    BY <1>6 DEF ReceiveUnlink, ReceiveSubmit
  <2>2. Ascending(inbox', t, InUse)
    BY <1>0, <2>1, TakenFirst
  <2> QED
    BY <1>3, <2>2
<1>7. CASE inbox' = inbox
  BY <1>0, <1>3, <1>7
<1>8. CASE inbox' = <<>>
  <2>1. Submitted' = {}
    BY <1>2, <1>8
  <2> QED
    BY <1>1, <2>1 DEF Served, Used
<1> QED
  BY <1>4, <1>5, <1>6, <1>7, <1>8, InboxStep

-----------------------------------------------------------------------------
(* GET_REPORTs: who has had whose reply.                                    *)

Known(t) == t \in Expected \/ answer[t] # Nothing

(* Whatever is on its way or has an answer had been taken up before.        *)
LEMMA KnownServed ==
  ASSUME TypeOK, TypeOK', Handling, Numbered, PacedBefore, ReplyInv, [Next]_vars,
         NEW t \in Seqs, Known(t)'
  PROVE  Served(t)
<1>1. CASE Known(t)
  BY <1>1 DEF Known, ReplyInv, Older, Served
<1>2. CASE t = current
  BY <1>2 DEF Numbered, Served, Seqs, Nothing
<1>3. t \in Expected' => t \in Expected \/ t = current
  BY LineStep DEF ReplyInv, Ordered
<1>4. answer'[t] # Nothing => answer[t] # Nothing \/ t = current
  BY AnswerStep
<1> QED
  BY <1>1, <1>2, <1>3, <1>4 DEF Known

LEMMA OwnStep ==
  ASSUME TypeOK, TypeOK', Handling, Numbered, PacedBefore, ReplyInv, [Next]_vars
  PROVE  OwnReplyAhead'
<1> SUFFICES ASSUME NEW t \in Expected'
             PROVE  /\ t \in Seqs /\ kind'[t] = "get_report" /\ Used(t)' /\ answer'[t] # t
                    /\ host'[t] # "sent" \/ (t = current' /\ session' = "wait_feature")
  BY DEF OwnReplyAhead
<1>0. LinkLost /\ Ordered /\ OwnReplyAhead /\ Older
  BY DEF ReplyInv, Ordered
<1>1. CASE t \in Expected
  <2>1. t \in Seqs /\ kind[t] = "get_report" /\ Used(t) /\ answer[t] # t
    BY <1>0, <1>1 DEF OwnReplyAhead
  <2>2. kind'[t] = "get_report" /\ Used(t)'
    BY <2>1, KindKept
  <2>3. answer'[t] # t
    <3>1. t # Nothing /\ kind[t] \notin Iso /\ kind[t] # "hid_in"
      BY <2>1 DEF Seqs, Nothing, Iso
    <3>2. FeatureReply => t # Head(feature_reply_queue)
      BY <1>0, LineStep
    <3> QED
      BY <2>1, <3>1, <3>2, AnswerStep
  <2>4. host'[t] # "sent" \/ (t = current' /\ session' = "wait_feature")
    <3>1. CASE host[t] # "sent"
      BY <1>0, <2>1, <3>1, LostStep
    <3>2. CASE t = current /\ session = "wait_feature"
      BY <1>0, <3>2, WaitStep
    <3> QED
      BY <1>0, <1>1, <3>1, <3>2 DEF OwnReplyAhead
  <2> QED
    BY <2>1, <2>2, <2>3, <2>4
<1>2. CASE GetReport /\ t = current
  <2>1. /\ session = "handle" /\ session' = "wait_feature" /\ current' = current
        /\ kind[current] = "get_report" /\ UNCHANGED hostVars
    BY <1>2 DEF GetReport, Handles
  <2>2. current \in Seqs /\ Used(current)
    BY <2>1 DEF Handling, Numbered, Seqs, Nothing
  <2>3. answer[current] = Nothing
    BY <1>0, <2>1, <2>2 DEF Older, Seqs
  <2> QED
    BY <1>2, <2>1, <2>2, <2>3 DEF hostVars, Used, Seqs, Nothing
<1> QED
  BY <1>0, <1>1, <1>2, LineStep

LEMMA OlderStep ==
  ASSUME TypeOK, TypeOK', Handling, Numbered, Numbered', PacedBefore, ReplyInv, [Next]_vars
  PROVE  Older'
<1> SUFFICES ASSUME NEW t \in Seqs, Known(t)'
             PROVE  /\ Served(t)'
                    /\ session' = "handle" => t < current'
                    /\ session' = "wait_feature" =>
                         t <= current' /\ (answer'[t] # Nothing => t < current')
  BY DEF Older, Known, Served
<1>0. Ordered /\ OwnReplyAhead /\ Older
  BY DEF ReplyInv, Ordered
<1>1. Served(t)
  BY KnownServed
<1>2. Served(t)'
  BY <1>1, ServedStep
<1>3. ASSUME session' \in {"handle", "wait_feature"}
      PROVE  /\ session' = "handle" => t < current'
             /\ session' = "wait_feature" =>
                  t <= current' /\ (answer'[t] # Nothing => t < current')
  <2>1. CASE ReceiveSubmit
    <3>1. /\ session' = "handle" /\ current' = Head(inbox).seq /\ inbox # <<>>
          /\ inbox \in Seq(Wire) /\ Head(inbox).op = "submit"
      BY <2>1 DEF ReceiveSubmit, TypeOK, Wire
    <3>2. 1 \in Submitted /\ Head(inbox) = inbox[1]
      BY <3>1, TailOf, LenProperties DEF Submitted
    <3> QED
      BY <1>1, <3>1, <3>2 DEF Served
  <2>2. CASE GetReport
    <3>1. /\ session = "handle" /\ session' = "wait_feature" /\ current' = current
          /\ answer' = answer
      BY <2>2 DEF GetReport, Handles, hostVars
    <3>2. current \in Seqs /\ (Known(t) => t < current)
      BY <1>0, <3>1 DEF Older, Handling, Known
    <3>3. t = current \/ Known(t)
      BY <1>0, <3>1, LineStep DEF Known
    <3>4. answer'[t] # Nothing => Known(t)
      BY <3>1 DEF Known
    <3> QED
      BY <3>1, <3>2, <3>3, <3>4 DEF Seqs
  <2>3. CASE UNCHANGED <<session, current>> /\ ~Replies /\ ~GetReport
    <3>1. t \in Expected' => t \in Expected
      BY <1>0, <2>3, LineStep
    <3>2. answer'[t] # Nothing => answer[t] # Nothing
      BY <2>3, AnswerStep
    <3> QED
      BY <1>0, <2>3, <3>1, <3>2 DEF Older, Known
  <2> QED
    BY <1>3, <2>1, <2>2, <2>3, TakeUp
<1> QED
  BY <1>2, <1>3

(* The witness of a mistaken reply stays one, and a reply that is taken     *)
(* from the line by another brings its own.                                 *)
LEMMA AnswerOwnStep ==
  ASSUME TypeOK, TypeOK', Handling, Numbered, PacedBefore, ReplyInv, [Next]_vars
  PROVE  FeatureOwnAnswer'
<1> SUFFICES ASSUME NEW s \in Seqs, kind'[s] = "get_report", answer'[s] \notin {s, Nothing}
             PROVE  \E t \in Seqs : /\ t < s /\ kind'[t] = "get_report"
                                    /\ host'[t] \notin {"idle", "sent"} /\ answer'[t] # t
  BY DEF FeatureOwnAnswer
<1>0. LinkLost /\ Ordered /\ OwnReplyAhead /\ Older /\ FeatureOwnAnswer
  BY DEF ReplyInv, Ordered
<1>1. Used(s) /\ kind[s] = "get_report"
  BY KnownServed, KindKept DEF Known, Served
<1>2. ASSUME NEW t \in Seqs, t < s, kind[t] = "get_report", host[t] \notin {"idle", "sent"},
             answer'[t] # t
      PROVE  \E u \in Seqs : /\ u < s /\ kind'[u] = "get_report"
                             /\ host'[u] \notin {"idle", "sent"} /\ answer'[u] # u
  <2>1. Used(t)' /\ kind'[t] = "get_report"
    BY <1>2, KindKept DEF Used
  <2>2. host'[t] \notin {"idle", "sent"}
    BY <1>0, <1>2, <2>1, LostStep DEF Used
  <2> QED
    BY <1>2, <2>1, <2>2
<1>3. CASE answer'[s] = answer[s]
  <2>1. PICK t \in Seqs : /\ t < s /\ kind[t] = "get_report"
                          /\ host[t] \notin {"idle", "sent"} /\ answer[t] # t
    BY <1>0, <1>1, <1>3 DEF FeatureOwnAnswer
  <2>2. answer'[t] # t
    <3>1. t # Nothing /\ kind[t] \notin Iso /\ kind[t] # "hid_in"
      BY <2>1 DEF Seqs, Nothing, Iso
    <3>2. CASE t = current /\ Replies
      <4>1. session \in {"handle", "wait_feature"} /\ answer[s] # Nothing
        BY <1>3, <3>2, RepliesAre
      <4>2. s < current
        BY <1>0, <4>1 DEF Older
      <4> QED
        BY <2>1, <3>2, <4>2 DEF Seqs
    <3> QED
      BY <2>1, <3>1, <3>2, AnswerStep
  <2> QED
    BY <1>2, <2>1, <2>2
<1>4. CASE answer'[s] # answer[s]
  <2> DEFINE h == Head(feature_reply_queue)
  <2>1. s = current /\ FeatureReply /\ answer'[s] = h
    BY <1>1, <1>4, AnswerStep DEF Iso
  <2>2. session = "wait_feature"
    BY <2>1 DEF FeatureReply
  <2>3. h \in Expected /\ h # s
    BY <1>0, <2>1, LineStep
  <2> HIDE DEF h
  <2>4. /\ h \in Seqs /\ kind[h] = "get_report" /\ Used(h) /\ answer[h] # h
        /\ host[h] \notin {"idle", "sent"}
    BY <1>0, <2>1, <2>3 DEF OwnReplyAhead, Used
  <2>5. h < s
    <3>1. h <= current
      BY <1>0, <2>2, <2>3, <2>4 DEF Older
    <3> QED
      BY <2>1, <2>3, <2>4, <3>1 DEF Seqs
  <2>6. answer'[h] # h
    <3>1. h # Nothing
      BY <2>4 DEF Seqs, Nothing
    <3> QED
      BY <2>1, <2>3, <2>4, <3>1, AnswerStep
  <2> QED
    BY <1>2, <2>4, <2>5, <2>6
<1> QED
  BY <1>3, <1>4

LEMMA InitReply == Init => ReplyInv
<1> SUFFICES ASSUME Init PROVE ReplyInv
  OBVIOUS
<1>1. feature_reply_queue = <<>> /\ frames = <<>> /\ asked = <<>> /\ 1 .. Len(<<>>) = {}
  BY DEF Init
<1>2. Ordered /\ Expected = {}
  BY <1>1 DEF Ordered, Rising, Replying, Expected, OnTheWay
<1> HIDE DEF Expected
<1>3. OwnReplyAhead /\ Older
  BY <1>2 DEF OwnReplyAhead, Older, Init
<1> QED
  BY <1>2, <1>3 DEF Init, LinkLost, Ordered, FeatureOwnAnswer, ReplyInv

LEMMA NextReply ==
  ASSUME PortInv, IsoInv, ReplyInv, [Next]_vars
  PROVE  PortInv' /\ IsoInv' /\ ReplyInv'
<1>1. PortInv' /\ TypeOK /\ TypeOK' /\ Handling
  BY NextInv, Parts DEF PortInv
<1>2. IsoInv' /\ Numbered /\ Numbered' /\ PacedBefore
  BY <1>1, RealtimeStep, NumberedStep, PacedStep DEF IsoInv
<1>3. Ordered'
  BY <1>1, LineStep DEF ReplyInv, Ordered
<1>4. LinkLost'
  BY <1>1, LostStep DEF ReplyInv
<1> QED
  BY <1>1, <1>2, <1>3, <1>4, OwnStep, OlderStep, AnswerOwnStep DEF ReplyInv, Ordered

(* A GET_REPORT is given the reply to another one only after one before it  *)
(* has gone without its own, because its time was over, it was unlinked or  *)
(* its connection ended: FEATURE_REPLY frames carry no number, and          *)
(* wait_feature_reply takes the first of them.  As long as every GET_REPORT *)
(* gets its reply in time, nobody gets a stranger's.                        *)
THEOREM RepliesMatchRequests == Spec => []FeatureOwnAnswer
<1>1. Init => PortInv /\ IsoInv /\ ReplyInv
  BY InitInv, InitIso, InitReply
<1>2. PortInv /\ IsoInv /\ ReplyInv /\ [Next]_vars => (PortInv /\ IsoInv /\ ReplyInv)'
  BY NextReply
<1>3. ReplyInv => FeatureOwnAnswer
  BY DEF ReplyInv
<1> QED
  BY <1>1, <1>2, <1>3, PTL DEF Spec
=============================================================================
