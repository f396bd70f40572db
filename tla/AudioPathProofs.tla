--------------------------- MODULE AudioPathProofs ---------------------------
(***************************************************************************)
(* Theorems about AudioPath, for every value of its constants.             *)
(***************************************************************************)
EXTENDS AudioPath, QueueLemmas

-----------------------------------------------------------------------------
(* Queues of chunks.                                                        *)

(* No chunk of q carries the haptics of a stream up to number g.            *)
NoneUpTo(q, g) == \A i \in 1 .. Len(q) : q[i].gen > 0 => q[i].gen > g

LEMMA ChunkTypes ==
  /\ Tone \in Chunk /\ Nothing.chunk = Tone /\ Tone.gen = 0
  /\ \A n \in Nat : Usb(n) \in Chunk /\ Usb(n).gen = 0
  /\ \A g, s \in Nat : Injected(g, s) \in Chunk /\ Injected(g, s).gen = g
BY DEF Tone, Chunk, Nothing, Usb, Injected

LEMMA EmptyQueue ==
  ASSUME NEW g PROVE <<>> \in Seq(Chunk) /\ Len(<<>>) = 0 /\ NoneUpTo(<<>>, g)
BY DEF NoneUpTo

LEMMA OneChunk ==
  ASSUME NEW c \in Chunk, NEW g, c.gen > 0 => c.gen > g
  PROVE  <<c>> \in Seq(Chunk) /\ Len(<<c>>) = 1 /\ NoneUpTo(<<c>>, g)
BY DEF NoneUpTo

LEMMA LaterChunks ==
  ASSUME NEW q \in Seq(Chunk), NEW g, NoneUpTo(q, g), NEW m \in 1 .. Len(q) + 1
  PROVE  LET s == SubSeq(q, m, Len(q)) IN
         s \in Seq(Chunk) /\ Len(s) = Len(q) - m + 1 /\ NoneUpTo(s, g)
<1>1. Len(q) \in Nat /\ \A i \in 1 .. Len(q) : q[i] \in Chunk
  BY LenProperties, ElementOfSeq
<1>2. \A i \in m .. Len(q) : q[i] \in Chunk
  BY <1>1
<1>3. /\ SubSeq(q, m, Len(q)) \in Seq(Chunk)
      /\ Len(SubSeq(q, m, Len(q))) = IF m <= Len(q) THEN Len(q) - m + 1 ELSE 0
      /\ \A i \in 1 .. Len(q) - m + 1 : SubSeq(q, m, Len(q))[i] = q[m + i - 1]
  BY <1>1, <1>2, SubSeqProperties
<1>4. Len(SubSeq(q, m, Len(q))) = Len(q) - m + 1
  BY <1>1, <1>3
<1>5. \A i \in 1 .. Len(q) - m + 1 : m + i - 1 \in 1 .. Len(q)
  BY <1>1
<1> QED
  BY <1>3, <1>4, <1>5 DEF NoneUpTo

LEMMA Joined ==
  ASSUME NEW q \in Seq(Chunk), NEW cs \in Seq(Chunk), NEW g, NoneUpTo(q, g), NoneUpTo(cs, g)
  PROVE  q \o cs \in Seq(Chunk) /\ Len(q \o cs) = Len(q) + Len(cs) /\ NoneUpTo(q \o cs, g)
<1>1. Len(q) \in Nat /\ Len(cs) \in Nat
  BY LenProperties
<1>2. /\ q \o cs \in Seq(Chunk) /\ Len(q \o cs) = Len(q) + Len(cs)
      /\ \A i \in 1 .. Len(q) + Len(cs) :
           (q \o cs)[i] = IF i <= Len(q) THEN q[i] ELSE cs[i - Len(q)]
  BY ConcatProperties
<1>3. \A i \in 1 .. Len(q) + Len(cs) :
        (i <= Len(q) /\ i \in 1 .. Len(q)) \/ (~(i <= Len(q)) /\ i - Len(q) \in 1 .. Len(cs))
  BY <1>1
<1> QED
  BY <1>2, <1>3 DEF NoneUpTo

(* A queue never grows beyond its bound, but may keep a length that exceeds *)
(* a bound lowered since.                                                   *)
LEMMA PushFacts ==
  ASSUME NEW q \in Seq(Chunk), NEW cs \in Seq(Chunk), NEW g, NoneUpTo(q, g), NoneUpTo(cs, g),
         MaxPending \in Nat
  PROVE  /\ Push(q, cs) \in Seq(Chunk) /\ NoneUpTo(Push(q, cs), g)
         /\ Len(Push(q, cs)) <= Len(q) \/ Len(Push(q, cs)) <= MaxPending
<1> DEFINE all  == q \o cs
           keep == IF Len(q) > MaxPending THEN Len(q) ELSE MaxPending
           late == SubSeq(all, Len(all) - keep + 1, Len(all))
<1>1. all \in Seq(Chunk) /\ Len(all) = Len(q) + Len(cs) /\ NoneUpTo(all, g)
  BY Joined
<1>2. Len(q) \in Nat /\ Len(cs) \in Nat
  BY LenProperties
<1>3. keep \in Nat /\ keep >= Len(q) /\ (keep = Len(q) \/ keep = MaxPending)
  BY <1>2
<1>4. Push(q, cs) = IF Len(all) > keep THEN late ELSE all
  BY DEF Push
<1> HIDE DEF all, keep
<1>5. CASE Len(all) > keep
  <2>1. Len(all) - keep + 1 \in 1 .. Len(all) + 1
    BY <1>1, <1>2, <1>3, <1>5
  <2>2. late \in Seq(Chunk) /\ Len(late) = Len(all) - (Len(all) - keep + 1) + 1 /\ NoneUpTo(late, g)
    BY <1>1, <2>1, LaterChunks
  <2>3. Len(late) = keep
    BY <1>1, <1>2, <1>3, <2>2
  <2> QED
    BY <1>3, <1>4, <1>5, <2>2, <2>3
<1>6. CASE ~(Len(all) > keep)
  <2>1. Len(all) <= keep
    BY <1>1, <1>2, <1>3, <1>6
  <2> QED
    BY <1>1, <1>3, <1>4, <1>6, <2>1
<1> QED
  BY <1>5, <1>6

(* What is in the bus and not yet seen: new chunks of its stream only.      *)
LEMMA SnapshotFacts ==
  ASSUME NEW g, NEW s \in Nat, entries \in Seq(Nat), generation \in Nat,
         MaxPending \in Nat \ {0}, streaming \in BOOLEAN, fresh \in BOOLEAN
  PROVE  /\ After(g, s) \in [generation : Nat, last : Nat, active : BOOLEAN, chunks : Seq(Chunk)]
         /\ After(g, s).generation = generation
         /\ \A i \in DOMAIN After(g, s).chunks : After(g, s).chunks[i].gen = generation
         /\ \/ After(g, s).last \in {s, 0}
            \/ \E i \in DOMAIN entries : After(g, s).last = entries[i]
         /\ g = generation /\ (\A i \in DOMAIN entries : entries[i] <= s) =>
              After(g, s).chunks = <<>> /\ After(g, s).last = s
<1> DEFINE from == IF g = generation THEN s ELSE 0
           old  == {i \in DOMAIN entries : entries[i] <= from}
           seen == Cardinality(old)
           new  == IF Len(entries) - seen > MaxPending THEN MaxPending ELSE Len(entries) - seen
           chunks == [i \in 1 .. new |-> Injected(generation, entries[Len(entries) - new + i])]
           last == IF new = 0 THEN from ELSE entries[Len(entries)]
<1>1. /\ DOMAIN entries = 1 .. Len(entries) /\ Len(entries) \in Nat
      /\ \A i \in 1 .. Len(entries) : entries[i] \in Nat
  BY LenProperties, ElementOfSeq
<1>2. /\ IsFiniteSet(1 .. Len(entries)) /\ Cardinality(1 .. Len(entries)) = Len(entries)
  BY <1>1, FS_Interval
<1>3. old \subseteq 1 .. Len(entries)
  BY <1>1
<1>4. seen \in Nat /\ seen <= Len(entries)
  BY <1>2, <1>3, FS_Subset, FS_CardinalityType
<1>5. from \in Nat /\ from \in {s, 0}
  OBVIOUS
<1>6. After(g, s) = [generation |-> generation, active |-> streaming /\ fresh,
                     chunks |-> chunks, last |-> last]
  BY DEF After
<1>6a. (\A i \in DOMAIN entries : entries[i] <= s) /\ g = generation => seen = Len(entries)
  <2> SUFFICES ASSUME \A i \in DOMAIN entries : entries[i] <= s, g = generation
               PROVE  old = 1 .. Len(entries)
    BY <1>2
  <2> QED
    BY <1>1
<1> HIDE DEF from, old, seen
<1>7. new \in 0 .. Len(entries) /\ new \in Nat
  BY <1>1, <1>4
<1> HIDE DEF new
<1>8. \A i \in 1 .. new : entries[Len(entries) - new + i] \in Nat
  BY <1>1, <1>7
<1>9. \A i \in 1 .. new : chunks[i] \in Chunk /\ chunks[i].gen = generation
  BY <1>8, ChunkTypes
<1>10. chunks \in [1 .. new -> Chunk] /\ DOMAIN chunks = 1 .. new
  BY <1>9
<1>11. chunks \in Seq(Chunk)
  BY <1>7, <1>10, AsSequence
<1>12. last \in Nat /\ (last \in {s, 0} \/ \E i \in DOMAIN entries : last = entries[i])
  <2>1. CASE new = 0
    BY <1>5, <2>1
  <2>2. CASE new # 0
    <3>1. Len(entries) \in DOMAIN entries /\ last = entries[Len(entries)]
      BY <1>1, <1>7, <2>2
    <3> QED
      BY <1>1, <3>1
  <2> QED
    BY <2>1, <2>2
<1>13. g = generation /\ (\A i \in DOMAIN entries : entries[i] <= s) =>
         chunks = <<>> /\ last = s
  <2> SUFFICES ASSUME g = generation, \A i \in DOMAIN entries : entries[i] <= s
               PROVE  chunks = <<>> /\ last = s
    OBVIOUS
  <2>1. new = 0
    BY <1>1, <1>6a DEF new
  <2>2. last = s
    BY <2>1 DEF from
  <2>3. Len(chunks) = 0
    BY <1>7, <1>10, <1>11, <2>1, LenProperties
  <2> HIDE DEF chunks, last
  <2> QED
    BY <1>11, <2>2, <2>3, EmptySeq
<1> HIDE DEF chunks, last
<1>14. (streaming /\ fresh) \in BOOLEAN
  OBVIOUS
<1> QED
  BY <1>6, <1>9, <1>10, <1>11, <1>12, <1>13, <1>14

(* Haptics mixed into the chunks that wait.                                 *)
LEMMA Mixed ==
  ASSUME NEW q \in Seq(Chunk), NEW new \in Seq(Chunk), NEW g, NoneUpTo(q, g), NoneUpTo(new, g),
         NEW n \in 0 .. Len(new),
         NEW m, m = [i \in DOMAIN q |-> IF i <= n THEN Overlay(q[i], new[i]) ELSE q[i]]
  PROVE  m \in Seq(Chunk) /\ Len(m) = Len(q) /\ NoneUpTo(m, g)
<1>1. /\ DOMAIN q = 1 .. Len(q) /\ Len(q) \in Nat /\ Len(new) \in Nat
      /\ \A i \in 1 .. Len(q) : q[i] \in Chunk
      /\ \A i \in 1 .. Len(new) : new[i] \in Chunk
  BY LenProperties, ElementOfSeq
<1>2. ASSUME NEW i \in 1 .. Len(q)
      PROVE  m[i] \in Chunk /\ (m[i].gen > 0 => m[i].gen > g)
  <2>1. CASE i <= n
    <3>1. i \in 1 .. Len(new) /\ m[i] = Overlay(q[i], new[i])
      BY <1>1, <2>1
    <3>2. q[i] \in Chunk /\ new[i] \in Chunk /\ (new[i].gen > 0 => new[i].gen > g)
      BY <1>1, <3>1 DEF NoneUpTo
    <3>3. Overlay(q[i], new[i]) \in Chunk /\ Overlay(q[i], new[i]).gen = new[i].gen
      BY <3>2 DEF Overlay, Chunk
    <3> QED
      BY <3>1, <3>2, <3>3
  <2>2. CASE ~(i <= n)
    BY <1>1, <2>2 DEF NoneUpTo
  <2> QED
    BY <2>1, <2>2
<1>3. m \in [1 .. Len(q) -> Chunk]
  BY <1>1, <1>2
<1>4. m \in Seq(Chunk) /\ Len(m) = Len(q)
  BY <1>1, <1>3, AsSequence
<1> QED
  BY <1>2, <1>4 DEF NoneUpTo

-----------------------------------------------------------------------------
(* The invariant: the queue.                                                *)

Steady  == UNCHANGED <<open, since, pending_audio_chunks>>
Bounded(q) == \E b \in Buffers : Len(q) <= b + SlackChunks
QueueOk ==
  /\ pending_audio_chunks \in Seq(Chunk) /\ Bounded(pending_audio_chunks)
  /\ NoneUpTo(pending_audio_chunks, since)

LEMMA BufferType == TypeOK => buffer \in Nat \ {0} /\ MaxPending \in Nat \ {0}
BY AudioAssumption DEF TypeOK, MaxPending

LEMMA QueueFacts == PathInv => QueueOk
<1> SUFFICES ASSUME PathInv PROVE NoneUpTo(pending_audio_chunks, since)
  BY DEF PathInv, TypeOK, QueueOk, Bounded
<1>1. pending_audio_chunks \in Seq(Chunk)
  BY DEF PathInv, TypeOK
<1> QED
  BY <1>1, Holdings DEF PathInv, NoSilentJoin, NoneUpTo

LEMMA NoneBounded == Bounded(<<>>)
<1>1. PICK b \in Buffers : b \in Nat
  BY AudioAssumption
<1>2. Len(<<>>) = 0 /\ 0 <= b + SlackChunks
  BY <1>1, AudioAssumption
<1>3. Len(<<>>) <= b + SlackChunks
  BY <1>2
<1> QED
  BY <1>3 DEF Bounded

(* Dropping from the queue keeps it bounded.                                *)
LEMMA Shorter ==
  ASSUME NEW q \in Seq(Chunk), Bounded(q), NEW r \in Seq(Chunk), Len(r) <= Len(q)
  PROVE  Bounded(r)
<1>1. PICK b \in Buffers : Len(q) <= b + SlackChunks
  BY DEF Bounded
<1>2. Len(q) \in Nat /\ Len(r) \in Nat /\ b \in Nat /\ SlackChunks \in Nat
  BY LenProperties, AudioAssumption
<1>3. Len(r) <= b + SlackChunks
  BY <1>1, <1>2
<1> QED
  BY <1>3 DEF Bounded

LEMMA PushBounded ==
  ASSUME TypeOK, NEW q \in Seq(Chunk), Bounded(q), NEW cs \in Seq(Chunk), NEW g,
         NoneUpTo(q, g), NoneUpTo(cs, g)
  PROVE  Push(q, cs) \in Seq(Chunk) /\ Bounded(Push(q, cs)) /\ NoneUpTo(Push(q, cs), g)
<1>1. MaxPending \in Nat /\ buffer \in Buffers
  BY BufferType DEF TypeOK
<1>2. /\ Push(q, cs) \in Seq(Chunk) /\ NoneUpTo(Push(q, cs), g)
      /\ Len(Push(q, cs)) <= Len(q) \/ Len(Push(q, cs)) <= MaxPending
  BY <1>1, PushFacts
<1>3. CASE Len(Push(q, cs)) <= Len(q)
  BY <1>2, <1>3, Shorter
<1>4. CASE Len(Push(q, cs)) <= MaxPending
  <2>1. Len(Push(q, cs)) <= buffer + SlackChunks
    BY <1>4 DEF MaxPending
  <2> QED
    BY <1>1, <1>2, <2>1 DEF Bounded
<1> QED
  BY <1>2, <1>3, <1>4

(* The queue of a stream that was there before the session stays empty of   *)
(* its chunks.                                                              *)
LEMMA MergeQueue ==
  ASSUME PathInv, MergeNothing \/ MergeChunks PROVE QueueOk'
<1>1. /\ TypeOK /\ QueueOk /\ UNCHANGED since
      /\ pending_audio_chunks \in Seq(Chunk)
  BY QueueFacts DEF PathInv, TypeOK, MergeNothing, MergeChunks, MergePlayed, MergeFrame,
     sessVars
<1>2. Queued \in Seq(Chunk) /\ Bounded(Queued) /\ NoneUpTo(Queued, since)
  BY <1>1, EmptyQueue, NoneBounded DEF Queued, QueueOk
<1>3. CASE MergeNothing
  BY <1>1, <1>2, <1>3 DEF MergeNothing, QueueOk
<1>4. CASE MergeChunks
  <2> DEFINE new   == snapshot.chunks
             n     == IF ~Others THEN 0
                      ELSE IF Len(Queued) < Len(new) THEN Len(Queued) ELSE Len(new)
             mixed == [i \in DOMAIN Queued |->
                         IF i <= n THEN Overlay(Queued[i], new[i]) ELSE Queued[i]]
             rest  == SubSeq(new, n + 1, Len(new))
  <2>1. /\ new \in Seq(Chunk) /\ snapshot.generation \in Nat /\ flush = "merge"
        /\ new # <<>> /\ ~Suppressed
        /\ pending_audio_chunks' = Push(mixed, rest)
    BY <1>1, <1>4 DEF TypeOK, MergeChunks, MergePlayed, MergeFrame
  <2>2. snapshot.generation > since
    <3>1. /\ snapshot.generation \in injection_generation .. generation
          /\ since <= injection_generation
          /\ ~(snapshot.generation = since /\ ~wait_for_next_stream)
      BY <2>1 DEF PathInv, SnapshotOfBus
    <3>2. since \in Nat /\ injection_generation \in Nat /\ generation \in Nat
      <4>1. world.streams \in Nat
        BY <1>1, AudioAssumption DEF TypeOK, World
      <4> QED
        BY <1>1, <4>1 DEF TypeOK
    <3>3. ~(wait_for_next_stream /\ snapshot.generation = injection_generation)
      BY <2>1 DEF Suppressed
    <3> QED
      BY <3>1, <3>2, <3>3
  <2>3. NoneUpTo(new, since)
    <3>1. \A i \in DOMAIN new : new[i].gen = snapshot.generation
      BY <2>1 DEF PathInv, SnapshotOfBus
    <3>2. DOMAIN new = 1 .. Len(new)
      BY <2>1, LenProperties
    <3> QED
      BY <2>2, <3>1, <3>2 DEF NoneUpTo
  <2>4. Len(Queued) \in Nat /\ Len(new) \in Nat
    BY <1>2, <2>1, LenProperties
  <2> HIDE DEF new
  <2>5. n \in 0 .. Len(new) /\ n + 1 \in 1 .. Len(new) + 1
    BY <2>4
  <2> HIDE DEF n
  <2>6. rest \in Seq(Chunk) /\ NoneUpTo(rest, since)
    BY <2>1, <2>3, <2>5, LaterChunks
  <2>7. mixed \in Seq(Chunk) /\ Len(mixed) = Len(Queued) /\ NoneUpTo(mixed, since)
    BY <1>2, <2>1, <2>3, <2>5, Mixed
  <2> HIDE DEF mixed, rest
  <2>8. Len(mixed) <= Len(Queued)
    BY <2>4, <2>7
  <2>9. Bounded(mixed)
    BY <1>2, <2>7, <2>8, Shorter
  <2> QED
    BY <1>1, <2>1, <2>6, <2>7, <2>9, PushBounded DEF QueueOk
<1> QED
  BY <1>3, <1>4

LEMMA FlushQueue ==
  ASSUME PathInv, FlushChunk \/ FlushSent PROVE QueueOk' /\ in_hand'.chunk \in Chunk
<1> DEFINE n == Len(pending_audio_chunks)
<1>1. /\ QueueOk /\ UNCHANGED since /\ buffer \in Nat \ {0} /\ in_hand.chunk \in Chunk
      /\ pending_audio_chunks \in Seq(Chunk) /\ n \in Nat
  BY QueueFacts, BufferType, LenProperties
     DEF PathInv, TypeOK, FlushChunk, LookFrame, FlushSent, sessVars
<1>2. CASE FlushChunk
  <2> DEFINE late == SubSeq(pending_audio_chunks, n - buffer + 1, n)
  <2>1. /\ n > 0
        /\ pending_audio_chunks' = IF n > buffer THEN late ELSE pending_audio_chunks
        /\ in_hand' = [kind |-> "chunk", chunk |-> Head(pending_audio_chunks')]
    BY <1>2 DEF FlushChunk
  <2>2. /\ pending_audio_chunks' \in Seq(Chunk) /\ Len(pending_audio_chunks') \in 1 .. n
        /\ NoneUpTo(pending_audio_chunks', since)
    <3>1. CASE n > buffer
      <4>1. n - buffer + 1 \in 1 .. n + 1 /\ n - (n - buffer + 1) + 1 \in 1 .. n
        BY <1>1, <3>1
      <4>2. /\ late \in Seq(Chunk) /\ Len(late) = n - (n - buffer + 1) + 1
            /\ NoneUpTo(late, since)
        BY <1>1, <4>1, LaterChunks DEF QueueOk
      <4> QED
        BY <2>1, <3>1, <4>1, <4>2
    <3>2. CASE ~(n > buffer)
      BY <1>1, <2>1, <3>2 DEF QueueOk
    <3> QED
      BY <3>1, <3>2
  <2>3. Len(pending_audio_chunks') <= n
    BY <1>1, <2>2
  <2>4. Bounded(pending_audio_chunks')
    BY <1>1, <2>2, <2>3, Shorter DEF QueueOk
  <2>5. Head(pending_audio_chunks') \in Chunk
    <3>1. pending_audio_chunks' # <<>>
      BY <2>2, EmptySeq
    <3> QED
      BY <2>2, <3>1, HeadTailProperties
  <2> QED
    BY <1>1, <2>1, <2>2, <2>4, <2>5 DEF QueueOk
<1>3. CASE FlushSent
  <2>1. /\ in_hand' = Nothing
        /\ \/ pending_audio_chunks' = pending_audio_chunks
           \/ pending_audio_chunks' = <<>>
           \/ pending_audio_chunks # <<>> /\ pending_audio_chunks' = Tail(pending_audio_chunks)
    BY <1>3 DEF FlushSent, FrontGone
  <2>2. in_hand'.chunk \in Chunk
    BY <2>1, ChunkTypes
  <2>3. CASE pending_audio_chunks # <<>> /\ pending_audio_chunks' = Tail(pending_audio_chunks)
    <3>1. /\ pending_audio_chunks' \in Seq(Chunk) /\ Len(pending_audio_chunks') = n - 1
          /\ \A i \in 1 .. Len(pending_audio_chunks') :
               pending_audio_chunks'[i] = pending_audio_chunks[i + 1]
      BY <1>1, <2>3, HeadTailProperties
    <3>2. Len(pending_audio_chunks') <= n
      BY <1>1, <3>1
    <3>3. Bounded(pending_audio_chunks')
      BY <1>1, <3>1, <3>2, Shorter DEF QueueOk
    <3>4. \A i \in 1 .. n - 1 : i + 1 \in 1 .. n
      BY <1>1
    <3>5. NoneUpTo(pending_audio_chunks', since)
      BY <1>1, <3>1, <3>4 DEF QueueOk, NoneUpTo
    <3> QED
      BY <1>1, <2>2, <3>1, <3>3, <3>5 DEF QueueOk
  <2>4. CASE pending_audio_chunks' = pending_audio_chunks
    BY <1>1, <2>2, <2>4 DEF QueueOk
  <2>5. CASE pending_audio_chunks' = <<>>
    BY <1>1, <2>2, <2>5, EmptyQueue, NoneBounded DEF QueueOk
  <2> QED
    BY <2>1, <2>3, <2>4, <2>5
<1> QED
  BY <1>2, <1>3

LEMMA PcmQueue ==
  ASSUME PathInv, Pcm PROVE QueueOk'
<1> DEFINE reset == ~audio_out_stream_active \/ waveout_active
           kept  == IF reset \/ ~audio_pcm_stream_active THEN <<>> ELSE pending_audio_chunks
<1>1. /\ QueueOk /\ TypeOK /\ UNCHANGED since /\ frames + 1 \in Nat /\ since \in Nat
      /\ pending_audio_chunks \in Seq(Chunk)
  <2>1. frames \in Nat /\ since \in Nat
    BY AudioAssumption DEF PathInv, TypeOK, World
  <2> QED
    BY <2>1, QueueFacts DEF PathInv, TypeOK, Pcm, sessVars
<1>2. \/ pending_audio_chunks' = Push(kept, <<Usb(frames + 1)>>)
      \/ pending_audio_chunks' = <<>>
      \/ pending_audio_chunks' = pending_audio_chunks
  BY DEF Pcm
<1>3. kept \in Seq(Chunk) /\ Bounded(kept) /\ NoneUpTo(kept, since)
  BY <1>1, EmptyQueue, NoneBounded DEF QueueOk
<1> HIDE DEF kept
<1>4. Usb(frames + 1) \in Chunk /\ Usb(frames + 1).gen = 0
  BY <1>1, ChunkTypes
<1>5. <<Usb(frames + 1)>> \in Seq(Chunk) /\ NoneUpTo(<<Usb(frames + 1)>>, since)
  BY <1>4, OneChunk
<1>6. CASE pending_audio_chunks' = Push(kept, <<Usb(frames + 1)>>)
  BY <1>1, <1>3, <1>5, <1>6, PushBounded DEF QueueOk
<1>7. CASE pending_audio_chunks' = <<>>
  BY <1>1, <1>7, EmptyQueue, NoneBounded DEF QueueOk
<1>8. CASE pending_audio_chunks' = pending_audio_chunks
  BY <1>1, <1>8 DEF QueueOk
<1> QED
  BY <1>2, <1>6, <1>7, <1>8

(* Every step leaves a queue of chunks, bounded, with none of a stream that *)
(* was there before the session.                                            *)
LEMMA QueueStep ==
  ASSUME PathInv, [Next]_vars PROVE QueueOk'
<1>1. QueueOk
  BY QueueFacts
<1>2. CASE UNCHANGED <<since, pending_audio_chunks>>
  BY <1>1, <1>2 DEF QueueOk
<1>3. CASE pending_audio_chunks' = <<>>
  BY <1>3, EmptyQueue, NoneBounded DEF QueueOk
<1>4. CASE ClientConnects \/ HeaderRefused \/ HeaderAccepted \/ Publish \/ EndStream \/ Stale
  BY <1>2, <1>4 DEF ClientConnects, HeaderRefused, HeaderAccepted, Publish, EndStream, Stale,
     BusFrame, sessVars, queue
<1>5. CASE SessionOpens \/ SessionEnds
  BY <1>2, <1>3, <1>5 DEF SessionOpens, SessionEnds, sessVars, queue
<1>6. ASSUME NEW on \in BOOLEAN, Interface(on) \/ Waveout(on) PROVE QueueOk'
  BY <1>2, <1>3, <1>6 DEF Interface, Waveout, Command, sessVars
<1>7. ASSUME NEW b \in Buffers, SetBuffer(b) PROVE QueueOk'
  BY <1>2, <1>7 DEF SetBuffer, Command, sessVars, queue
<1>8. CASE TakeSnapshot \/ MergeSuppressed \/ FlushWaits \/ FlushConceals \/ FlushUnderflow
  BY <1>2, <1>8 DEF TakeSnapshot, MergeSuppressed, MergeFrame, FlushWaits, FlushConceals,
     FlushUnderflow, LookFrame, sessVars, queue
<1>9. CASE MakeTone
  <2>1. /\ since' = since
        /\ pending_audio_chunks' = <<Tone>> \/ pending_audio_chunks' = pending_audio_chunks
    BY <1>9 DEF MakeTone, sessVars
  <2>2. <<Tone>> \in Seq(Chunk) /\ Len(<<Tone>>) = 1 /\ NoneUpTo(<<Tone>>, since)
    BY ChunkTypes, OneChunk
  <2>3. Bounded(<<Tone>>)
    <3>1. PICK b \in Buffers : b \in Nat \ {0}
      BY AudioAssumption
    <3>2. 1 <= b + SlackChunks
      BY <3>1, AudioAssumption
    <3> QED
      BY <2>2, <3>2 DEF Bounded
  <2> QED
    BY <1>1, <2>1, <2>2, <2>3 DEF QueueOk
<1>10. CASE UNCHANGED vars
  BY <1>2, <1>10 DEF vars, sessVars, queue
<1> QED
  BY <1>4, <1>5, <1>6, <1>7, <1>8, <1>9, <1>10, MergeQueue, FlushQueue, PcmQueue
     DEF Next, Flush, Inject

-----------------------------------------------------------------------------
(* The invariant: what the flush thread has in hand.                        *)

HandOk ==
  /\ in_hand \in [kind : {"none", "chunk", "concealment"}, chunk : Chunk]
  /\ in_hand.chunk.gen > 0 => in_hand.chunk.gen > since
  /\ flush # "sending" => in_hand = Nothing

LEMMA HandFacts == PathInv => HandOk
BY DEF PathInv, TypeOK, NoSilentJoin, HandOk

LEMMA FrontThere ==
  ASSUME PathInv, FlushChunk PROVE pending_audio_chunks' # <<>>
<1>1. /\ Len(pending_audio_chunks) \in Nat /\ Len(pending_audio_chunks) > 0
      /\ buffer \in Nat \ {0} /\ pending_audio_chunks \in Seq(Chunk)
  BY BufferType, LenProperties DEF FlushChunk, PathInv, TypeOK
<1>2. CASE Len(pending_audio_chunks) > buffer
  <2> DEFINE m == Len(pending_audio_chunks) - buffer + 1
  <2>1. m \in 1 .. Len(pending_audio_chunks) + 1 /\ Len(pending_audio_chunks) - m + 1 = buffer
    BY <1>1, <1>2
  <2>2. pending_audio_chunks' = SubSeq(pending_audio_chunks, m, Len(pending_audio_chunks))
    BY <1>2 DEF FlushChunk
  <2> HIDE DEF m
  <2>3. Len(pending_audio_chunks') = buffer
    BY <1>1, <2>1, <2>2, LaterChunks, QueueFacts DEF QueueOk
  <2> QED
    BY <1>1, <2>3, EmptySeq
<1>3. CASE ~(Len(pending_audio_chunks) > buffer)
  <2>1. pending_audio_chunks' = pending_audio_chunks
    BY <1>3 DEF FlushChunk
  <2> QED
    BY <1>1, <2>1, EmptySeq
<1> QED
  BY <1>2, <1>3

LEMMA HandStep ==
  ASSUME PathInv, [Next]_vars PROVE HandOk'
<1>0. HandOk /\ Nothing \in [kind : {"none", "chunk", "concealment"}, chunk : Chunk]
  BY HandFacts, ChunkTypes DEF Nothing
<1>1. CASE UNCHANGED <<since, in_hand>> /\ (flush' = flush \/ flush # "sending")
  BY <1>0, <1>1 DEF HandOk
<1>2. CASE in_hand' = Nothing
  BY <1>0, <1>2, ChunkTypes DEF HandOk
<1>3. CASE ClientConnects \/ HeaderRefused \/ HeaderAccepted \/ Publish \/ EndStream \/ Stale
  BY <1>1, <1>3 DEF ClientConnects, HeaderRefused, HeaderAccepted, Publish, EndStream, Stale,
     BusFrame, sessVars, flushVars
<1>4. CASE SessionOpens \/ SessionEnds
  <2>1. in_hand' = Nothing
    BY <1>0, <1>4 DEF SessionOpens, SessionEnds, flushVars, HandOk
  <2> QED
    BY <1>2, <2>1
<1>5. ASSUME NEW on \in BOOLEAN, Interface(on) \/ Waveout(on) PROVE HandOk'
  BY <1>1, <1>5 DEF Interface, Waveout, Command, sessVars, flushVars
<1>6. ASSUME NEW b \in Buffers, SetBuffer(b) PROVE HandOk'
  BY <1>1, <1>6 DEF SetBuffer, Command, sessVars, flushVars
<1>7. CASE Pcm
  BY <1>1, <1>7 DEF Pcm, sessVars, flushVars
<1>8. CASE TakeSnapshot \/ MergeSuppressed \/ MergeNothing \/ MergeChunks \/ MakeTone
             \/ FlushWaits \/ FlushUnderflow
  BY <1>1, <1>8 DEF TakeSnapshot, MergeSuppressed, MergeNothing, MergeChunks, MergePlayed,
     MergeFrame, MakeTone, FlushWaits, FlushUnderflow, LookFrame, sessVars
<1>9. CASE FlushConceals
  <2>1. in_hand' = [kind |-> "concealment", chunk |-> Tone] /\ flush' = "sending"
    BY <1>9 DEF FlushConceals
  <2> QED
    BY <2>1, ChunkTypes DEF HandOk
<1>10. CASE FlushChunk
  <2>1. QueueOk' /\ since' = since /\ flush' = "sending"
    BY <1>10, FlushQueue DEF FlushChunk, LookFrame, sessVars
  <2>2. in_hand' = [kind |-> "chunk", chunk |-> Head(pending_audio_chunks')]
    BY <1>10 DEF FlushChunk
  <2>3. in_hand'.chunk \in Chunk /\ in_hand'.kind = "chunk"
    BY <1>10, <2>2, FlushQueue
  <2>4. pending_audio_chunks' # <<>>
    BY <1>10, FrontThere
  <2>5. /\ Head(pending_audio_chunks') = pending_audio_chunks'[1]
        /\ 1 \in 1 .. Len(pending_audio_chunks')
    <3>1. pending_audio_chunks' \in Seq(Chunk)
      BY <2>1 DEF QueueOk
    <3>2. Len(pending_audio_chunks') \in Nat \ {0}
      BY <2>4, <3>1, EmptySeq
    <3> QED
      BY <3>1, <3>2
  <2>6. in_hand'.chunk.gen > 0 => in_hand'.chunk.gen > since'
    BY <2>1, <2>2, <2>5 DEF QueueOk, NoneUpTo
  <2> QED
    BY <2>1, <2>2, <2>3, <2>6 DEF HandOk
<1>11. CASE FlushSent
  BY <1>2, <1>11 DEF FlushSent
<1>12. CASE UNCHANGED vars
  BY <1>1, <1>12 DEF vars, sessVars, flushVars
<1> QED
  BY <1>3, <1>4, <1>5, <1>6, <1>7, <1>8, <1>9, <1>10, <1>11, <1>12 DEF Next, Flush, Inject

-----------------------------------------------------------------------------
(* The invariant: bus, cursor and snapshot.                                 *)

BusOk ==
  /\ world \in Worlds /\ pipe \in {"listening", "header", "stream"}
  /\ generation \in 0..world.streams /\ next_sequence \in 1..world.published + 1
  /\ entries \in Seq(Nat) /\ Len(entries) <= RingChunks
  /\ \A i \in DOMAIN entries : entries[i] \in 1..next_sequence - 1
  /\ pipe = "header" => generation < world.streams

LEMMA WorldFacts ==
  ASSUME world \in Worlds
  PROVE  /\ world.window \in Nat \ {0} /\ world.frames \in Nat /\ world.streams \in Nat
         /\ world.published \in Nat /\ world.commands \in Nat /\ world.sessions \in Nat
BY AudioAssumption DEF World

(* Every step but those of the bus itself leaves the bus alone.             *)
LEMMA BusFrames ==
  ASSUME [Next]_vars
  PROVE  \/ ClientConnects \/ HeaderRefused \/ HeaderAccepted \/ Publish \/ EndStream \/ Stale
         \/ UNCHANGED <<world, pipe, generation, next_sequence, entries, streaming, fresh>>
<1> USE DEF busVars
<1>1. CASE SessionOpens \/ SessionEnds \/ Pcm
  BY <1>1 DEF SessionOpens, SessionEnds, Pcm
<1>2. CASE \/ \E on \in BOOLEAN : Interface(on) \/ Waveout(on)
           \/ \E b \in Buffers : SetBuffer(b)
  BY <1>2 DEF Interface, Waveout, SetBuffer, Command
<1>3. CASE Flush
  BY <1>3 DEF Flush, Inject, TakeSnapshot, MergeSuppressed, MergeNothing, MergeChunks,
     MergePlayed, MergeFrame, MakeTone, FlushWaits, FlushChunk, FlushConceals,
     FlushUnderflow, LookFrame, FlushSent
<1>4. CASE UNCHANGED vars
  BY <1>4 DEF vars
<1> QED
  BY <1>1, <1>2, <1>3, <1>4 DEF Next

LEMMA PublishRing ==
  ASSUME BusOk, Publish
  PROVE  /\ entries' \in Seq(Nat) /\ Len(entries') <= RingChunks
         /\ \A i \in DOMAIN entries' : entries'[i] \in 1..next_sequence
<1> DEFINE es == Append(entries, next_sequence)
<1>1. /\ next_sequence \in Nat /\ next_sequence >= 1 /\ entries \in Seq(Nat)
      /\ Len(entries) \in Nat /\ Len(entries) <= RingChunks /\ RingChunks \in Nat
      /\ DOMAIN entries = 1 .. Len(entries)
  <2>1. entries \in Seq(Nat) /\ world.published \in Nat
    BY WorldFacts DEF BusOk
  <2> QED
    BY <2>1, LenProperties, AudioAssumption DEF BusOk
<1>2. entries' = IF Len(es) > RingChunks THEN Tail(es) ELSE es
  BY DEF Publish, Ring
<1>3. /\ es \in Seq(Nat) /\ es # <<>> /\ Len(es) = Len(entries) + 1
      /\ \A i \in 1 .. Len(entries) : es[i] = entries[i]
      /\ es[Len(entries) + 1] = next_sequence
  BY <1>1, AppendProperties
<1>4. \A i \in 1 .. Len(es) : es[i] \in 1 .. next_sequence
  BY <1>1, <1>3 DEF BusOk
<1> HIDE DEF es
<1>5. CASE Len(es) > RingChunks
  <2>1. /\ Tail(es) \in Seq(Nat) /\ Len(Tail(es)) = Len(es) - 1
        /\ \A i \in 1 .. Len(Tail(es)) : Tail(es)[i] = es[i + 1]
    BY <1>3, HeadTailProperties
  <2>2. DOMAIN Tail(es) = 1 .. Len(Tail(es))
    BY <2>1, LenProperties
  <2>3. \A i \in 1 .. Len(Tail(es)) : i + 1 \in 1 .. Len(es)
    BY <1>1, <1>3, <2>1
  <2> QED
    BY <1>1, <1>2, <1>3, <1>4, <1>5, <2>1, <2>2, <2>3
<1>6. CASE ~(Len(es) > RingChunks)
  <2>1. DOMAIN es = 1 .. Len(es)
    BY <1>3, LenProperties
  <2> QED
    BY <1>1, <1>2, <1>3, <1>4, <1>6, <2>1
<1> QED
  BY <1>5, <1>6

LEMMA BusStep ==
  ASSUME BusOk, [Next]_vars PROVE BusOk'
<1>0. /\ world.streams \in Nat /\ world.published \in Nat /\ RingChunks \in Nat
      /\ generation \in Nat /\ next_sequence \in Nat
  BY WorldFacts, AudioAssumption DEF BusOk
<1>1. CASE UNCHANGED <<world, pipe, generation, next_sequence, entries, streaming, fresh>>
  BY <1>1 DEF BusOk
<1>2. CASE ClientConnects \/ HeaderRefused \/ EndStream \/ Stale
  BY <1>0, <1>2 DEF ClientConnects, HeaderRefused, EndStream, Stale, BusFrame, BusOk
<1>3. CASE HeaderAccepted
  <2>1. <<>> \in Seq(Nat) /\ Len(<<>>) = 0 /\ DOMAIN <<>> = {}
    BY LenProperties
  <2>2. /\ pipe = "header" /\ pipe' = "stream" /\ world' = world
        /\ generation' = generation + 1 /\ next_sequence' = 1 /\ entries' = <<>>
    BY <1>3 DEF HeaderAccepted, BusFrame
  <2>3. generation' \in 0..world'.streams /\ next_sequence' \in 1..world'.published + 1
    BY <1>0, <2>2 DEF BusOk
  <2>4. Len(entries') <= RingChunks /\ entries' \in Seq(Nat) /\ DOMAIN entries' = {}
    BY <1>0, <2>1, <2>2
  <2> QED
    BY <2>2, <2>3, <2>4 DEF BusOk
<1>4. CASE Publish
  <2>1. /\ world' = world /\ UNCHANGED <<pipe, generation>>
        /\ next_sequence' = next_sequence + 1 /\ next_sequence <= world.published
    BY <1>4 DEF Publish, BusFrame
  <2>2. /\ next_sequence' \in 1..world'.published + 1 /\ next_sequence' - 1 = next_sequence
    BY <1>0, <2>1 DEF BusOk
  <2> QED
    BY <1>4, <2>1, <2>2, PublishRing DEF BusOk
<1> QED
  BY <1>1, <1>2, <1>3, <1>4, BusFrames

CursorOk ==
  /\ since \in 0..generation /\ injection_generation \in 0..generation
  /\ since <= injection_generation /\ injection_sequence \in 0..world.published
  /\ NothingMissed
SnapshotOk ==
  /\ snapshot \in [generation : Nat, last : Nat, active : BOOLEAN, chunks : Seq(Chunk)]
  /\ SnapshotOfBus
Flags ==
  {streaming, fresh, open, wait_for_next_stream, injection_active,
   audio_out_stream_active, audio_pcm_stream_active, waveout_active, routed,
   last_audio_chunk, merged} \subseteq BOOLEAN
Counts ==
  /\ sessions \in 0..world.sessions
  /\ frames \in 0..world.frames /\ partial \in 0..world.window - 1
  /\ buffer \in Buffers /\ commands \in 0..world.commands
  /\ flush \in {"inject", "merge", "tone", "look", "sending"}

LEMMA Parts ==
  PathInv <=> QueueOk /\ HandOk /\ BusOk /\ CursorOk /\ SnapshotOk /\ Flags /\ Counts
<1>1. PathInv => QueueOk /\ HandOk
  BY QueueFacts, HandFacts
<1>2. PathInv => BusOk /\ CursorOk /\ SnapshotOk /\ Flags /\ Counts
  BY DEF PathInv, TypeOK, BusOk, CursorOk, SnapshotOk, Flags, Counts
<1>3. ASSUME QueueOk, HandOk, BusOk, CursorOk, SnapshotOk, Flags, Counts PROVE PathInv
  <2>1. TypeOK
    BY <1>3 DEF TypeOK, QueueOk, HandOk, BusOk, CursorOk, SnapshotOk, Flags, Counts, Bounded
  <2>2. NoSilentJoin
    BY <1>3, Holdings DEF QueueOk, HandOk, NoSilentJoin, NoneUpTo
  <2> QED
    BY <1>3, <2>1, <2>2 DEF PathInv, HandOk, BusOk, CursorOk, SnapshotOk
<1> QED
  BY <1>1, <1>2, <1>3

LEMMA CursorFacts ==
  ASSUME BusOk, CursorOk
  PROVE  /\ generation \in Nat /\ next_sequence \in Nat /\ since \in Nat
         /\ injection_generation \in Nat /\ injection_sequence \in Nat
         /\ world.streams \in Nat /\ world.published \in Nat
BY WorldFacts DEF BusOk, CursorOk

(* The steps of the session and of the flush thread that move the cursor.   *)
LEMMA CursorFrames ==
  ASSUME [Next]_vars
  PROVE  \/ HeaderAccepted \/ Publish \/ EndStream \/ SessionOpens
         \/ MergeSuppressed \/ MergeNothing \/ MergeChunks
         \/ UNCHANGED <<since, injection_generation, injection_sequence,
                        wait_for_next_stream, world, generation, next_sequence,
                        entries, streaming>>
<1> USE DEF sessVars, cursor, busVars
<1>1. CASE ClientConnects \/ HeaderRefused \/ Stale
  BY <1>1 DEF ClientConnects, HeaderRefused, Stale, BusFrame
<1>2. CASE SessionEnds \/ Pcm
  BY <1>2 DEF SessionEnds, Pcm
<1>3. CASE \/ \E on \in BOOLEAN : Interface(on) \/ Waveout(on)
           \/ \E b \in Buffers : SetBuffer(b)
  BY <1>3 DEF Interface, Waveout, SetBuffer, Command
<1>4. CASE TakeSnapshot \/ MakeTone \/ FlushWaits \/ FlushChunk \/ FlushConceals
             \/ FlushUnderflow \/ FlushSent
  BY <1>4 DEF TakeSnapshot, MakeTone, FlushWaits, FlushChunk, FlushConceals,
     FlushUnderflow, LookFrame, FlushSent
<1>5. CASE UNCHANGED vars
  BY <1>5 DEF vars
<1> QED
  BY <1>1, <1>2, <1>3, <1>4, <1>5 DEF Next, Flush, Inject

(* The cursor stays within the bus, and a session that is not waiting for   *)
(* the next stream has left nothing behind in the one it found.             *)
LEMMA CursorStep ==
  ASSUME BusOk, CursorOk, SnapshotOk, [Next]_vars PROVE CursorOk'
<1>0. /\ generation \in Nat /\ next_sequence \in Nat /\ since \in Nat
      /\ injection_generation \in Nat /\ injection_sequence \in Nat
      /\ world.streams \in Nat /\ world.published \in Nat
  BY CursorFacts
<1>1. CASE UNCHANGED <<since, injection_generation, injection_sequence,
                       wait_for_next_stream, world, generation, next_sequence,
                       entries, streaming>>
  BY <1>1 DEF CursorOk, NothingMissed
<1>2. CASE HeaderAccepted
  <2>1. /\ UNCHANGED <<since, injection_generation, injection_sequence, world>>
        /\ generation' = generation + 1
    BY <1>2 DEF HeaderAccepted, BusFrame, sessVars, cursor
  <2>2. generation' # since
    BY <1>0, <2>1 DEF CursorOk
  <2> QED
    BY <1>0, <2>1, <2>2 DEF CursorOk, NothingMissed
<1>3. CASE Publish
  <2>1. /\ UNCHANGED <<since, injection_generation, injection_sequence, world, generation,
                       wait_for_next_stream>>
        /\ streaming
    BY <1>3 DEF Publish, BusFrame, sessVars, cursor
  <2> QED
    BY <2>1 DEF CursorOk, NothingMissed
<1>4. CASE EndStream
  <2>1. /\ UNCHANGED <<since, injection_generation, injection_sequence, world, generation,
                       wait_for_next_stream, entries>>
        /\ streaming' = FALSE
    BY <1>4 DEF EndStream, BusFrame, sessVars, cursor
  <2> QED
    BY <2>1 DEF CursorOk, NothingMissed
<1>5. CASE SessionOpens
  <2>1. /\ UNCHANGED <<world, generation, entries, streaming>>
        /\ since' = generation /\ injection_generation' = generation
        /\ injection_sequence' = next_sequence - 1 /\ wait_for_next_stream' = streaming
    BY <1>5 DEF SessionOpens, busVars, WaitsForNext
  <2>2. injection_sequence' \in 0..world'.published
    BY <1>0, <2>1 DEF BusOk
  <2>3. \A i \in DOMAIN entries : entries[i] <= next_sequence - 1
    BY <1>0 DEF BusOk
  <2> QED
    BY <1>0, <2>1, <2>2, <2>3 DEF CursorOk, NothingMissed
<1>6. CASE MergeSuppressed \/ MergeNothing \/ MergeChunks
  <2>1. /\ flush = "merge" /\ injection_sequence' = snapshot.last
        /\ UNCHANGED <<since, world, generation, entries, streaming>>
    BY <1>6 DEF MergeSuppressed, MergeNothing, MergeChunks, MergePlayed, MergeFrame,
       sessVars, busVars
  <2>2. /\ snapshot.generation \in injection_generation..generation
        /\ snapshot.last \in Nat /\ snapshot.last <= world.published
        /\ snapshot.generation \in Nat
        /\ snapshot.generation = since /\ ~wait_for_next_stream =>
             snapshot.last = injection_sequence
    BY <2>1 DEF SnapshotOk, SnapshotOfBus
  <2>3. injection_sequence' \in 0..world'.published
    BY <1>0, <2>1, <2>2
  <2>4. CASE MergeSuppressed
    <3>1. UNCHANGED <<injection_generation, wait_for_next_stream>>
      BY <2>4 DEF MergeSuppressed
    <3>2. wait_for_next_stream
      BY <2>4 DEF MergeSuppressed, Suppressed
    <3> QED
      BY <2>1, <2>3, <3>1, <3>2 DEF CursorOk, NothingMissed
  <2>5. CASE MergeNothing \/ MergeChunks
    <3>1. /\ injection_generation' = snapshot.generation
          /\ wait_for_next_stream' = (wait_for_next_stream /\ ~NewStream)
      BY <2>5 DEF MergeNothing, MergeChunks, MergePlayed
    <3>2. injection_generation' \in 0..generation' /\ since' <= injection_generation'
      BY <1>0, <2>1, <2>2, <3>1 DEF CursorOk
    <3>3. ~Suppressed
      BY <2>5 DEF MergeNothing, MergeChunks, MergePlayed
    <3>4. ASSUME generation = since
          PROVE  /\ snapshot.generation = since /\ injection_generation = since
                 /\ ~wait_for_next_stream
      <4>1. snapshot.generation = since /\ injection_generation = since
        BY <1>0, <2>2, <3>4 DEF CursorOk
      <4> QED
        BY <3>3, <4>1 DEF Suppressed
    <3>5. NothingMissed'
      BY <2>1, <2>2, <3>4 DEF CursorOk, NothingMissed
    <3> QED
      BY <2>1, <2>3, <3>2, <3>5 DEF CursorOk
  <2> QED
    BY <1>6, <2>4, <2>5
<1> QED
  BY <1>1, <1>2, <1>3, <1>4, <1>5, <1>6, CursorFrames

(* A snapshot stays one of the bus until it is merged.                      *)
LEMMA SnapshotStep ==
  ASSUME BusOk, CursorOk, SnapshotOk, HandOk, Flags, Counts, [Next]_vars PROVE SnapshotOk'
<1>0. /\ generation \in Nat /\ next_sequence \in Nat /\ since \in Nat
      /\ injection_generation \in Nat /\ injection_sequence \in Nat
      /\ world.streams \in Nat /\ world.published \in Nat
  BY CursorFacts
<1>1. CASE flush' # "merge" /\ snapshot' \in {snapshot, NoSnapshot}
  <2>1. NoSnapshot \in [generation : Nat, last : Nat, active : BOOLEAN, chunks : Seq(Chunk)]
    BY EmptyQueue DEF NoSnapshot
  <2> QED
    BY <1>1, <2>1 DEF SnapshotOk, SnapshotOfBus
<1>2. CASE /\ UNCHANGED <<flush, snapshot, injection_generation, injection_sequence, since,
                          wait_for_next_stream, world>>
           /\ generation' \in Nat /\ generation <= generation'
  <2>1. flush = "merge" => snapshot.generation \in injection_generation'..generation'
    BY <1>0, <1>2 DEF SnapshotOk, SnapshotOfBus
  <2> QED
    BY <1>2, <2>1 DEF SnapshotOk, SnapshotOfBus
<1>3. CASE ClientConnects \/ HeaderRefused \/ HeaderAccepted \/ Publish \/ EndStream \/ Stale
  <2>1. generation' \in {generation, generation + 1}
    BY <1>3 DEF ClientConnects, HeaderRefused, HeaderAccepted, Publish, EndStream, Stale
  <2> QED
    BY <1>0, <1>2, <1>3, <2>1 DEF ClientConnects, HeaderRefused, HeaderAccepted, Publish,
       EndStream, Stale, BusFrame, sessVars, cursor, flushVars
<1>4. CASE SessionOpens \/ SessionEnds
  BY <1>1, <1>4 DEF SessionOpens, SessionEnds, flushVars
<1>5. CASE \/ \E on \in BOOLEAN : Interface(on) \/ Waveout(on)
           \/ \E b \in Buffers : SetBuffer(b)
  BY <1>0, <1>2, <1>5 DEF Interface, Waveout, SetBuffer, Command, busVars, sessVars, cursor,
     flushVars
<1>6. CASE Pcm
  BY <1>0, <1>2, <1>6 DEF Pcm, busVars, sessVars, cursor, flushVars
<1>7. CASE TakeSnapshot
  <2>1. /\ flush' = "merge" /\ snapshot' = After(injection_generation, injection_sequence)
        /\ UNCHANGED <<generation, injection_generation, injection_sequence, since, world,
                       wait_for_next_stream>>
    BY <1>7 DEF TakeSnapshot, busVars, sessVars, cursor
  <2>2. MaxPending \in Nat \ {0}
    BY AudioAssumption DEF MaxPending, Counts
  <2>3. entries \in Seq(Nat) /\ streaming \in BOOLEAN /\ fresh \in BOOLEAN
    BY DEF BusOk, Flags
  <2>4. /\ snapshot' \in [generation : Nat, last : Nat, active : BOOLEAN, chunks : Seq(Chunk)]
        /\ snapshot'.generation = generation
        /\ \A i \in DOMAIN snapshot'.chunks : snapshot'.chunks[i].gen = generation
        /\ \/ snapshot'.last \in {injection_sequence, 0}
           \/ \E i \in DOMAIN entries : snapshot'.last = entries[i]
        /\ injection_generation = generation
             /\ (\A i \in DOMAIN entries : entries[i] <= injection_sequence) =>
             snapshot'.chunks = <<>> /\ snapshot'.last = injection_sequence
    BY <1>0, <2>1, <2>2, <2>3, SnapshotFacts
  <2>5. snapshot'.last <= world.published
    <3>1. \A i \in DOMAIN entries : entries[i] <= world.published
      BY <1>0 DEF BusOk
    <3> QED
      BY <1>0, <2>4, <3>1 DEF CursorOk
  <2>6. generation \in injection_generation..generation
    BY <1>0 DEF CursorOk
  <2>7. ASSUME generation = since, ~wait_for_next_stream
        PROVE  snapshot'.chunks = <<>> /\ snapshot'.last = injection_sequence
    <3>1. injection_generation = generation
      BY <1>0, <2>7 DEF CursorOk
    <3> QED
      BY <2>4, <2>7, <3>1 DEF CursorOk, NothingMissed
  <2> QED
    BY <2>1, <2>4, <2>5, <2>6, <2>7 DEF SnapshotOk, SnapshotOfBus
<1>8. CASE MergeSuppressed \/ MergeNothing \/ MergeChunks
  BY <1>1, <1>8 DEF MergeSuppressed, MergeNothing, MergeChunks, MergePlayed, MergeFrame
<1>9. CASE MakeTone \/ FlushWaits \/ FlushChunk \/ FlushConceals \/ FlushUnderflow \/ FlushSent
  BY <1>1, <1>9 DEF MakeTone, FlushWaits, FlushChunk, FlushConceals, FlushUnderflow,
     LookFrame, FlushSent
<1>10. CASE UNCHANGED vars
  BY <1>0, <1>2, <1>10 DEF vars, busVars, sessVars, cursor, flushVars
<1> QED
  BY <1>3, <1>4, <1>5, <1>6, <1>7, <1>8, <1>9, <1>10 DEF Next, Flush, Inject

-----------------------------------------------------------------------------
(* The invariant: what is left.                                             *)

LEMMA Remainder == \A a \in Nat, b \in Nat \ {0} : a % b \in 0 .. b - 1
OBVIOUS

LEMMA CountsStep ==
  ASSUME BusOk, Counts, [Next]_vars PROVE Counts'
<1> USE DEF Counts, busVars, sessVars, usbVars, ctlVars, flushVars
<1>0. /\ world.window \in Nat \ {0} /\ world.frames \in Nat
      /\ world.commands \in Nat /\ world.sessions \in Nat
  BY WorldFacts DEF BusOk
<1>1. CASE ClientConnects \/ HeaderRefused \/ HeaderAccepted \/ Publish \/ EndStream \/ Stale
  BY <1>1 DEF ClientConnects, HeaderRefused, HeaderAccepted, Publish, EndStream, Stale, BusFrame
<1>2. CASE SessionOpens
  BY <1>0, <1>2 DEF SessionOpens
<1>3. CASE SessionEnds
  BY <1>3 DEF SessionEnds
<1>4. ASSUME NEW on \in BOOLEAN, Interface(on) PROVE Counts'
  BY <1>0, <1>4 DEF Interface, Command
<1>5. ASSUME NEW on \in BOOLEAN, Waveout(on) PROVE Counts'
  BY <1>0, <1>5 DEF Waveout, Command
<1>6. ASSUME NEW b \in Buffers, SetBuffer(b) PROVE Counts'
  BY <1>0, <1>6 DEF SetBuffer, Command
<1>7. CASE Pcm
  <2> DEFINE reset  == ~audio_out_stream_active \/ waveout_active
             filled == (IF reset THEN 0 ELSE partial) + 1
  <2>1. /\ UNCHANGED <<world, sessions, buffer, commands, flush>>
        /\ frames < world.frames /\ frames' = frames + 1 /\ partial' = filled % world.window
    BY <1>7 DEF Pcm
  <2>2. filled \in Nat
    BY <1>0
  <2> HIDE DEF filled
  <2>3. partial' \in 0..world.window - 1
    BY <1>0, <2>1, <2>2, Remainder
  <2>4. frames' \in 0..world.frames
    BY <1>0, <2>1
  <2> QED
    BY <2>1, <2>3, <2>4
<1>8. CASE TakeSnapshot \/ MergeSuppressed \/ MergeNothing \/ MergeChunks \/ MakeTone
             \/ FlushWaits \/ FlushChunk \/ FlushConceals \/ FlushUnderflow \/ FlushSent
  BY <1>8 DEF TakeSnapshot, MergeSuppressed, MergeNothing, MergeChunks, MergePlayed,
     MergeFrame, MakeTone, FlushWaits, FlushChunk, FlushConceals, FlushUnderflow,
     LookFrame, FlushSent
<1>9. CASE UNCHANGED vars
  BY <1>9 DEF vars
<1> QED
  BY <1>1, <1>2, <1>3, <1>4, <1>5, <1>6, <1>7, <1>8, <1>9 DEF Next, Flush, Inject

LEMMA FlagsStep ==
  ASSUME Flags, SnapshotOk, [Next]_vars PROVE Flags'
<1> USE DEF Flags, busVars, sessVars, cursor, active, usbVars, queue, ctlVars, flushVars, history
<1>1. CASE ClientConnects \/ HeaderRefused \/ Stale
  BY <1>1 DEF ClientConnects, HeaderRefused, Stale, BusFrame
<1>2. CASE HeaderAccepted \/ Publish \/ EndStream
  BY <1>2 DEF HeaderAccepted, Publish, EndStream, BusFrame
<1>3. CASE SessionOpens
  BY <1>3 DEF SessionOpens, WaitsForNext
<1>4. CASE SessionEnds
  BY <1>4 DEF SessionEnds
<1>5. ASSUME NEW on \in BOOLEAN, Interface(on) PROVE Flags'
  BY <1>5 DEF Interface, Command
<1>6. ASSUME NEW on \in BOOLEAN, Waveout(on) PROVE Flags'
  BY <1>6 DEF Waveout, Command
<1>7. ASSUME NEW b \in Buffers, SetBuffer(b) PROVE Flags'
  BY <1>7 DEF SetBuffer, Command
<1>8. CASE Pcm
  BY <1>8 DEF Pcm
<1>9. CASE TakeSnapshot
  BY <1>9 DEF TakeSnapshot
<1>10. CASE MergeSuppressed
  BY <1>10 DEF MergeSuppressed, MergeFrame
<1>11. CASE MergeNothing
  <2>1. snapshot.active \in BOOLEAN
    BY DEF SnapshotOk
  <2> QED
    BY <1>11, <2>1 DEF MergeNothing, MergePlayed, MergeFrame
<1>12. CASE MergeChunks
  <2>1. snapshot.active \in BOOLEAN
    BY DEF SnapshotOk
  <2> QED
    BY <1>12, <2>1 DEF MergeChunks, MergePlayed, MergeFrame
<1>13. CASE MakeTone
  BY <1>13 DEF MakeTone
<1>14. CASE FlushWaits
  BY <1>14 DEF FlushWaits, LookFrame
<1>15. CASE FlushChunk
  BY <1>15 DEF FlushChunk, LookFrame
<1>16. CASE FlushConceals
  BY <1>16 DEF FlushConceals, LookFrame
<1>17. CASE FlushUnderflow
  BY <1>17 DEF FlushUnderflow, LookFrame
<1>18. CASE FlushSent
  BY <1>18 DEF FlushSent
<1>19. CASE UNCHANGED vars
  BY <1>19 DEF vars
<1> QED
  BY <1>1, <1>2, <1>3, <1>4, <1>5, <1>6, <1>7, <1>8, <1>9, <1>10, <1>11, <1>12, <1>13, <1>14,
     <1>15, <1>16, <1>17, <1>18, <1>19 DEF Next, Flush, Inject

-----------------------------------------------------------------------------
(* The theorems.                                                            *)

LEMMA InitInv == Init => PathInv
<1> SUFFICES ASSUME Init PROVE PathInv
  OBVIOUS
<1>0. /\ world \in Worlds /\ RingChunks \in Nat
      /\ world.window \in Nat \ {0} /\ world.frames \in Nat /\ world.streams \in Nat
      /\ world.published \in Nat /\ world.commands \in Nat /\ world.sessions \in Nat
  BY WorldFacts, AudioAssumption DEF Init
<1>1. QueueOk
  BY EmptyQueue, NoneBounded DEF Init, QueueOk
<1>2. HandOk
  BY ChunkTypes DEF Init, HandOk, Nothing
<1>3. BusOk
  <2>1. <<>> \in Seq(Nat) /\ Len(<<>>) = 0 /\ DOMAIN <<>> = {}
    BY LenProperties
  <2> QED
    BY <1>0, <2>1 DEF Init, BusOk
<1>4. CursorOk
  <2>1. DOMAIN <<>> = {}
    OBVIOUS
  <2> QED
    BY <1>0, <2>1 DEF Init, CursorOk, NothingMissed
<1>5. SnapshotOk
  <2>1. <<>> \in Seq(Chunk)
    OBVIOUS
  <2> QED
    BY <2>1 DEF Init, SnapshotOk, SnapshotOfBus, NoSnapshot
<1>6. Flags
  BY DEF Init, Flags
<1>7. Counts
  BY <1>0 DEF Init, Counts
<1> QED
  BY <1>1, <1>2, <1>3, <1>4, <1>5, <1>6, <1>7, Parts

LEMMA NextInv == PathInv /\ [Next]_vars => PathInv'
<1> SUFFICES ASSUME PathInv, [Next]_vars PROVE PathInv'
  OBVIOUS
<1>1. QueueOk /\ HandOk /\ BusOk /\ CursorOk /\ SnapshotOk /\ Flags /\ Counts
  BY Parts
<1>2. QueueOk' /\ HandOk' /\ BusOk' /\ CursorOk' /\ SnapshotOk' /\ Flags' /\ Counts'
  BY <1>1, QueueStep, HandStep, BusStep, CursorStep, SnapshotStep, FlagsStep, CountsStep
<1>3. TypeOK'
  BY <1>2 DEF TypeOK, QueueOk, HandOk, BusOk, CursorOk, SnapshotOk, Flags, Counts, Bounded
<1>4. NoSilentJoin'
  BY <1>2, Holdings DEF QueueOk, HandOk, NoSilentJoin, NoneUpTo
<1> QED
  BY <1>2, <1>3, <1>4 DEF PathInv, HandOk, BusOk, CursorOk, SnapshotOk

(* PathInv holds throughout.                                                *)
THEOREM PathInvariant == Spec => []PathInv
BY InitInv, NextInv, PTL DEF Spec

(* The types of the audio path, and with them its bounds: the ring of the   *)
(* bus never holds more than kAudioInjectionRingChunks, and the queue never *)
(* more than the largest setting of the buffer and its slack allow, though  *)
(* the setting changes under a queue that is filled from three sides.       *)
THEOREM PathTypes == Spec => []TypeOK
<1>1. PathInv => TypeOK
  BY DEF PathInv
<1> QED
  BY <1>1, PathInvariant, PTL

(* A session never plays a stream that was going on when it subscribed to   *)
(* the bus, however publisher, session and flush thread take turns.         *)
THEOREM NobodyJoinsSilently == Spec => []NoSilentJoin
<1>1. PathInv => NoSilentJoin
  BY DEF PathInv
<1> QED
  BY <1>1, PathInvariant, PTL
-----------------------------------------------------------------------------
(* The order of what is sent: queues in order.                              *)

LEMMA BehindAgain ==
  ASSUME NEW c \in Chunk, NEW d \in Chunk, NEW k \in Chunk, NEW m \in BOOLEAN,
         Behind(c, k, m), Within(d, k, m)
  PROVE  Behind(c, d, m)
BY DEF Behind, Within, Later, Chunk

LEMMA WithinAgain ==
  ASSUME NEW c \in Chunk, NEW d \in Chunk, NEW k \in Chunk, NEW m \in BOOLEAN,
         Within(c, k, m), Within(k, d, m)
  PROVE  Within(c, d, m)
BY DEF Within, Later, Chunk

(* Whatever leads to r, r ends as q does.                                   *)
EndOf(r, q) ==
  /\ r \in Seq(Chunk)
  /\ \E d \in 0 .. Len(q) : Len(r) = Len(q) - d /\ \A i \in 1 .. Len(r) : r[i] = q[i + d]

LEMMA EndIsOrderly ==
  ASSUME NEW q \in Seq(Chunk), NEW h, NEW s, NEW k, NEW m, Orderly(q, h, s, k, m),
         NEW r, EndOf(r, q)
  PROVE  Orderly(r, h, s, k, m)
<1>1. Len(q) \in Nat /\ Len(r) \in Nat
  BY LenProperties DEF EndOf
<1>2. PICK d \in 0 .. Len(q) : Len(r) = Len(q) - d /\ \A i \in 1 .. Len(r) : r[i] = q[i + d]
  BY DEF EndOf
<1>3. \A i \in 1 .. Len(r) : i + d \in 1 .. Len(q) /\ (i > 1 => i + d > 1)
  BY <1>1, <1>2
<1>4. \A i, j \in 1 .. Len(r) : i < j => i + d < j + d
  BY <1>1, <1>2
<1> QED
  BY <1>2, <1>3, <1>4 DEF Orderly

LEMMA NoChunks == \A q \in Seq(Chunk) : EndOf(<<>>, q) /\ EndOf(q, q)
<1> SUFFICES ASSUME NEW q \in Seq(Chunk) PROVE EndOf(<<>>, q) /\ EndOf(q, q)
  OBVIOUS
<1>1. Len(q) \in Nat /\ Len(<<>>) = 0 /\ <<>> \in Seq(Chunk)
  BY LenProperties
<1>2. EndOf(<<>>, q)
  <2>1. Len(q) \in 0 .. Len(q) /\ Len(<<>>) = Len(q) - Len(q)
    BY <1>1
  <2>2. \A i \in 1 .. Len(<<>>) : <<>>[i] = q[i + Len(q)]
    BY <1>1
  <2> QED
    BY <1>1, <2>1, <2>2 DEF EndOf
<1>3. EndOf(q, q)
  <2>1. 0 \in 0 .. Len(q) /\ Len(q) = Len(q) - 0 /\ \A i \in 1 .. Len(q) : q[i] = q[i + 0]
    BY <1>1
  <2> QED
    BY <2>1 DEF EndOf
<1> QED
  BY <1>2, <1>3

LEMMA LaterEnd ==
  ASSUME NEW q \in Seq(Chunk), NEW n \in 1 .. Len(q) + 1
  PROVE  EndOf(SubSeq(q, n, Len(q)), q)
<1>1. Len(q) \in Nat /\ \A i \in 1 .. Len(q) : q[i] \in Chunk
  BY LenProperties, ElementOfSeq
<1>2. \A i \in n .. Len(q) : q[i] \in Chunk
  BY <1>1
<1>3. /\ SubSeq(q, n, Len(q)) \in Seq(Chunk)
      /\ Len(SubSeq(q, n, Len(q))) = IF n <= Len(q) THEN Len(q) - n + 1 ELSE 0
      /\ \A i \in 1 .. Len(q) - n + 1 : SubSeq(q, n, Len(q))[i] = q[n + i - 1]
  BY <1>1, <1>2, SubSeqProperties
<1>4. Len(SubSeq(q, n, Len(q))) = Len(q) - n + 1 /\ n - 1 \in 0 .. Len(q)
  BY <1>1, <1>3
<1>5. Len(q) - n + 1 = Len(q) - (n - 1) /\ \A i \in 1 .. Len(q) - n + 1 : n + i - 1 = i + (n - 1)
  BY <1>1
<1>6. \A i \in 1 .. Len(q) - n + 1 : SubSeq(q, n, Len(q))[i] = q[i + (n - 1)]
  BY <1>3, <1>5
<1> QED
  BY <1>3, <1>4, <1>5, <1>6 DEF EndOf

LEMMA TailEnd ==
  ASSUME NEW q \in Seq(Chunk), q # <<>>
  PROVE  EndOf(Tail(q), q)
<1>1. /\ Tail(q) \in Seq(Chunk) /\ Len(q) \in Nat \ {0} /\ Len(Tail(q)) = Len(q) - 1
      /\ \A i \in 1 .. Len(Tail(q)) : Tail(q)[i] = q[i + 1]
  BY TailOf
<1>2. 1 \in 0 .. Len(q)
  BY <1>1
<1> QED
  BY <1>1, <1>2 DEF EndOf

(* Time goes on: more may have been made, mixed or taken in hand.           *)
LEMMA StaysOrderly ==
  ASSUME NEW q \in Seq(Chunk), NEW h \in BOOLEAN, NEW g \in BOOLEAN, h => g,
         NEW s \in Chunk, NEW k \in Chunk, NEW l \in Chunk,
         NEW m \in BOOLEAN, NEW n \in BOOLEAN, m => n,
         Orderly(q, h, s, k, m), Within(k, l, n)
  PROVE  Orderly(q, g, s, l, n)
<1>1. Len(q) \in Nat /\ \A i \in 1 .. Len(q) : q[i] \in Chunk
  BY LenProperties, ElementOfSeq
<1>2. \A c, d : /\ Behind(c, d, m) => Behind(c, d, n)
                /\ Within(c, d, m) => Within(c, d, n)
  BY DEF Behind, Within
<1>3. \A c \in Chunk : Within(c, k, m) => Within(c, l, n)
  BY <1>2, WithinAgain
<1> QED
  BY <1>1, <1>2, <1>3 DEF Orderly

(* What comes after all that has been made joins the end of the queue.      *)
LEMMA JoinedOrderly ==
  ASSUME NEW q \in Seq(Chunk), NEW cs \in Seq(Chunk), NEW h,
         NEW s \in Chunk, NEW k \in Chunk, NEW l \in Chunk, NEW m \in BOOLEAN,
         Orderly(q, h, s, k, m), Within(k, l, m),
         \A i, j \in 1 .. Len(cs) : i < j => Behind(cs[j], cs[i], m),
         \A i \in 1 .. Len(cs) : Behind(cs[i], k, m) /\ Within(cs[i], l, m)
  PROVE  Orderly(q \o cs, h, s, l, m)
<1> DEFINE all == q \o cs
<1>1. /\ Len(q) \in Nat /\ \A i \in 1 .. Len(q) : q[i] \in Chunk
      /\ Len(cs) \in Nat /\ \A i \in 1 .. Len(cs) : cs[i] \in Chunk
  BY LenProperties, ElementOfSeq
<1>2. /\ Len(all) = Len(q) + Len(cs)
      /\ \A i \in 1 .. Len(q) + Len(cs) : all[i] = IF i <= Len(q) THEN q[i] ELSE cs[i - Len(q)]
  BY ConcatProperties
<1>3. \A i \in 1 .. Len(all) :
        \/ i \in 1 .. Len(q) /\ all[i] = q[i]
        \/ i > Len(q) /\ i - Len(q) \in 1 .. Len(cs) /\ all[i] = cs[i - Len(q)]
  BY <1>1, <1>2
<1> HIDE DEF all
<1>4. /\ \A i \in 1 .. Len(q) : Within(q[i], k, m) /\ Within(q[i], l, m)
      /\ Within(s, k, m) /\ Within(s, l, m)
  BY <1>1, WithinAgain DEF Orderly
<1>5. /\ \A i \in 1 .. Len(cs) : Behind(cs[i], s, m)
      /\ \A i \in 1 .. Len(q), j \in 1 .. Len(cs) : Behind(cs[j], q[i], m)
  BY <1>1, <1>4, BehindAgain
<1>6. \A i \in 1 .. Len(all) : Within(all[i], l, m)
  BY <1>3, <1>4
<1>7. \A i \in 1 .. Len(all) : i > 1 \/ ~h => Behind(all[i], s, m)
  BY <1>3, <1>5 DEF Orderly
<1>8. ASSUME NEW i \in 1 .. Len(all), NEW j \in 1 .. Len(all), i < j
      PROVE  Behind(all[j], all[i], m)
  <2>1. CASE j \in 1 .. Len(q) /\ all[j] = q[j]
    <3>1. i \in 1 .. Len(q) /\ all[i] = q[i]
      BY <1>1, <1>3, <1>8, <2>1
    <3> QED
      BY <1>8, <2>1, <3>1 DEF Orderly
  <2>2. CASE j > Len(q) /\ j - Len(q) \in 1 .. Len(cs) /\ all[j] = cs[j - Len(q)]
    <3>1. CASE i \in 1 .. Len(q) /\ all[i] = q[i]
      BY <1>5, <2>2, <3>1
    <3>2. CASE i > Len(q) /\ i - Len(q) \in 1 .. Len(cs) /\ all[i] = cs[i - Len(q)]
      <4>1. i - Len(q) < j - Len(q)
        BY <1>1, <1>8
      <4> QED
        BY <2>2, <3>2, <4>1
    <3> QED
      BY <1>3, <3>1, <3>2
  <2> QED
    BY <1>3, <2>1, <2>2
<1> QED
  BY <1>4, <1>6, <1>7, <1>8 DEF Orderly, all

LEMMA PushedOrderly ==
  ASSUME NEW q \in Seq(Chunk), NEW cs \in Seq(Chunk), NEW h, NEW s, NEW k, NEW m,
         Orderly(q \o cs, h, s, k, m), MaxPending \in Nat
  PROVE  Orderly(Push(q, cs), h, s, k, m)
<1> DEFINE all  == q \o cs
           keep == IF Len(q) > MaxPending THEN Len(q) ELSE MaxPending
           late == SubSeq(all, Len(all) - keep + 1, Len(all))
<1>1. all \in Seq(Chunk) /\ Len(all) \in Nat /\ Len(q) \in Nat
  BY ConcatProperties, LenProperties
<1>2. keep \in Nat
  BY <1>1
<1>3. Push(q, cs) = IF Len(all) > keep THEN late ELSE all
  BY DEF Push
<1>4. Orderly(all, h, s, k, m)
  OBVIOUS
<1> HIDE DEF all, keep
<1>5. CASE Len(all) > keep
  <2>1. Len(all) - keep + 1 \in 1 .. Len(all) + 1
    BY <1>1, <1>2, <1>5
  <2>2. EndOf(late, all)
    BY <1>1, <2>1, LaterEnd
  <2> HIDE DEF late
  <2> QED
    BY <1>1, <1>3, <1>4, <1>5, <2>2, EndIsOrderly
<1>6. CASE ~(Len(all) > keep)
  BY <1>3, <1>4, <1>6
<1> QED
  BY <1>5, <1>6

(* The front is taken in hand, and what was sent last is told by it.        *)
Told(c, s) ==
  [usb |-> IF c.usb > 0 THEN c.usb ELSE s.usb,
   gen |-> IF c.gen > 0 THEN c.gen ELSE s.gen,
   seq |-> IF c.gen > 0 THEN c.seq ELSE s.seq]

LEMMA TakenOrderly ==
  ASSUME NEW q \in Seq(Chunk), q # <<>>, NEW s \in Chunk, NEW k \in Chunk, NEW m \in BOOLEAN,
         Orderly(q, FALSE, s, k, m)
  PROVE  /\ Head(q) \in Chunk /\ Behind(Head(q), s, m) /\ Told(Head(q), s) \in Chunk
         /\ Orderly(q, TRUE, Told(Head(q), s), k, m)
<1>1. /\ Head(q) = q[1] /\ Len(q) \in Nat \ {0} /\ 1 \in 1 .. Len(q)
      /\ \A i \in 1 .. Len(q) : q[i] \in Chunk
  BY TailOf, ElementOfSeq
<1>2. Behind(Head(q), s, m) /\ Within(Head(q), k, m) /\ Within(s, k, m)
  BY <1>1 DEF Orderly
<1>3. ASSUME NEW c \in Chunk, NEW d \in Chunk
      PROVE  /\ Told(c, d) \in Chunk
             /\ Within(c, k, m) /\ Within(d, k, m) => Within(Told(c, d), k, m)
             /\ \A e : Behind(e, c, m) /\ Behind(e, d, m) => Behind(e, Told(c, d), m)
  <2>1. /\ Told(c, d) \in Chunk
        /\ Told(c, d).usb = IF c.usb > 0 THEN c.usb ELSE d.usb
        /\ Told(c, d).gen = IF c.gen > 0 THEN c.gen ELSE d.gen
        /\ Told(c, d).seq = IF c.gen > 0 THEN c.seq ELSE d.seq
    BY DEF Told, Chunk
  <2> QED
    BY <2>1 DEF Within, Behind
<1>4. \A i \in 1 .. Len(q) : i > 1 => Behind(q[i], Head(q), m) /\ Behind(q[i], s, m)
  BY <1>1 DEF Orderly
<1>5. \A i \in 1 .. Len(q) : i > 1 => Behind(q[i], Told(Head(q), s), m)
  BY <1>1, <1>3, <1>4
<1> QED
  BY <1>1, <1>2, <1>3, <1>5 DEF Orderly

(* Then it goes, or another one that has come to the front instead.         *)
LEMMA GoneOrderly ==
  ASSUME NEW q \in Seq(Chunk), NEW h, NEW s, NEW k, NEW m, Orderly(q, h, s, k, m)
  PROVE  /\ q = <<>> => Orderly(q, FALSE, s, k, m)
         /\ q # <<>> => Orderly(Tail(q), FALSE, s, k, m)
<1>1. CASE q = <<>>
  <2>1. Len(q) = 0
    BY <1>1
  <2> QED
    BY <1>1, <2>1 DEF Orderly
<1>2. CASE q # <<>>
  <2>1. /\ Len(q) \in Nat \ {0} /\ Len(Tail(q)) = Len(q) - 1
        /\ \A i \in 1 .. Len(Tail(q)) : Tail(q)[i] = q[i + 1] /\ i + 1 \in 2 .. Len(q)
    BY <1>2, TailOf
  <2>2. \A i \in 1 .. Len(Tail(q)) : i + 1 \in 1 .. Len(q) /\ i + 1 > 1
    BY <2>1
  <2>3. \A i, j \in 1 .. Len(Tail(q)) : i < j => i + 1 < j + 1
    BY <2>1
  <2> QED
    BY <1>2, <2>1, <2>2, <2>3 DEF Orderly
<1> QED
  BY <1>1, <1>2

(* Haptics mixed in leave the order of the host's audio.                    *)
LEMMA MixedOrderly ==
  ASSUME NEW q \in Seq(Chunk), NEW r \in Seq(Chunk), NEW h \in BOOLEAN, NEW s, NEW k,
         NEW m \in BOOLEAN, Orderly(q, h, s, k, m), Len(r) = Len(q),
         \A i \in 1 .. Len(q) : r[i].usb = q[i].usb
  PROVE  Orderly(r, h, s, k, TRUE)
<1>1. \A c, d, a, b :
        /\ a.usb = c.usb /\ b.usb = d.usb /\ Behind(c, d, m) => Behind(a, b, TRUE)
        /\ a.usb = c.usb /\ Within(c, d, m) => Within(a, d, TRUE)
  BY DEF Behind, Within
<1>2. \A c, d : /\ Behind(c, d, m) => Behind(c, d, TRUE)
                /\ Within(c, d, m) => Within(c, d, TRUE)
  BY <1>1
<1>3. \A i, j \in 1 .. Len(r) : i < j => Behind(r[j], r[i], TRUE)
  BY <1>1 DEF Orderly
<1>4. /\ \A i \in 1 .. Len(r) : i > 1 \/ ~h => Behind(r[i], s, TRUE)
      /\ \A i \in 1 .. Len(r) : Within(r[i], k, TRUE)
      /\ Within(s, k, TRUE)
  BY <1>1, <1>2 DEF Orderly
<1> QED
  BY <1>3, <1>4 DEF Orderly

-----------------------------------------------------------------------------
(* The order of what is sent: bus and snapshot.                             *)

Ascending(es) == \A i, j \in DOMAIN es : i < j => es[i] < es[j]

LEMMA PublishAscends ==
  ASSUME BusOk, Ascending(entries), Publish PROVE Ascending(entries')
<1> DEFINE es == Append(entries, next_sequence)
<1>1. /\ entries \in Seq(Nat) /\ Len(entries) \in Nat /\ DOMAIN entries = 1 .. Len(entries)
      /\ next_sequence \in Nat /\ \A i \in 1 .. Len(entries) : entries[i] \in Nat
      /\ \A i \in 1 .. Len(entries) : entries[i] < next_sequence
  <2>1. /\ entries \in Seq(Nat) /\ next_sequence \in Nat
        /\ \A i \in DOMAIN entries : entries[i] \in 1 .. next_sequence - 1
    BY WorldFacts DEF BusOk
  <2> QED
    BY <2>1, LenProperties, ElementOfSeq
<1>2. entries' = IF Len(es) > RingChunks THEN Tail(es) ELSE es
  BY DEF Publish, Ring
<1>3. /\ es \in Seq(Nat) /\ es # <<>> /\ Len(es) = Len(entries) + 1
      /\ \A i \in 1 .. Len(entries) : es[i] = entries[i]
      /\ es[Len(entries) + 1] = next_sequence
  <2>1. /\ es \in Seq(Nat) /\ Len(es) = Len(entries) + 1
        /\ \A i \in 1 .. Len(entries) : es[i] = entries[i]
        /\ es[Len(entries) + 1] = next_sequence
    BY <1>1, AppendOf
  <2> HIDE DEF es
  <2>2. Len(es) # 0
    BY <1>1, <2>1
  <2> QED
    BY <2>1, <2>2, EmptySeq
<1> HIDE DEF es
<1>4. \A i, j \in 1 .. Len(es) : i < j => es[i] < es[j]
  <2>1. \A i \in 1 .. Len(es) : i \in 1 .. Len(entries) \/ i = Len(entries) + 1
    BY <1>1, <1>3
  <2>2. \A i, j \in 1 .. Len(entries) : i < j => es[i] < es[j]
    BY <1>1, <1>3 DEF Ascending
  <2>3. \A i \in 1 .. Len(entries) : es[i] < next_sequence
    BY <1>1, <1>3
  <2> SUFFICES ASSUME NEW i \in 1 .. Len(es), NEW j \in 1 .. Len(es), i < j
               PROVE  es[i] < es[j]
    OBVIOUS
  <2>4. i \in 1 .. Len(entries)
    BY <1>1, <1>3
  <2> QED
    BY <1>3, <2>1, <2>2, <2>3, <2>4
<1>5. DOMAIN es = 1 .. Len(es)
  BY <1>3, LenProperties
<1>6. CASE entries' = es
  BY <1>4, <1>5, <1>6 DEF Ascending
<1>7. CASE entries' = Tail(es)
  <2>1. /\ Tail(es) \in Seq(Nat) /\ Len(es) \in Nat \ {0} /\ Len(Tail(es)) = Len(es) - 1
        /\ \A i \in 1 .. Len(Tail(es)) : Tail(es)[i] = es[i + 1] /\ i + 1 \in 2 .. Len(es)
    BY <1>3, TailOf
  <2>2. DOMAIN Tail(es) = 1 .. Len(Tail(es))
    BY <2>1, LenProperties
  <2>3. /\ \A i \in 1 .. Len(Tail(es)) : i + 1 \in 1 .. Len(es)
        /\ \A i, j \in 1 .. Len(Tail(es)) : i < j => i + 1 < j + 1
    BY <2>1
  <2> QED
    BY <1>4, <1>7, <2>1, <2>2, <2>3 DEF Ascending
<1> QED
  BY <1>2, <1>6, <1>7

(* A snapshot holds the entries after the cursor, in their order, and its   *)
(* own cursor is no earlier.                                                *)
LEMMA SnapshotOrder ==
  ASSUME NEW g \in Nat, NEW s \in Nat, entries \in Seq(Nat), generation \in Nat,
         Ascending(entries), MaxPending \in Nat \ {0}
  PROVE  LET a == After(g, s) IN
         /\ \A i, j \in 1 .. Len(a.chunks) : i < j => a.chunks[i].seq < a.chunks[j].seq
         /\ \A i \in 1 .. Len(a.chunks) :
              /\ a.chunks[i].usb = 0 /\ a.chunks[i].seq <= a.last
              /\ g = generation => a.chunks[i].seq > s
         /\ g = generation => s <= a.last
<1> DEFINE from == IF g = generation THEN s ELSE 0
           old  == {i \in DOMAIN entries : entries[i] <= from}
           seen == Cardinality(old)
           new  == IF Len(entries) - seen > MaxPending THEN MaxPending ELSE Len(entries) - seen
           chunks == [i \in 1 .. new |-> Injected(generation, entries[Len(entries) - new + i])]
           last == IF new = 0 THEN from ELSE entries[Len(entries)]
<1>1. /\ DOMAIN entries = 1 .. Len(entries) /\ Len(entries) \in Nat
      /\ \A i \in 1 .. Len(entries) : entries[i] \in Nat
  BY LenProperties, ElementOfSeq
<1>2. /\ \A n \in Nat : IsFiniteSet(1 .. n) /\ Cardinality(1 .. n) = n
  BY FS_Interval
<1>3. old \subseteq 1 .. Len(entries)
  BY <1>1
<1>4. seen \in Nat /\ seen <= Len(entries)
  BY <1>1, <1>2, <1>3, FS_Subset, FS_CardinalityType
<1>5. from \in Nat /\ (g = generation => from = s)
  OBVIOUS
<1>6. After(g, s).chunks = chunks /\ After(g, s).last = last
  BY DEF After
<1>7. ASSUME NEW j \in 1 .. Len(entries), j > seen PROVE entries[j] > from
  <2> SUFFICES ASSUME entries[j] <= from PROVE FALSE
    BY <1>1, <1>5
  <2>0. \A i \in 1 .. Len(entries) : i < j => entries[i] < entries[j]
    BY <1>1 DEF Ascending
  <2>1. ASSUME NEW i \in 1 .. j PROVE i \in 1 .. Len(entries) /\ entries[i] <= entries[j]
    <3>1. i \in 1 .. Len(entries) /\ (i < j \/ i = j)
      BY <1>1
    <3> QED
      BY <1>1, <2>0, <3>1
  <2>2. 1 .. j \subseteq old
    BY <1>1, <1>5, <2>1
  <2>3. j \in Nat /\ IsFiniteSet(old)
    BY <1>1, <1>2, <1>3, FS_Subset
  <2>4. j <= seen
    BY <1>2, <2>2, <2>3, FS_Subset
  <2> QED
    BY <1>4, <1>7, <2>3, <2>4
<1> HIDE DEF from, old, seen
<1>8. new \in 0 .. Len(entries) /\ new \in Nat /\ new <= Len(entries) - seen
  BY <1>1, <1>4
<1> HIDE DEF new
<1>9. \A i \in 1 .. new : /\ Len(entries) - new + i \in 1 .. Len(entries)
                          /\ Len(entries) - new + i > seen
  BY <1>1, <1>4, <1>8
<1>10. /\ \A i \in 1 .. new : /\ chunks[i] \in Chunk
                              /\ chunks[i].usb = 0
                              /\ chunks[i].seq = entries[Len(entries) - new + i]
  BY <1>1, <1>9 DEF Injected, Tone, Chunk
<1>11. Len(chunks) = new
  <2>1. chunks \in [1 .. new -> Chunk]
    BY <1>10
  <2> QED
    BY <1>8, <2>1, AsSequence
<1>12. /\ \A i \in 1 .. new : entries[Len(entries) - new + i] > from
                              /\ entries[Len(entries) - new + i] <= last
       /\ from <= last
  <2>1. CASE new = 0
    BY <1>5, <2>1
  <2>2. CASE new # 0
    <3>1. /\ Len(entries) \in 1 .. Len(entries) /\ Len(entries) > seen
          /\ last = entries[Len(entries)]
      BY <1>1, <1>4, <1>8, <2>2
    <3>2. \A j \in 1 .. Len(entries) : entries[j] <= last
      BY <1>1, <3>1 DEF Ascending
    <3>3. last > from /\ last \in Nat
      BY <1>1, <1>7, <3>1
    <3> HIDE DEF last
    <3> QED
      BY <1>5, <1>7, <1>9, <3>2, <3>3
  <2> QED
    BY <2>1, <2>2
<1>13. \A i, j \in 1 .. new :
         i < j => entries[Len(entries) - new + i] < entries[Len(entries) - new + j]
  <2>1. \A i, j \in 1 .. new : i < j => Len(entries) - new + i < Len(entries) - new + j
    BY <1>1, <1>8
  <2> QED
    BY <1>1, <1>9, <2>1 DEF Ascending
<1> HIDE DEF chunks, last
<1> QED
  BY <1>5, <1>6, <1>10, <1>11, <1>12, <1>13

LEMMA EntriesAscend ==
  ASSUME BusOk, Ascending(entries), [Next]_vars PROVE Ascending(entries')
<1>1. CASE HeaderAccepted
  <2>1. entries' = <<>>
    BY <1>1 DEF HeaderAccepted
  <2> QED
    BY <2>1 DEF Ascending
<1>2. CASE ClientConnects \/ HeaderRefused \/ EndStream \/ Stale
  BY <1>2 DEF ClientConnects, HeaderRefused, EndStream, Stale
<1> QED
  BY <1>1, <1>2, BusFrames, PublishAscends

(* A snapshot that has been taken is of the cursor until it is merged.      *)
LEMMA SnapshotAheadStep ==
  ASSUME PathInv, Ascending(entries), SnapshotAhead, [Next]_vars PROVE SnapshotAhead'
<1>0. BusOk /\ CursorOk /\ Counts
  BY Parts
<1>1. CASE flush' # "merge"
  BY <1>1 DEF SnapshotAhead
<1>2. CASE UNCHANGED <<flush, snapshot, injection_generation, injection_sequence>>
  BY <1>2 DEF SnapshotAhead
<1>3. CASE ClientConnects \/ HeaderRefused \/ HeaderAccepted \/ Publish \/ EndStream \/ Stale
  BY <1>2, <1>3 DEF ClientConnects, HeaderRefused, HeaderAccepted, Publish, EndStream, Stale,
     BusFrame, cursor, flushVars
<1>4. CASE SessionOpens \/ SessionEnds
  BY <1>1, <1>4 DEF SessionOpens, SessionEnds, flushVars
<1>5. CASE \/ \E on \in BOOLEAN : Interface(on) \/ Waveout(on)
           \/ \E b \in Buffers : SetBuffer(b)
  BY <1>2, <1>5 DEF Interface, Waveout, SetBuffer, Command, cursor, flushVars
<1>6. CASE Pcm
  BY <1>2, <1>6 DEF Pcm, cursor, flushVars
<1>7. CASE TakeSnapshot
  <2>1. /\ snapshot' = After(injection_generation, injection_sequence)
        /\ UNCHANGED <<injection_generation, injection_sequence>>
    BY <1>7 DEF TakeSnapshot, cursor
  <2>2. /\ MaxPending \in Nat \ {0} /\ entries \in Seq(Nat) /\ generation \in Nat
        /\ injection_generation \in Nat /\ injection_sequence \in Nat
    BY <1>0, BufferType, CursorFacts DEF PathInv, BusOk
  <2>3. snapshot'.generation = generation
    BY <2>1 DEF After
  <2>4. /\ \A i, j \in 1 .. Len(snapshot'.chunks) :
             i < j => snapshot'.chunks[i].seq < snapshot'.chunks[j].seq
        /\ \A i \in 1 .. Len(snapshot'.chunks) :
             /\ snapshot'.chunks[i].usb = 0 /\ snapshot'.chunks[i].seq <= snapshot'.last
             /\ injection_generation = generation =>
                  snapshot'.chunks[i].seq > injection_sequence
        /\ injection_generation = generation => injection_sequence <= snapshot'.last
    BY <2>1, <2>2, SnapshotOrder
  <2> QED
    BY <2>1, <2>3, <2>4 DEF SnapshotAhead
<1>8. CASE MergeSuppressed \/ MergeNothing \/ MergeChunks
  BY <1>1, <1>8 DEF MergeSuppressed, MergeNothing, MergeChunks, MergePlayed, MergeFrame
<1>9. CASE MakeTone \/ FlushWaits \/ FlushChunk \/ FlushConceals \/ FlushUnderflow \/ FlushSent
  BY <1>1, <1>9 DEF MakeTone, FlushWaits, FlushChunk, FlushConceals, FlushUnderflow,
     LookFrame, FlushSent
<1>10. CASE UNCHANGED vars
  BY <1>2, <1>10 DEF vars, cursor, flushVars
<1> QED
  BY <1>3, <1>4, <1>5, <1>6, <1>7, <1>8, <1>9, <1>10 DEF Next, Flush, Inject

-----------------------------------------------------------------------------
(* The order of what is sent: the queue.                                    *)

Held == in_hand.kind = "chunk"
QueueLine ==
  Sent \in Chunk /\ Orderly(pending_audio_chunks, Held, Sent, Known, merged)

LEMMA LineFacts ==
  ASSUME PathInv
  PROVE  /\ Known \in Chunk /\ merged \in BOOLEAN /\ pending_audio_chunks \in Seq(Chunk)
         /\ frames \in Nat /\ injection_generation \in Nat /\ injection_sequence \in Nat
         /\ MaxPending \in Nat
         /\ Held \in BOOLEAN /\ (flush # "sending" => Held = FALSE)
<1>1. /\ BusOk /\ CursorOk /\ Counts /\ Flags /\ HandOk /\ QueueOk
  BY Parts
<1>2. frames \in Nat /\ injection_generation \in Nat /\ injection_sequence \in Nat
  BY <1>1, CursorFacts, WorldFacts DEF Counts, BusOk
<1>3. flush # "sending" => Held = FALSE
  BY <1>1 DEF HandOk, Held, Nothing
<1>4. MaxPending \in Nat
  BY BufferType DEF PathInv
<1> QED
  BY <1>1, <1>2, <1>3, <1>4 DEF Known, Chunk, Flags, QueueOk, Held

(* The cursor stays where it is or goes on, and so does the host.           *)
LEMMA KnownGoesOn ==
  ASSUME PathInv, NEW m, frames' \in {frames, frames + 1},
         injection_generation' \in Nat, injection_sequence' \in Nat,
         \/ UNCHANGED <<injection_generation, injection_sequence>>
         \/ injection_generation' > injection_generation
         \/ /\ injection_generation' = injection_generation
            /\ injection_sequence' >= injection_sequence
  PROVE  Known' \in Chunk /\ Within(Known, Known', m)
<1>1. frames \in Nat /\ injection_generation \in Nat /\ injection_sequence \in Nat
  BY LineFacts
<1>2. frames' \in Nat /\ frames <= frames'
  BY <1>1
<1>3. ~Later(<<injection_generation, injection_sequence>>,
             <<injection_generation', injection_sequence'>>)
  BY <1>1 DEF Later
<1> QED
  BY <1>2, <1>3 DEF Known, Within, Chunk

(* Most steps at most drop chunks from the front.                           *)
LEMMA FrontDropped ==
  ASSUME PathInv, QueueLine, UNCHANGED <<last_usb, last_injected, merged>>, Held' = Held,
         EndOf(pending_audio_chunks', pending_audio_chunks),
         Known' \in Chunk, Within(Known, Known', merged)
  PROVE  QueueLine'
<1>1. Sent' = Sent /\ Sent \in Chunk
  BY DEF Sent, QueueLine
<1>2. Orderly(pending_audio_chunks', Held, Sent, Known, merged)
  BY LineFacts, EndIsOrderly DEF QueueLine
<1>3. Orderly(pending_audio_chunks', Held, Sent, Known', merged)
  BY <1>1, <1>2, LineFacts, StaysOrderly DEF EndOf
<1> QED
  BY <1>1, <1>3 DEF QueueLine

LEMMA Resting ==
  ASSUME PathInv, QueueLine,
         UNCHANGED <<last_usb, last_injected, merged, frames, injection_generation,
                     injection_sequence>>,
         Held' = Held, pending_audio_chunks' \in {pending_audio_chunks, <<>>}
  PROVE  QueueLine'
<1>1. Known' \in Chunk /\ Within(Known, Known', merged)
  BY LineFacts, KnownGoesOn
<1>2. EndOf(pending_audio_chunks', pending_audio_chunks)
  BY LineFacts, NoChunks
<1> QED
  BY <1>1, <1>2, FrontDropped

LEMMA OpensInLine ==
  ASSUME PathInv, SessionOpens PROVE QueueLine'
<1>1. /\ pending_audio_chunks' = <<>> /\ last_usb' = 0 /\ last_injected' = <<0, 0>>
      /\ frames' = frames
  BY DEF SessionOpens
<1>2. Sent' = [usb |-> 0, gen |-> 0, seq |-> 0] /\ Known'.usb = frames /\ frames \in Nat
  BY <1>1, LineFacts DEF Sent, Known
<1>3. Sent' \in Chunk /\ Within(Sent', Known', merged')
  BY <1>2 DEF Chunk, Within
<1>4. Len(pending_audio_chunks') = 0
  BY <1>1
<1> QED
  BY <1>3, <1>4 DEF QueueLine, Orderly

(* A frame's chunk comes after all the host's chunks there are.             *)
LEMMA PcmInLine ==
  ASSUME PathInv, QueueLine, Pcm PROVE QueueLine'
<1> DEFINE reset == ~audio_out_stream_active \/ waveout_active
           kept  == IF reset \/ ~audio_pcm_stream_active THEN <<>> ELSE pending_audio_chunks
           c     == Usb(frames + 1)
<1>1. /\ UNCHANGED <<last_usb, last_injected, merged, injection_generation,
                     injection_sequence, in_hand>>
      /\ frames' = frames + 1
  BY DEF Pcm, history, cursor, flushVars
<1>2. /\ Known' \in Chunk /\ Within(Known, Known', merged) /\ Held' = Held /\ Sent' = Sent
  BY <1>1, KnownGoesOn, LineFacts DEF Held, Sent
<1>3. \/ pending_audio_chunks' = Push(kept, <<c>>)
      \/ pending_audio_chunks' = <<>>
      \/ pending_audio_chunks' = pending_audio_chunks
  BY DEF Pcm
<1>4. EndOf(kept, pending_audio_chunks) /\ kept \in Seq(Chunk)
  BY LineFacts, NoChunks DEF EndOf
<1> HIDE DEF kept
<1>5. CASE pending_audio_chunks' = Push(kept, <<c>>)
  <2>1. Orderly(kept, Held, Sent, Known, merged)
    BY <1>4, LineFacts, EndIsOrderly DEF QueueLine
  <2>0. frames \in Nat /\ frames + 1 \in Nat
    BY LineFacts
  <2>2. c \in Chunk /\ c.usb = frames + 1 /\ c.gen = 0 /\ frames \in Nat
    BY <2>0 DEF Usb, Tone, Chunk
  <2>3. Behind(c, Known, merged) /\ Within(c, Known', merged)
    BY <1>1, <2>2 DEF Behind, Within, Known
  <2> HIDE DEF c
  <2>4. <<c>> \in Seq(Chunk) /\ Len(<<c>>) = 1 /\ \A i \in 1 .. Len(<<c>>) : <<c>>[i] = c
    BY <2>2
  <2>5. \A i, j \in 1 .. Len(<<c>>) : ~(i < j)
    BY <2>4
  <2>6. Orderly(kept \o <<c>>, Held, Sent, Known', merged)
    BY <1>2, <1>4, <2>1, <2>3, <2>4, <2>5, LineFacts, JoinedOrderly DEF QueueLine
  <2>7. Orderly(Push(kept, <<c>>), Held, Sent, Known', merged)
    BY <1>4, <2>4, <2>6, LineFacts, PushedOrderly
  <2> QED
    BY <1>1, <1>2, <1>5, <2>7 DEF QueueLine
<1>6. CASE pending_audio_chunks' \in {<<>>, pending_audio_chunks}
  BY <1>1, <1>2, <1>6, LineFacts, NoChunks, FrontDropped
<1> QED
  BY <1>3, <1>5, <1>6

(* A merge moves the cursor to that of the snapshot.                        *)
LEMMA MergeGoesOn ==
  ASSUME PathInv, SnapshotAhead, MergeSuppressed \/ MergePlayed
  PROVE  /\ injection_generation' = snapshot.generation /\ injection_sequence' = snapshot.last
         /\ snapshot.generation \in Nat /\ snapshot.last \in Nat
         /\ snapshot.generation >= injection_generation
         /\ UNCHANGED <<frames, last_usb, last_injected, in_hand>>
         /\ Held = FALSE /\ Held' = Held /\ Sent' = Sent
         /\ Known' \in Chunk /\ \A m : Within(Known, Known', m)
<1>1. /\ flush = "merge" /\ injection_sequence' = snapshot.last
      /\ UNCHANGED <<frames, last_usb, last_injected, in_hand>>
  BY DEF MergeSuppressed, MergePlayed, MergeFrame, usbVars
<1>2. injection_generation' = snapshot.generation
  BY DEF MergeSuppressed, MergePlayed, Suppressed
<1>3. /\ snapshot.generation \in Nat /\ snapshot.last \in Nat
      /\ snapshot.generation \in injection_generation .. generation
  BY <1>1, Parts DEF SnapshotOk, SnapshotOfBus
<1>4. injection_generation \in Nat /\ generation \in Nat
  BY Parts, CursorFacts
<1>5. snapshot.generation >= injection_generation
  BY <1>3, <1>4
<1>6. \/ injection_generation' > injection_generation
      \/ /\ injection_generation' = injection_generation
         /\ injection_sequence' >= injection_sequence
  <2>1. CASE snapshot.generation = injection_generation
    <3>1. injection_sequence <= snapshot.last
      BY <1>1, <2>1 DEF SnapshotAhead
    <3> QED
      BY <1>1, <1>2, <1>3, <2>1, <3>1, LineFacts
  <2>2. CASE snapshot.generation # injection_generation
    BY <1>2, <1>4, <1>5, <1>3, <2>2
  <2> QED
    BY <2>1, <2>2
<1>7. Known' \in Chunk /\ \A m : Within(Known, Known', m)
  BY <1>1, <1>2, <1>3, <1>6, KnownGoesOn
<1>8. Held = FALSE /\ Held' = Held /\ Sent' = Sent
  BY <1>1, LineFacts DEF Held, Sent
<1> QED
  BY <1>1, <1>2, <1>3, <1>5, <1>7, <1>8

(* What the bus had to offer comes after all there is.                      *)
LEMMA NewsInLine ==
  ASSUME PathInv, SnapshotAhead, MergePlayed, NEW m, NEW n \in 0 .. Len(snapshot.chunks)
  PROVE  LET rest == SubSeq(snapshot.chunks, n + 1, Len(snapshot.chunks)) IN
         /\ rest \in Seq(Chunk)
         /\ \A i, j \in 1 .. Len(rest) : i < j => Behind(rest[j], rest[i], m)
         /\ \A i \in 1 .. Len(rest) : Behind(rest[i], Known, m) /\ Within(rest[i], Known', m)
<1> DEFINE new == snapshot.chunks
           rest == SubSeq(new, n + 1, Len(new))
<1>1. /\ flush = "merge" /\ new \in Seq(Chunk) /\ Len(new) \in Nat
      /\ \A i \in 1 .. Len(new) : new[i] \in Chunk
      /\ DOMAIN new = 1 .. Len(new)
  <2>1. flush = "merge" /\ new \in Seq(Chunk)
    BY Parts DEF SnapshotOk, MergePlayed, MergeFrame
  <2> QED
    BY <2>1, LenProperties, ElementOfSeq
<1>2. /\ injection_generation' = snapshot.generation /\ injection_sequence' = snapshot.last
      /\ snapshot.generation \in Nat /\ snapshot.last \in Nat
      /\ snapshot.generation >= injection_generation /\ frames' = frames
  BY MergeGoesOn
<1>3. \A i \in 1 .. Len(new) :
        /\ new[i].usb = 0 /\ new[i].gen = snapshot.generation /\ new[i].seq <= snapshot.last
        /\ snapshot.generation = injection_generation => new[i].seq > injection_sequence
  BY <1>1, Parts DEF SnapshotAhead, SnapshotOk, SnapshotOfBus
<1>4. \A i, j \in 1 .. Len(new) : i < j => new[i].seq < new[j].seq
  BY <1>1 DEF SnapshotAhead
<1> HIDE DEF new
<1>5. \A i, j \in 1 .. Len(new) : i < j => Behind(new[j], new[i], m)
  BY <1>1, <1>3, <1>4 DEF Behind, Later, Chunk
<1>6. ASSUME NEW i \in 1 .. Len(new)
      PROVE  Behind(new[i], Known, m) /\ Within(new[i], Known', m)
  <2>1. /\ frames \in Nat /\ injection_generation \in Nat /\ injection_sequence \in Nat
    BY LineFacts
  <2>2. new[i].seq \in Nat
    BY <1>1 DEF Chunk
  <2>3. Later(<<new[i].gen, new[i].seq>>, <<injection_generation, injection_sequence>>)
    BY <1>2, <1>3, <2>1, <2>2 DEF Later
  <2>4. ~Later(<<new[i].gen, new[i].seq>>, <<injection_generation', injection_sequence'>>)
    BY <1>2, <1>3, <2>1, <2>2 DEF Later
  <2> QED
    BY <1>2, <1>3, <2>1, <2>3, <2>4 DEF Behind, Within, Known
<1>7. n + 1 \in 1 .. Len(new) + 1
  BY <1>1 DEF new
<1>8. EndOf(rest, new)
  BY <1>1, <1>7, LaterEnd
<1> HIDE DEF rest
<1>9. PICK d \in 0 .. Len(new) : Len(rest) = Len(new) - d
                                 /\ \A i \in 1 .. Len(rest) : rest[i] = new[i + d]
  BY <1>8 DEF EndOf
<1>10. /\ \A i \in 1 .. Len(rest) : i + d \in 1 .. Len(new)
       /\ \A i, j \in 1 .. Len(rest) : i < j => i + d < j + d
  BY <1>1, <1>9
<1>11. /\ \A i, j \in 1 .. Len(rest) : i < j => Behind(rest[j], rest[i], m)
       /\ \A i \in 1 .. Len(rest) : Behind(rest[i], Known, m) /\ Within(rest[i], Known', m)
  BY <1>5, <1>6, <1>9, <1>10
<1> QED
  BY <1>8, <1>11 DEF EndOf, rest, new

LEMMA MergeInLine ==
  ASSUME PathInv, QueueLine, SnapshotAhead, MergeSuppressed \/ MergeNothing \/ MergeChunks
  PROVE  QueueLine'
<1>0. Queued \in {pending_audio_chunks, <<>>} /\ Queued \in Seq(Chunk)
      /\ EndOf(Queued, pending_audio_chunks)
  BY LineFacts, NoChunks DEF Queued, EndOf
<1>1. CASE MergeSuppressed
  <2>1. UNCHANGED <<pending_audio_chunks, merged>>
    BY <1>1 DEF MergeSuppressed, queue
  <2> QED
    BY <1>1, <2>1, MergeGoesOn, LineFacts, NoChunks, FrontDropped
<1>2. CASE MergeNothing
  <2>1. pending_audio_chunks' = Queued /\ merged' = merged /\ MergePlayed
    BY <1>2 DEF MergeNothing
  <2> QED
    BY <1>0, <2>1, MergeGoesOn, FrontDropped
<1>3. CASE MergeChunks
  <2> DEFINE new   == snapshot.chunks
             n     == IF ~Others THEN 0
                      ELSE IF Len(Queued) < Len(new) THEN Len(Queued) ELSE Len(new)
             mixed == [i \in DOMAIN Queued |->
                         IF i <= n THEN Overlay(Queued[i], new[i]) ELSE Queued[i]]
             rest  == SubSeq(new, n + 1, Len(new))
  <2>1. /\ pending_audio_chunks' = Push(mixed, rest) /\ merged' = (merged \/ n > 0)
        /\ MergePlayed
    BY <1>3 DEF MergeChunks
  <2>2. /\ Sent' = Sent /\ Held' = Held /\ Held = FALSE /\ Known' \in Chunk
        /\ \A m : Within(Known, Known', m)
    BY <2>1, MergeGoesOn
  <2>3. /\ new \in Seq(Chunk) /\ Len(new) \in Nat /\ \A i \in 1 .. Len(new) : new[i] \in Chunk
        /\ Len(Queued) \in Nat /\ \A i \in 1 .. Len(Queued) : Queued[i] \in Chunk
        /\ DOMAIN Queued = 1 .. Len(Queued)
    <3>1. new \in Seq(Chunk)
      BY Parts DEF SnapshotOk
    <3> QED
      BY <1>0, <3>1, LenProperties, ElementOfSeq
  <2>4. n \in 0 .. Len(new)
    BY <2>3
  <2>5. /\ rest \in Seq(Chunk)
        /\ \A i, j \in 1 .. Len(rest) : i < j => Behind(rest[j], rest[i], merged')
        /\ \A i \in 1 .. Len(rest) :
             Behind(rest[i], Known, merged') /\ Within(rest[i], Known', merged')
    BY <2>1, <2>4, NewsInLine
  <2> HIDE DEF new, n
  <2>6. mixed \in Seq(Chunk) /\ Len(mixed) = Len(Queued)
    <3>1. PICK g : NoneUpTo(Queued, g) /\ NoneUpTo(new, g)
      <4>1. \A c \in Chunk : c.gen > -1
        BY DEF Chunk
      <4> QED
        BY <2>3, <4>1 DEF NoneUpTo
    <3>2. Queued \in Seq(Chunk) /\ new \in Seq(Chunk)
      BY <1>0, <2>3
    <3> QED
      BY <2>4, <3>1, <3>2, Mixed
  <2>7. \A i \in 1 .. Len(Queued) :
          /\ mixed[i] = IF i <= n THEN Overlay(Queued[i], new[i]) ELSE Queued[i]
          /\ mixed[i].usb = Queued[i].usb
    BY <2>3 DEF Overlay, Chunk
  <2> HIDE DEF mixed, rest
  <2>8. Orderly(Queued, Held, Sent, Known, merged)
    BY <1>0, LineFacts, EndIsOrderly DEF QueueLine
  <2>9. Orderly(mixed, Held, Sent, Known, merged')
    <3>1. CASE n > 0
      <4>1. merged' = TRUE
        BY <2>1, <3>1
      <4> QED
        BY <1>0, <2>6, <2>7, <2>8, <4>1, LineFacts, MixedOrderly
    <3>2. CASE ~(n > 0)
      <4>1. merged' = merged
        BY <2>1, <3>2, LineFacts
      <4>2. \A i \in 1 .. Len(mixed) : mixed[i] = Queued[i + 0]
        BY <2>3, <2>4, <2>6, <2>7, <3>2
      <4>3. 0 \in 0 .. Len(Queued) /\ Len(mixed) = Len(Queued) - 0
        BY <2>3, <2>6
      <4>4. EndOf(mixed, Queued)
        BY <2>6, <4>2, <4>3 DEF EndOf
      <4> QED
        BY <1>0, <2>8, <4>1, <4>4, EndIsOrderly
    <3> QED
      BY <3>1, <3>2
  <2>10. merged' \in BOOLEAN
    BY <2>1, LineFacts
  <2>11. Orderly(mixed \o rest, Held, Sent, Known', merged')
    BY <2>2, <2>5, <2>6, <2>9, <2>10, LineFacts, JoinedOrderly DEF QueueLine
  <2>12. Orderly(Push(mixed, rest), Held, Sent, Known', merged')
    BY <2>5, <2>6, <2>11, LineFacts, PushedOrderly
  <2> QED
    BY <2>1, <2>2, <2>12 DEF QueueLine
<1> QED
  BY <1>1, <1>2, <1>3

LEMMA ToneInLine ==
  ASSUME PathInv, QueueLine, MakeTone PROVE QueueLine'
<1>1. /\ flush = "tone" /\ Held = FALSE /\ Held' = Held /\ Sent' = Sent /\ Known' = Known
      /\ merged' = merged
  BY LineFacts DEF MakeTone, history, cursor, usbVars, Held, Sent, Known
<1>2. CASE pending_audio_chunks' = pending_audio_chunks
  BY <1>1, <1>2 DEF QueueLine
<1>3. CASE pending_audio_chunks' = <<Tone>>
  <2>1. Len(<<Tone>>) = 1 /\ \A i \in 1 .. Len(<<Tone>>) : i = 1 /\ <<Tone>>[i] = Tone
    BY ChunkTypes
  <2>2. Behind(Tone, Sent, merged) /\ Within(Tone, Known, merged)
    BY LineFacts DEF Behind, Within, Tone, Known
  <2>3. Within(Sent, Known, merged)
    BY DEF QueueLine, Orderly
  <2>4. \A i, j \in 1 .. Len(<<Tone>>) : ~(i < j)
    BY <2>1
  <2>5. Orderly(<<Tone>>, FALSE, Sent, Known, merged)
    BY <2>1, <2>2, <2>3, <2>4 DEF Orderly
  <2> QED
    BY <1>1, <1>3, <2>5 DEF QueueLine
<1> QED
  BY <1>2, <1>3 DEF MakeTone

(* The chunk in hand, which stays in front while it is sent, comes after    *)
(* what was sent before it.                                                 *)
LEMMA ChunkInLine ==
  ASSUME PathInv, QueueLine, FlushChunk
  PROVE  QueueLine' /\ Behind(in_hand'.chunk, Sent, merged)
<1> DEFINE n == Len(pending_audio_chunks)
           q == pending_audio_chunks'
           c == Head(q)
<1>1. /\ flush = "look" /\ UNCHANGED <<frames, merged, injection_generation, injection_sequence>>
      /\ in_hand' = [kind |-> "chunk", chunk |-> c]
      /\ last_usb' = IF c.usb > 0 THEN c.usb ELSE last_usb
      /\ last_injected' = IF c.gen > 0 THEN <<c.gen, c.seq>> ELSE last_injected
      /\ q = IF n > buffer THEN SubSeq(pending_audio_chunks, n - buffer + 1, n)
             ELSE pending_audio_chunks
  BY DEF FlushChunk, LookFrame, cursor, usbVars
<1>2. Held = FALSE /\ Held' = TRUE /\ Known' = Known
  BY <1>1, LineFacts DEF Held, Known
<1>3. q # <<>>
  BY FrontThere
<1>4. EndOf(q, pending_audio_chunks)
  <2>1. n \in Nat /\ buffer \in Nat \ {0}
    BY LineFacts, BufferType, LenProperties DEF PathInv
  <2>2. CASE n > buffer
    <3>1. n - buffer + 1 \in 1 .. n + 1
      BY <2>1, <2>2
    <3> QED
      BY <1>1, <2>2, <3>1, LineFacts, LaterEnd
  <2>3. CASE ~(n > buffer)
    BY <1>1, <2>3, LineFacts, NoChunks
  <2> QED
    BY <2>2, <2>3
<1> HIDE DEF q
<1>5. q \in Seq(Chunk) /\ Orderly(q, FALSE, Sent, Known, merged)
  BY <1>2, <1>4, LineFacts, EndIsOrderly DEF QueueLine, EndOf
<1>6. /\ c \in Chunk /\ Behind(c, Sent, merged) /\ Told(c, Sent) \in Chunk
      /\ Orderly(q, TRUE, Told(c, Sent), Known, merged)
  BY <1>3, <1>5, LineFacts, TakenOrderly DEF QueueLine
<1> HIDE DEF c
<1>7. Sent' = Told(c, Sent)
  BY <1>1 DEF Sent, Told
<1> QED
  BY <1>1, <1>2, <1>6, <1>7 DEF QueueLine, q

LEMMA SentInLine ==
  ASSUME PathInv, QueueLine, FlushSent PROVE QueueLine'
<1>1. /\ pending_audio_chunks' = IF Held THEN FrontGone ELSE pending_audio_chunks
      /\ in_hand' = Nothing
      /\ UNCHANGED <<last_usb, last_injected, merged, frames, injection_generation,
                     injection_sequence>>
  BY DEF FlushSent, Held, history, usbVars, cursor
<1>2. Held' = FALSE /\ Sent' = Sent /\ Known' = Known
  BY <1>1 DEF Held, Nothing, Sent, Known
<1>3. CASE Held
  <2>1. Orderly(FrontGone, FALSE, Sent, Known, merged)
    BY LineFacts, GoneOrderly DEF QueueLine, FrontGone
  <2> QED
    BY <1>1, <1>2, <1>3, <2>1 DEF QueueLine
<1>4. CASE ~Held
  <2>1. Held = FALSE
    BY <1>4, LineFacts
  <2> QED
    BY <1>1, <1>2, <2>1 DEF QueueLine
<1> QED
  BY <1>3, <1>4

LEMMA QueueLineStep ==
  ASSUME PathInv, QueueLine, SnapshotAhead, [Next]_vars PROVE QueueLine'
<1> DEFINE Rests == UNCHANGED <<last_usb, last_injected, merged, frames,
                                injection_generation, injection_sequence>>
<1>1. CASE ClientConnects \/ HeaderRefused \/ HeaderAccepted \/ Publish \/ EndStream \/ Stale
  <2>1. Rests /\ UNCHANGED <<in_hand, pending_audio_chunks>>
    BY <1>1 DEF ClientConnects, HeaderRefused, HeaderAccepted, Publish, EndStream, Stale,
       BusFrame, history, usbVars, cursor, flushVars, queue
  <2> QED
    BY <2>1, Resting DEF Held
<1>2. CASE SessionEnds \/ TakeSnapshot \/ UNCHANGED vars
  <2>1. Rests /\ UNCHANGED <<in_hand, pending_audio_chunks>>
    BY <1>2 DEF SessionEnds, TakeSnapshot, vars, history, usbVars, cursor, flushVars, queue
  <2> QED
    BY <2>1, Resting DEF Held
<1>3. CASE \/ \E on \in BOOLEAN : Interface(on) \/ Waveout(on)
           \/ \E b \in Buffers : SetBuffer(b)
  <2>1. Rests /\ UNCHANGED in_hand /\ pending_audio_chunks' \in {pending_audio_chunks, <<>>}
    BY <1>3 DEF Interface, Waveout, SetBuffer, Command, history, cursor, flushVars, queue
  <2> QED
    BY <2>1, Resting DEF Held
<1>4. CASE FlushWaits \/ FlushUnderflow \/ FlushConceals
  <2>1. /\ Rests /\ pending_audio_chunks' = pending_audio_chunks /\ flush = "look"
        /\ in_hand' = in_hand \/ in_hand'.kind = "concealment"
    BY <1>4 DEF FlushWaits, FlushUnderflow, FlushConceals, LookFrame, usbVars, cursor, queue
  <2>2. Held = FALSE /\ Held' = FALSE
    BY <2>1, LineFacts DEF Held
  <2> QED
    BY <2>1, <2>2, Resting
<1> QED
  BY <1>1, <1>2, <1>3, <1>4, OpensInLine, PcmInLine, MergeInLine, ToneInLine, ChunkInLine,
     SentInLine DEF Next, Flush, Inject

LEMMA LineParts == LineInv <=> Ascending(entries) /\ QueueLine /\ SnapshotAhead
BY DEF LineInv, Ascending, QueueLine, Held

LEMMA InitLine == Init => LineInv
<1> SUFFICES ASSUME Init PROVE LineInv
  OBVIOUS
<1>1. Ascending(entries) /\ SnapshotAhead
  BY DEF Init, Ascending, SnapshotAhead
<1>2. Sent = [usb |-> 0, gen |-> 0, seq |-> 0] /\ Known.usb = 0
  BY DEF Init, Sent, Known
<1>3. Sent \in Chunk /\ Within(Sent, Known, merged)
  BY <1>2 DEF Chunk, Within
<1>4. Len(pending_audio_chunks) = 0
  BY DEF Init
<1> QED
  BY <1>1, <1>3, <1>4, LineParts DEF QueueLine, Orderly

LEMMA NextLine == PathInv /\ LineInv /\ [Next]_vars => LineInv'
<1> SUFFICES ASSUME PathInv, LineInv, [Next]_vars PROVE LineInv'
  OBVIOUS
<1>1. BusOk /\ Ascending(entries) /\ QueueLine /\ SnapshotAhead
  BY Parts, LineParts
<1>2. Ascending(entries)' /\ QueueLine' /\ SnapshotAhead'
  BY <1>1, EntriesAscend, QueueLineStep, SnapshotAheadStep DEF Ascending
<1> QED
  BY <1>2 DEF LineInv, Ascending, QueueLine, Held

(* Only the look at the front of the queue takes a chunk in hand.           *)
LEMMA TakesInHand ==
  ASSUME PathInv, [Next]_vars, in_hand'.kind = "chunk", in_hand.kind = "none"
  PROVE  FlushChunk
<1>0. in_hand' # in_hand /\ in_hand'.kind # "none" /\ in_hand'.kind # "concealment"
  OBVIOUS
<1>1. ~(ClientConnects \/ HeaderRefused \/ HeaderAccepted \/ Publish \/ EndStream \/ Stale)
  BY <1>0 DEF ClientConnects, HeaderRefused, HeaderAccepted, Publish, EndStream, Stale,
     BusFrame, flushVars
<1>2. ~(SessionOpens \/ SessionEnds \/ Pcm \/ UNCHANGED vars)
  BY <1>0 DEF SessionOpens, SessionEnds, Pcm, vars, flushVars
<1>3. ~ \/ \E on \in BOOLEAN : Interface(on) \/ Waveout(on)
        \/ \E b \in Buffers : SetBuffer(b)
  BY <1>0 DEF Interface, Waveout, SetBuffer, Command, flushVars
<1>4. ~(TakeSnapshot \/ MergeSuppressed \/ MergeNothing \/ MergeChunks \/ MakeTone
          \/ FlushWaits \/ FlushConceals \/ FlushUnderflow)
  BY <1>0 DEF TakeSnapshot, MergeSuppressed, MergeNothing, MergeChunks, MergePlayed,
     MergeFrame, MakeTone, FlushWaits, FlushConceals, FlushUnderflow, LookFrame
<1>5. ~FlushSent
  BY <1>0 DEF FlushSent, Nothing
<1> QED
  BY <1>1, <1>2, <1>3, <1>4, <1>5 DEF Next, Flush, Inject

(* What is sent never goes back, though chunks are dropped, replaced and    *)
(* mixed while the flush thread has one in hand with the queue unlocked.    *)
THEOREM SentInOrder == Spec => InOrder
<1> DEFINE Step ==
      in_hand'.kind = "chunk" /\ in_hand.kind = "none" /\ open =>
        LET c == in_hand'.chunk IN
        /\ c.usb > 0 => c.usb > last_usb
        /\ c.gen > 0 /\ ~merged => Later(<<c.gen, c.seq>>, last_injected)
<1>1. PathInv /\ LineInv /\ [Next]_vars => Step
  <2> SUFFICES ASSUME PathInv, LineInv, [Next]_vars,
                      in_hand'.kind = "chunk", in_hand.kind = "none"
               PROVE  LET c == in_hand'.chunk IN
                      /\ c.usb > 0 => c.usb > last_usb
                      /\ c.gen > 0 /\ ~merged => Later(<<c.gen, c.seq>>, last_injected)
    OBVIOUS
  <2>1. Behind(in_hand'.chunk, Sent, merged)
    BY TakesInHand, ChunkInLine, LineParts
  <2> QED
    BY <2>1 DEF Behind, Sent, Later
<1>2. PathInv /\ LineInv /\ [Next]_vars => [Step]_vars
  BY <1>1
<1> QED
  BY <1>2, InitInv, InitLine, NextInv, NextLine, PTL DEF Spec, InOrder
=============================================================================
