------------------------------ MODULE AudioPath ------------------------------
(***************************************************************************)
(* The audio of one controller on its way through the Windows daemon       *)
(* (src/src/platform/win32/vdsd.cc): three sources fill the session's      *)
(* pending_audio_chunks and its flush thread empties it.                   *)
(*                                                                         *)
(*   USB        AUDIO_OUT frames and the interface's altsetting            *)
(*   tone       the waveout test command, whose chunks the flush thread    *)
(*              makes itself                                               *)
(*   injection  a client of the audio injection pipe, whose chunks go      *)
(*              through the AudioInjectionBus to every session             *)
(*                                                                         *)
(* A section under state.mutex or under the mutex of the bus is one step.  *)
(* The flush thread merges a snapshot of the bus that it took before, and  *)
(* sends a chunk with the queue unlocked.  Time is left out: whether it is *)
(* time to send, and whether 25 ms without a chunk have passed, is open;   *)
(* what goes to the controller besides audio is in BridgeSession.          *)
(* A definition whose comment begins with "Mutant" is the definition after *)
(* it with a bug put in.                                                   *)
(***************************************************************************)
EXTENDS Integers, SequencesExt

CONSTANTS
  Buffers,             \* the settings of g_audio_buffer_chunks
  SlackChunks,         \* kAudioPendingSlackChunks
  RingChunks,          \* kAudioInjectionRingChunks
  Worlds               \* what may happen, and how often: a set of World

(* A world bounds the frames of the host, which come in packets of which    *)
(* window make a chunk, the streams and chunks of the injection client, the *)
(* commands and the sessions.                                               *)
World == [window : Nat \ {0}, frames : Nat, streams : Nat, published : Nat,
          commands : Nat, sessions : Nat]

ASSUME AudioAssumption ==
  /\ Buffers \subseteq Nat \ {0} /\ Buffers # {}
  /\ RingChunks \in Nat \ {0} /\ SlackChunks \in Nat
  /\ Worlds \subseteq World /\ Worlds # {}

(* A chunk: the number of the USB frame that completed it, and the stream   *)
(* and number of the injected chunk whose haptics it carries, if any.       *)
Chunk == [usb : Nat, gen : Nat, seq : Nat]
Tone  == [usb |-> 0, gen |-> 0, seq |-> 0]
Usb(n) == [Tone EXCEPT !.usb = n]
Injected(g, s) == [Tone EXCEPT !.gen = g, !.seq = s]
Nothing == [kind |-> "none", chunk |-> Tone]
NoSnapshot == [generation |-> 0, last |-> 0, active |-> FALSE, chunks |-> <<>>]

VARIABLES
  world,
  pipe,                         \* what the injection pipe's server is at
  generation, next_sequence, entries, streaming, fresh,      \* the bus
  open, sessions, since,        \* the session; the stream it found
  injection_generation, injection_sequence, wait_for_next_stream, injection_active,
  audio_out_stream_active, audio_pcm_stream_active, waveout_active,
  frames, partial,              \* frames so far; in the extractor
  routed,                       \* output_state's audio route is open
  pending_audio_chunks, last_audio_chunk,
  buffer, commands,
  flush, snapshot, in_hand,     \* the flush thread
  last_usb, last_injected, merged       \* history, for the properties

busVars  == <<world, pipe, generation, next_sequence, entries, streaming, fresh>>
sessVars == <<open, sessions, since>>
cursor   == <<injection_generation, injection_sequence, wait_for_next_stream,
              injection_active>>
active   == <<audio_out_stream_active, audio_pcm_stream_active, waveout_active>>
usbVars  == <<frames, partial>>
queue    == <<pending_audio_chunks, last_audio_chunk>>
ctlVars  == <<buffer, commands>>
flushVars == <<flush, snapshot, in_hand>>
history  == <<last_usb, last_injected, merged>>
vars == <<busVars, sessVars, cursor, active, usbVars, routed, queue, ctlVars,
          flushVars, history>>

Init ==
  /\ world \in Worlds /\ pipe = "listening"
  /\ generation = 0 /\ next_sequence = 1 /\ entries = <<>>
  /\ streaming = FALSE /\ fresh = FALSE
  /\ open = FALSE /\ sessions = 0 /\ since = 0
  /\ injection_generation = 0 /\ injection_sequence = 0
  /\ wait_for_next_stream = FALSE /\ injection_active = FALSE
  /\ audio_out_stream_active = FALSE /\ audio_pcm_stream_active = FALSE
  /\ waveout_active = FALSE
  /\ frames = 0 /\ partial = 0 /\ routed = FALSE
  /\ pending_audio_chunks = <<>> /\ last_audio_chunk = FALSE
  /\ buffer \in Buffers /\ commands = 0
  /\ flush = "inject" /\ snapshot = NoSnapshot /\ in_hand = Nothing
  /\ last_usb = 0 /\ last_injected = <<0, 0>> /\ merged = FALSE

-----------------------------------------------------------------------------
(* The injection pipe, one client at a time, and the bus.                   *)

BusFrame == UNCHANGED <<world, sessVars, cursor, active, usbVars, routed, queue,
                        ctlVars, flushVars, history>>

(* The instance of the pipe has a client, who is to send a header first.    *)
ClientConnects ==
  /\ pipe = "listening" /\ generation < world.streams /\ pipe' = "header"
  /\ UNCHANGED <<generation, next_sequence, entries, streaming, fresh>> /\ BusFrame

(* The header is incomplete or of another layout or rate, or the server     *)
(* stops: the client is disconnected and no stream begins.                  *)
HeaderRefused ==
  /\ pipe = "header" /\ pipe' = "listening"
  /\ UNCHANGED <<generation, next_sequence, entries, streaming, fresh>> /\ BusFrame

(* begin_stream.                                                            *)
HeaderAccepted ==
  /\ pipe = "header" /\ pipe' = "stream"
  /\ generation' = generation + 1 /\ next_sequence' = 1 /\ entries' = <<>>
  /\ streaming' = TRUE /\ fresh' = FALSE
  /\ BusFrame

(* A whole chunk has been read; what the client leaves incomplete is not    *)
(* published.                                                               *)
Ring(es) == IF Len(es) > RingChunks THEN Tail(es) ELSE es
Publish ==
  /\ pipe = "stream" /\ streaming /\ next_sequence <= world.published
  /\ entries' = Ring(Append(entries, next_sequence))
  /\ next_sequence' = next_sequence + 1 /\ fresh' = TRUE
  /\ UNCHANGED <<pipe, generation, streaming>> /\ BusFrame

(* The client has gone or the server stops: end_stream.                     *)
EndStream ==
  /\ pipe = "stream" /\ pipe' = "listening" /\ streaming' = FALSE
  /\ UNCHANGED <<generation, next_sequence, entries, fresh>> /\ BusFrame

(* kAudioInjectionStaleTimeout has passed since the last chunk.             *)
Stale ==
  /\ fresh /\ fresh' = FALSE
  /\ UNCHANGED <<pipe, generation, next_sequence, entries, streaming>> /\ BusFrame

-----------------------------------------------------------------------------
(* The session.                                                             *)

(* Mutant: a session joins what is being played.                            *)
JoinsStream == FALSE
WaitsForNext == streaming

(* A bridge session begins with a new state and subscribes to the bus.      *)
SessionOpens ==
  /\ ~open /\ sessions < world.sessions /\ flush = "inject"
  /\ open' = TRUE /\ sessions' = sessions + 1 /\ since' = generation
  /\ injection_generation' = generation /\ injection_sequence' = next_sequence - 1
  /\ wait_for_next_stream' = WaitsForNext /\ injection_active' = FALSE
  /\ audio_out_stream_active' = FALSE /\ audio_pcm_stream_active' = FALSE
  /\ waveout_active' = FALSE /\ partial' = 0 /\ routed' = FALSE
  /\ pending_audio_chunks' = <<>> /\ last_audio_chunk' = FALSE
  /\ last_usb' = 0 /\ last_injected' = <<0, 0>> /\ merged' = FALSE
  /\ UNCHANGED <<busVars, frames, ctlVars, flushVars>>

(* Its threads have been joined.                                            *)
SessionEnds ==
  /\ open /\ flush = "inject" /\ sessions < world.sessions /\ open' = FALSE
  /\ UNCHANGED <<busVars, sessions, since, cursor, active, usbVars, routed, queue,
                 ctlVars, flushVars, history>>

-----------------------------------------------------------------------------
(* What the host and the user do.                                           *)

MaxPending == buffer + SlackChunks
(* Mutant: a full queue takes one more.                                     *)
Overfull(q, cs) == q \o cs
(* Chunks cs are queued, each in place of the oldest when the queue is full.*)
Push(q, cs) ==
  LET all  == q \o cs
      keep == IF Len(q) > MaxPending THEN Len(q) ELSE MaxPending
  IN IF Len(all) > keep THEN SubSeq(all, Len(all) - keep + 1, Len(all)) ELSE all

Command ==
  /\ open /\ commands < world.commands /\ commands' = commands + 1
  /\ UNCHANGED <<busVars, sessVars, cursor, frames, flushVars, history>>

(* The altsetting of the audio OUT interface.                               *)
Interface(on) ==
  /\ Command
  /\ waveout_active' = (waveout_active /\ ~on)
  /\ routed' = (on \/ waveout_active') /\ audio_out_stream_active' = on
  /\ audio_pcm_stream_active' = FALSE
  /\ pending_audio_chunks' = <<>> /\ last_audio_chunk' = FALSE
  /\ partial' = IF on THEN 0 ELSE partial
  /\ UNCHANGED buffer

(* The test command that plays a tone, or ends it.                          *)
Waveout(on) ==
  /\ Command
  /\ waveout_active' = on /\ routed' = on
  /\ audio_out_stream_active' = on /\ audio_pcm_stream_active' = on
  /\ last_audio_chunk' = FALSE
  /\ pending_audio_chunks' = IF on THEN pending_audio_chunks ELSE <<>>
  /\ UNCHANGED <<partial, buffer>>

(* The audio-buffer request.                                                *)
SetBuffer(b) ==
  /\ Command /\ b # buffer /\ buffer' = b
  /\ UNCHANGED <<active, partial, routed, queue>>

(* A frame of PCM.  It opens the route if need be, and the first chunk of   *)
(* a stream starts the queue anew.                                          *)
Pcm ==
  LET reset  == ~audio_out_stream_active \/ waveout_active
      filled == (IF reset THEN 0 ELSE partial) + 1
      begins == reset \/ ~audio_pcm_stream_active
      kept   == IF begins THEN <<>> ELSE pending_audio_chunks
  IN
  /\ open /\ frames < world.frames /\ frames' = frames + 1
  /\ audio_out_stream_active' = TRUE /\ routed' = (routed \/ reset)
  /\ waveout_active' = FALSE
  /\ partial' = filled % world.window
  /\ \/ /\ filled = world.window
        /\ audio_pcm_stream_active' = TRUE
        /\ last_audio_chunk' = (last_audio_chunk /\ ~begins)
        /\ pending_audio_chunks' = Push(kept, <<Usb(frames + 1)>>)
     \/ /\ filled # world.window
        /\ audio_pcm_stream_active' = (audio_pcm_stream_active /\ ~reset)
        /\ last_audio_chunk' = (last_audio_chunk /\ ~reset)
        /\ pending_audio_chunks' = IF reset THEN <<>> ELSE pending_audio_chunks
  /\ UNCHANGED <<busVars, sessVars, cursor, ctlVars, flushVars, history>>

-----------------------------------------------------------------------------
(* The flush thread: enqueue_injected_audio_chunks.                         *)

(* What the bus holds that comes after number s of stream g, the newest.    *)
After(g, s) ==
  LET from == IF g = generation THEN s ELSE 0
      seen == Cardinality({i \in DOMAIN entries : entries[i] <= from})
      new  == IF Len(entries) - seen > MaxPending THEN MaxPending ELSE Len(entries) - seen
  IN [generation |-> generation, active |-> streaming /\ fresh,
      chunks |-> [i \in 1..new |-> Injected(generation, entries[Len(entries) - new + i])],
      last |-> IF new = 0 THEN from ELSE entries[Len(entries)]]

TakeSnapshot ==
  /\ flush = "inject" /\ open /\ flush' = "merge"
  /\ snapshot' = After(injection_generation, injection_sequence)
  /\ UNCHANGED <<busVars, sessVars, cursor, active, usbVars, routed, queue, ctlVars,
                 in_hand, history>>

Suppressed == wait_for_next_stream /\ snapshot.generation = injection_generation

MergeFrame ==
  /\ flush = "merge" /\ flush' = "tone" /\ snapshot' = NoSnapshot
  /\ injection_sequence' = snapshot.last
  /\ UNCHANGED <<busVars, sessVars, audio_out_stream_active, waveout_active, usbVars,
                 ctlVars, in_hand, last_usb, last_injected>>

(* A stream that was there before the session is not played.                *)
MergeSuppressed ==
  /\ MergeFrame /\ Suppressed /\ injection_active' = FALSE
  /\ UNCHANGED <<injection_generation, wait_for_next_stream, audio_pcm_stream_active,
                 routed, queue, merged>>

(* The queue and the chunk that conceals gaps, as another stream begins.    *)
Others  == audio_out_stream_active \/ waveout_active
NewStream == snapshot.generation # injection_generation
Queued  == IF NewStream /\ ~Others THEN <<>> ELSE pending_audio_chunks

MergePlayed ==
  /\ MergeFrame /\ ~Suppressed
  /\ wait_for_next_stream' = (wait_for_next_stream /\ ~NewStream)
  /\ injection_generation' = snapshot.generation
  /\ injection_active' = snapshot.active
  /\ last_audio_chunk' = (last_audio_chunk /\ ~(NewStream /\ ~Others))

(* Mutant: the end of a stream is seen only as it comes.                    *)
JustEnded == injection_active
WasPlaying == injection_active \/ audio_pcm_stream_active

(* Nothing new: when nobody else plays and the queue is empty, the route is *)
(* closed.  No report tells the controller.                                 *)
MergeNothing ==
  LET closes == ~snapshot.active /\ ~Others /\ Queued = <<>> /\ WasPlaying IN
  /\ MergePlayed /\ snapshot.chunks = <<>>
  /\ pending_audio_chunks' = Queued
  /\ audio_pcm_stream_active' = (audio_pcm_stream_active /\ ~closes)
  /\ routed' = (routed /\ ~closes)
  /\ UNCHANGED merged

(* With other audio the haptics of the chunks that wait are replaced, from  *)
(* the front of the queue.                                                  *)
Overlay(c, i) == [c EXCEPT !.gen = i.gen, !.seq = i.seq]
MergeChunks ==
  LET new == snapshot.chunks
      n   == IF ~Others THEN 0
             ELSE IF Len(Queued) < Len(new) THEN Len(Queued) ELSE Len(new)
      mixed == [i \in DOMAIN Queued |->
                  IF i <= n THEN Overlay(Queued[i], new[i]) ELSE Queued[i]]
  IN
  /\ MergePlayed /\ new # <<>>
  /\ pending_audio_chunks' = Push(mixed, SubSeq(new, n + 1, Len(new)))
  /\ audio_pcm_stream_active' = TRUE /\ routed' = TRUE
  /\ merged' = (merged \/ n > 0)

Inject == TakeSnapshot \/ MergeSuppressed \/ MergeNothing \/ MergeChunks

-----------------------------------------------------------------------------
(* The flush thread: enqueue_waveout_chunk and flush_pending_audio_chunk.   *)

MakeTone ==
  /\ flush = "tone" /\ flush' = "look"
  /\ pending_audio_chunks' = IF waveout_active /\ pending_audio_chunks = <<>>
                               THEN <<Tone>> ELSE pending_audio_chunks
  /\ UNCHANGED <<busVars, sessVars, cursor, active, usbVars, routed, last_audio_chunk,
                 ctlVars, snapshot, in_hand, history>>

LookFrame ==
  /\ flush = "look"
  /\ UNCHANGED <<busVars, sessVars, cursor, usbVars, ctlVars, snapshot, merged>>

Playing == (Others \/ injection_active) /\ audio_pcm_stream_active

(* Nothing to send, or not yet.                                             *)
FlushWaits ==
  /\ LookFrame /\ flush' = "inject"
  /\ UNCHANGED <<active, routed, queue, in_hand, last_usb, last_injected>>

(* The oldest chunk that is not too old is sent.                            *)
FlushChunk ==
  LET n == Len(pending_audio_chunks)
      q == IF n > buffer THEN SubSeq(pending_audio_chunks, n - buffer + 1, n)
           ELSE pending_audio_chunks
      c == Head(q)
  IN
  /\ LookFrame /\ n > 0 /\ flush' = "sending"
  /\ pending_audio_chunks' = q /\ in_hand' = [kind |-> "chunk", chunk |-> c]
  /\ last_usb' = IF c.usb > 0 THEN c.usb ELSE last_usb
  /\ last_injected' = IF c.gen > 0 THEN <<c.gen, c.seq>> ELSE last_injected
  /\ UNCHANGED <<active, routed, last_audio_chunk>>

(* A gap of less than 25 ms is filled with the speaker's last chunk.        *)
FlushConceals ==
  /\ LookFrame /\ pending_audio_chunks = <<>> /\ Playing /\ last_audio_chunk
  /\ flush' = "sending" /\ in_hand' = [kind |-> "concealment", chunk |-> Tone]
  /\ UNCHANGED <<active, routed, queue, last_usb, last_injected>>

(* A longer gap ends the stream, and the route unless another source is on. *)
FlushUnderflow ==
  LET closes == ~waveout_active /\ ~injection_active IN
  /\ LookFrame /\ pending_audio_chunks = <<>> /\ Playing /\ flush' = "inject"
  /\ audio_pcm_stream_active' = FALSE
  /\ audio_out_stream_active' = (audio_out_stream_active /\ ~closes)
  /\ routed' = (routed /\ ~closes) /\ last_audio_chunk' = (last_audio_chunk /\ ~closes)
  /\ UNCHANGED <<waveout_active, pending_audio_chunks, in_hand, last_usb,
                 last_injected>>

(* Mutant: the chunk that was sent stays in the queue.                      *)
FrontStays == pending_audio_chunks
FrontGone  == IF pending_audio_chunks = <<>> THEN <<>> ELSE Tail(pending_audio_chunks)

(* Sent, or refused by the full queue of the transport: the front of the    *)
(* queue goes, be it the chunk that was in hand or another one.             *)
FlushSent ==
  LET chunk == in_hand.kind = "chunk" IN
  /\ flush = "sending" /\ flush' = "inject" /\ in_hand' = Nothing
  /\ pending_audio_chunks' = IF chunk THEN FrontGone ELSE pending_audio_chunks
  /\ last_audio_chunk' \in {last_audio_chunk, last_audio_chunk \/ chunk}
  /\ UNCHANGED <<busVars, sessVars, cursor, active, usbVars, routed, ctlVars, snapshot,
                 history>>

Flush == Inject \/ MakeTone \/ FlushSent \/ FlushWaits \/ FlushChunk
           \/ FlushConceals \/ FlushUnderflow

Next ==
  \/ ClientConnects \/ HeaderRefused \/ HeaderAccepted \/ Publish \/ EndStream \/ Stale
  \/ SessionOpens \/ SessionEnds
  \/ \E on \in BOOLEAN : Interface(on) \/ Waveout(on)
  \/ \E b \in Buffers : SetBuffer(b)
  \/ Pcm \/ Flush

Spec == Init /\ [][Next]_vars

(* The flush thread runs and time passes, so that what waits for its time   *)
(* does not wait for ever; nothing is assumed of the host or the client.    *)
FairSpec ==
  /\ Spec /\ WF_vars(Flush) /\ WF_vars(Stale)
  /\ SF_vars(FlushChunk) /\ SF_vars(FlushUnderflow)

-----------------------------------------------------------------------------
TypeOK ==
  /\ world \in Worlds
  /\ pipe \in {"listening", "header", "stream"}
  /\ generation \in 0..world.streams /\ next_sequence \in 1..world.published + 1
  /\ entries \in Seq(Nat) /\ Len(entries) <= RingChunks
  /\ {streaming, fresh, open, wait_for_next_stream, injection_active,
      audio_out_stream_active, audio_pcm_stream_active, waveout_active, routed,
      last_audio_chunk, merged} \subseteq BOOLEAN
  /\ sessions \in 0..world.sessions /\ since \in 0..generation
  /\ injection_generation \in 0..generation /\ injection_sequence \in 0..world.published
  /\ frames \in 0..world.frames /\ partial \in 0..world.window - 1
  /\ pending_audio_chunks \in Seq(Chunk)
  /\ \E b \in Buffers : Len(pending_audio_chunks) <= b + SlackChunks
  /\ buffer \in Buffers /\ commands \in 0..world.commands
  /\ flush \in {"inject", "merge", "tone", "look", "sending"}
  /\ in_hand \in [kind : {"none", "chunk", "concealment"}, chunk : Chunk]
  /\ snapshot \in [generation : Nat, last : Nat, active : BOOLEAN, chunks : Seq(Chunk)]

(* Whatever a controller is given of the desktop's audio belongs to a       *)
(* stream that began while its session was there: the comment at            *)
(* vdsd.cc:255 promises that a bridge does not silently join one.           *)
NoSilentJoin ==
  \A c \in Range(pending_audio_chunks) \cup {in_hand.chunk} :
    c.gen > 0 => c.gen > since

(* What else makes types and NoSilentJoin an inductive invariant.  A        *)
(* snapshot is of the bus as it was not long ago.  A session that has not   *)
(* been told to wait for the next stream has found none going on, and       *)
(* nothing in the ring that it might take for news.                         *)
SnapshotOfBus ==
  flush = "merge" =>
    /\ snapshot.generation \in injection_generation..generation
    /\ snapshot.last <= world.published
    /\ \A i \in DOMAIN snapshot.chunks : snapshot.chunks[i].gen = snapshot.generation
    /\ snapshot.generation = since /\ ~wait_for_next_stream =>
         snapshot.chunks = <<>> /\ snapshot.last = injection_sequence
NothingMissed ==
  generation = since /\ ~wait_for_next_stream =>
    ~streaming /\ \A i \in DOMAIN entries : entries[i] <= injection_sequence
PathInv ==
  /\ TypeOK /\ NoSilentJoin /\ SnapshotOfBus /\ NothingMissed
  /\ \A i \in DOMAIN entries : entries[i] \in 1..next_sequence - 1
  /\ pipe = "header" => generation < world.streams
  /\ since <= injection_generation
  /\ flush # "sending" => in_hand = Nothing

(* What is sent never goes back: neither the host's audio nor, unless it    *)
(* has been mixed into other audio, the desktop's.  The queue is unlocked   *)
(* between the look at its front and the front's removal.                   *)
Later(a, b) == a[1] > b[1] \/ (a[1] = b[1] /\ a[2] > b[2])
InOrder ==
  [][in_hand'.kind = "chunk" /\ in_hand.kind = "none" /\ open =>
       LET c == in_hand'.chunk IN
       /\ c.usb > 0 => c.usb > last_usb
       /\ c.gen > 0 /\ ~merged => Later(<<c.gen, c.seq>>, last_injected)]_vars

(* What makes it inductive, with PathInv.  Every two chunks that wait are    *)
(* in order, and all that wait come after what was sent, but for the front  *)
(* while it is in hand; whatever is yet to be made comes after the host's   *)
(* last frame and the session's cursor, which a snapshot only advances.     *)
(* With m, the desktop's audio has been mixed.                              *)
Behind(c, d, m) ==
  /\ c.usb > 0 => c.usb > d.usb
  /\ ~m /\ c.gen > 0 => Later(<<c.gen, c.seq>>, <<d.gen, d.seq>>)
Within(c, d, m) ==
  /\ c.usb <= d.usb
  /\ ~m /\ c.gen > 0 => ~Later(<<c.gen, c.seq>>, <<d.gen, d.seq>>)
Sent  == [usb |-> last_usb, gen |-> last_injected[1], seq |-> last_injected[2]]
Known == [usb |-> frames, gen |-> injection_generation, seq |-> injection_sequence]
Orderly(q, held, s, k, m) ==
  /\ \A i, j \in 1..Len(q) : i < j => Behind(q[j], q[i], m)
  /\ \A i \in 1..Len(q) : i > 1 \/ ~held => Behind(q[i], s, m)
  /\ \A i \in 1..Len(q) : Within(q[i], k, m)
  /\ Within(s, k, m)
SnapshotAhead ==
  flush = "merge" =>
    LET new == snapshot.chunks IN
    /\ \A i, j \in 1..Len(new) : i < j => new[i].seq < new[j].seq
    /\ \A i \in 1..Len(new) :
         /\ new[i].usb = 0 /\ new[i].seq <= snapshot.last
         /\ snapshot.generation = injection_generation => new[i].seq > injection_sequence
    /\ snapshot.generation = injection_generation => injection_sequence <= snapshot.last
LineInv ==
  /\ \A i, j \in DOMAIN entries : i < j => entries[i] < entries[j]
  /\ Sent \in Chunk
  /\ Orderly(pending_audio_chunks, in_hand.kind = "chunk", Sent, Known, merged)
  /\ SnapshotAhead

(* When in the end nobody plays anything, the audio route does not stay     *)
(* open: whoever was last closes it, in whatever order the sources ended.   *)
Silent == ~audio_out_stream_active /\ ~waveout_active /\ ~(streaming /\ fresh)
RouteReleased == <>[](open /\ Silent) => <>[]~routed
=============================================================================
