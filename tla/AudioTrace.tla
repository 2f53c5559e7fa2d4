----------------------------- MODULE AudioTrace -----------------------------
(***************************************************************************)
(* The numbers that a chunk of audio carries, from the thread of wsh264    *)
(* that sends it (audio_streaming) to the reader of gateway_client that    *)
(* checks them (unwrap_audio_debug_payload).  In between chunks get lost:  *)
(* in a failed send, in a full ring of the firmware, in a resync of the    *)
(* client; they are never reordered.                                       *)
(***************************************************************************)
EXTENDS Integers

CONSTANTS MaxSize,   \* bound on audio_bs_size
          Slice,     \* AUDIO_CHUNK_SIZE
          W,         \* a chunk's index counts modulo W (2^32)
          MaxSends,  \* bound on the chunks sent
          MaxStarts  \* bound on streams stopped and started, and on new sessions

(* What the constants have to be. *)
AudioTraceAssumption ==
  /\ MaxSize \in Nat \ {0} /\ Slice \in Nat \ {0} /\ W \in Nat \ {0}
  /\ MaxSends \in Nat /\ MaxStarts \in Nat

VARIABLES
  size,    \* audio_bs_size
  index,   \* app->audio_chunk_index
  cursor,  \* of the thread that streams
  prev,    \* have_debug_prev, last_debug_index, _offset, _pcm_bytes
  gaps,    \* debug_index_gaps
  jumps,   \* debug_offset_jumps
  lost,    \* history: chunks lost since the last one arrived
  anew,    \* history: a new session began since then
  sends,   \* chunks sent
  starts   \* streams and sessions started

source == <<size, index, cursor, sends, starts>>
client == <<prev, gaps, jumps>>
vars   == <<source, client, lost, anew>>

Init ==
  /\ size \in 1 .. MaxSize
  /\ index = 0 /\ cursor = 0
  /\ prev = [have |-> FALSE, index |-> 0, offset |-> 0, bytes |-> 0]
  /\ gaps = 0 /\ jumps = 0
  /\ lost = 0 /\ anew = FALSE
  /\ sends = 0 /\ starts = 0

Least(a, b) == IF a < b THEN a ELSE b

(* The bytes of a chunk: a file shorter than a slice is sent as a whole.   *)
Bytes == Least(Slice, size)

(* A chunk that would reach over the end is taken from the beginning; the  *)
(* rest of the file that fills no chunk is never sent.                     *)
From == IF cursor + Bytes > size THEN 0 ELSE cursor

Chunk == [index |-> index, offset |-> From, bytes |-> Bytes]

(* An iteration of audio_streaming. *)
Sends ==
  /\ sends < MaxSends
  /\ sends' = sends + 1
  /\ index' = (index + 1) % W
  /\ cursor' = From + Bytes
  /\ UNCHANGED <<size, starts>>

(* Mutant: the sum is not taken modulo W. *)
MutGap(c) == prev.have /\ c.index # prev.index + 1

(* The two checks of unwrap_audio_debug_payload. *)
Gap(c)    == prev.have /\ c.index # (prev.index + 1) % W
Jumped(c) == prev.have /\ c.offset # prev.offset + prev.bytes /\ c.offset # 0

(* unwrap_audio_debug_payload *)
Takes(c) ==
  /\ gaps' = IF Gap(c) THEN gaps + 1 ELSE gaps
  /\ jumps' = IF Jumped(c) THEN jumps + 1 ELSE jumps
  /\ prev' = [have |-> TRUE, index |-> c.index, offset |-> c.offset, bytes |-> c.bytes]

(* A chunk arrives, ... *)
Arrives == Sends /\ Takes(Chunk) /\ lost' = 0 /\ anew' = FALSE

(* ... or is lost. *)
Lose == Sends /\ lost' = lost + 1 /\ UNCHANGED <<client, anew>>

(* stop_audio_stream and start_audio_stream: another thread, the same app. *)
StreamsAgain ==
  /\ starts < MaxStarts
  /\ starts' = starts + 1
  /\ cursor' = 0
  /\ UNCHANGED <<size, index, sends, client, lost, anew>>

(* The upstream is connected anew: another app. *)
NewSession ==
  /\ starts < MaxStarts
  /\ starts' = starts + 1
  /\ index' = 0
  /\ cursor' = 0
  /\ anew' = TRUE
  /\ UNCHANGED <<size, sends, client, lost>>

Next == Arrives \/ Lose \/ StreamsAgain \/ NewSession

Spec == Init /\ [][Next]_vars

-----------------------------------------------------------------------------
(* Types of the state; the cursor stays within the file. *)
TypeOK ==
  /\ size \in 1 .. MaxSize /\ cursor \in 0 .. size /\ index \in 0 .. W - 1
  /\ prev.index \in 0 .. W - 1 /\ prev.offset + prev.bytes \in 0 .. size
  /\ gaps \in 0 .. sends /\ jumps \in 0 .. sends
  /\ lost \in 0 .. sends /\ anew \in BOOLEAN

(* Of every step: what gateway_client reports as a gap of the index is a   *)
(* loss, and every loss is reported, whatever streams were stopped and     *)
(* started; only a whole round of the index (2^32 chunks), or a session    *)
(* that begins with the very index that was due, goes unnoticed.           *)
GapIsLoss ==
  sends' > sends /\ lost' = 0 /\ prev.have /\ ~anew => (gaps' > gaps <=> lost % W # 0)

(* The two ends agree on how the file is run through: a jump of the offset *)
(* is only ever reported after a loss, whatever the size of the file and   *)
(* whichever streams and sessions began meanwhile.                         *)
JumpIsLoss == jumps' > jumps => lost > 0

(* What the client reports of the audio chunks is what was lost. *)
TraceSound == []TypeOK /\ [][GapIsLoss /\ JumpIsLoss]_vars
=============================================================================
