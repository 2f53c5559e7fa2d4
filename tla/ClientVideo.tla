---------------------------- MODULE ClientVideo ----------------------------
(***************************************************************************)
(* The video path of gateway_client/gateway_client.cpp: the reader thread  *)
(* (network_reader), which puts the fragments of a frame together again    *)
(* and queues the frames, and the main thread, which decodes them.  They   *)
(* share the queue under state.video.lock, and the running flag.           *)
(*                                                                         *)
(* One iteration of the reader's loop is one step, since all it does to    *)
(* shared state is inside one critical section.  The main thread pops      *)
(* under the lock, decodes outside of it and, when the decoder fails,      *)
(* takes the lock again to clear the queue: three steps.                   *)
(*                                                                         *)
(* What arrives is what wsh264's send_video_media sends (units, in order,  *)
(* cut into fragments when they are large) minus what was lost on the way: *)
(* a full ring drops packets, and a resync skips some.                     *)
(***************************************************************************)
EXTENDS Integers, Sequences, FiniteSets

CONSTANTS MaxQueued,    \* kMaxQueuedVideoPackets
          CatchUp,      \* kVideoCatchupThreshold
          Burst,        \* kVideoDecodeBurst
          FragCounts,   \* into how many fragments a large unit may be cut
          MaxUnits,     \* bound on the units sent
          MaxRestarts,  \* bound on new upstream sessions
          MaxFaults     \* bound on losses, decoder failures and stops

ASSUME VideoAssumption ==
  /\ MaxQueued \in Nat \ {0} /\ CatchUp \in Nat \ {0} /\ Burst \in Nat \ {0}
  /\ FragCounts \subseteq Nat \ {0, 1}
  /\ MaxUnits \in Nat /\ MaxRestarts \in Nat /\ MaxFaults \in Nat

Kind == {"config", "key", "delta"}

VARIABLES
  sender,   \* wsh264: the unit being sent and the next fragment of it
  frag,     \* frag_active, _frame_id, _flags, _count, _parts, _received
  queue,    \* state.video.queue: arrival number and keyframe flag
  waiting,  \* waiting_for_keyframe
  arrived,  \* frames handed to enqueue_video_packet so far
  mixed,    \* history: an assembled frame was not one complete unit
  reader,   \* where the reader thread is
  main,     \* where the main thread is
  hand,     \* the packet that the main thread popped
  round,    \* decoded_this_round
  sync,     \* decoder.have_sync
  fed,      \* the last frame the decoder took since it was flushed, 0: none
  running,  \* state.running
  faults    \* losses, failures and stops so far

shared == <<queue, waiting>>
input  == <<sender, frag, arrived, mixed>>
player == <<main, hand, round, sync, fed>>
vars   == <<input, shared, reader, player, running, faults>>

Fault == faults < MaxFaults /\ faults' = faults + 1

-----------------------------------------------------------------------------
(* The sender and the packets.                                             *)

(* A packet is a whole unit (count 1), or one fragment of the unit.  Only  *)
(* units that are cut take a frame id (video_frame_id), and a new upstream *)
(* session counts from 0 again.                                            *)
NextUnit(kind, count) ==
  [unit |-> sender.unit + 1, kind |-> kind, count |-> count, sent |-> 1,
   id |-> sender.nextId, nextId |-> IF count > 1 THEN sender.nextId + 1 ELSE sender.nextId,
   restarts |-> sender.restarts]

(* send_video_media: the next fragment of the unit, or a new unit. *)
Sends ==
  \/ /\ sender.sent < sender.count
     /\ sender' = [sender EXCEPT !.sent = @ + 1]
  \/ /\ sender.unit < MaxUnits
     /\ \E kind \in Kind, count \in {1} \cup FragCounts : sender' = NextUnit(kind, count)

(* The packet that was sent last, once the sender took its step. *)
Packet == [unit |-> sender'.unit, kind |-> sender'.kind, count |-> sender'.count,
           index |-> sender'.sent, id |-> sender'.id]

-----------------------------------------------------------------------------
(* reset_video_fragments *)
NoFrag == [active |-> FALSE, id |-> 0, kind |-> "config", parts |-> <<>>]

(* Mutant: the fragments of another frame are kept. *)
MutBegin(f, pkt) ==
  IF f.active /\ Len(f.parts) = pkt.count THEN f
  ELSE [active |-> TRUE, id |-> pkt.id, kind |-> pkt.kind, parts |-> [i \in 1 .. pkt.count |-> 0]]

(* reassemble_video_payload: another frame than the one being collected    *)
(* starts over.                                                            *)
Begin(f, pkt) ==
  IF f.active /\ f.id = pkt.id /\ Len(f.parts) = pkt.count THEN f
  ELSE [active |-> TRUE, id |-> pkt.id, kind |-> pkt.kind, parts |-> [i \in 1 .. pkt.count |-> 0]]

(* An empty slot takes the fragment, a filled one keeps what it has.  A    *)
(* part is represented by the unit it is a part of.                        *)
Collect(f, pkt) ==
  LET g == Begin(f, pkt)
  IN [active |-> TRUE, id |-> g.id, kind |-> g.kind,
      parts |-> [i \in DOMAIN g.parts |->
                   IF i = pkt.index /\ g.parts[i] = 0 THEN pkt.unit ELSE g.parts[i]]]

(* frag_received = frag_count *)
Complete(f) == \A i \in DOMAIN f.parts : f.parts[i] # 0

-----------------------------------------------------------------------------
(* The queue, as the pair of queue and waiting_for_keyframe.               *)

(* Mutant: one packet too many. *)
MutEnqueue(q, wait, frame) ==
  IF wait /\ ~frame.key           THEN [q |-> q, wait |-> wait]
  ELSE IF Len(q) <= MaxQueued     THEN [q |-> Append(q, frame), wait |-> FALSE]
  ELSE IF frame.key               THEN [q |-> <<frame>>, wait |-> FALSE]
  ELSE                                 [q |-> <<>>, wait |-> TRUE]

(* Mutant: the overflow also drops a keyframe. *)
MutEnqueueKey(q, wait, frame) ==
  IF wait /\ ~frame.key           THEN [q |-> q, wait |-> wait]
  ELSE IF Len(q) < MaxQueued      THEN [q |-> Append(q, frame), wait |-> FALSE]
  ELSE                                 [q |-> <<>>, wait |-> TRUE]

(* Mutant: the overflow drops the new packet only. *)
MutEnqueueDrop(q, wait, frame) ==
  IF wait /\ ~frame.key          THEN [q |-> q, wait |-> wait]
  ELSE IF Len(q) < MaxQueued     THEN [q |-> Append(q, frame), wait |-> FALSE]
  ELSE                                [q |-> q, wait |-> wait]

(* enqueue_video_packet *)
Enqueue(q, wait, frame) ==
  IF wait /\ ~frame.key          THEN [q |-> q, wait |-> wait]
  ELSE IF Len(q) < MaxQueued     THEN [q |-> Append(q, frame), wait |-> FALSE]
  ELSE IF frame.key              THEN [q |-> <<frame>>, wait |-> FALSE]
  ELSE                                [q |-> <<>>, wait |-> TRUE]

Keys(q) == {i \in DOMAIN q : q[i].key}

(* trim_video_queue_for_latency: back to the latest keyframe.              *)
Trim(q, wait) ==
  IF Len(q) <= CatchUp   THEN [q |-> q, wait |-> wait]
  ELSE IF Keys(q) = {}   THEN [q |-> <<>>, wait |-> TRUE]
  ELSE LET latest == CHOOSE i \in Keys(q) : \A j \in Keys(q) : j <= i
       IN [q |-> SubSeq(q, latest, Len(q)), wait |-> wait]

(* The video branch of network_reader for a whole unit or a reassembled    *)
(* one: config units are kept for the next keyframe, frames are queued.    *)
TakeUnit(kind) ==
  IF kind = "config" THEN UNCHANGED <<queue, waiting, arrived>>
  ELSE LET frame == [n |-> arrived + 1, key |-> kind = "key"]
           e == Enqueue(queue, waiting, frame)
           t == Trim(e.q, e.wait)
       IN queue' = t.q /\ waiting' = t.wait /\ arrived' = arrived + 1

-----------------------------------------------------------------------------
(* The reader thread.                                                      *)

(* The loop's test, and its end: it tells the others to stop. *)
ReaderTest ==
  /\ reader = "test"
  /\ reader' = IF running THEN "read" ELSE "done"
  /\ UNCHANGED <<input, shared, player, running, faults>>

(* A packet arrives and is handled. *)
ReaderPacket ==
  /\ reader = "read"
  /\ Sends
  /\ LET pkt == Packet
         f   == Collect(frag, pkt)
     IN IF pkt.count = 1
          THEN TakeUnit(pkt.kind) /\ UNCHANGED <<frag, mixed>>
        ELSE IF Complete(f)
          THEN /\ TakeUnit(f.kind)
               /\ frag' = NoFrag
               /\ mixed' = (mixed \/ \E i \in DOMAIN f.parts : f.parts[i] # pkt.unit)
        ELSE frag' = f /\ UNCHANGED <<mixed, queue, waiting, arrived>>
  /\ reader' = "test"
  /\ UNCHANGED <<player, running, faults>>

(* A fragment header that makes no sense, or a packet that does not        *)
(* decrypt: the first resets the fragments.                                *)
ReaderBadPacket ==
  /\ reader = "read"
  /\ Fault
  /\ frag' \in {frag, NoFrag}
  /\ reader' = "test"
  /\ UNCHANGED <<sender, arrived, mixed, shared, player, running>>

(* Mutant: the main thread is not told. *)
MutReaderEnds ==
  /\ reader = "read"
  /\ IF running THEN Fault ELSE UNCHANGED faults
  /\ reader' = "done"
  /\ UNCHANGED <<input, shared, player, running>>

(* The read fails or ends, of itself or because the main thread asked for  *)
(* the stop; the reader stops everything.                                  *)
ReaderEnds ==
  /\ reader = "read"
  /\ IF running THEN Fault ELSE UNCHANGED faults
  /\ reader' = "done"
  /\ running' = FALSE
  /\ UNCHANGED <<input, shared, player>>

(* A packet is lost before it reaches the client. *)
Lose ==
  /\ Fault
  /\ Sends
  /\ UNCHANGED <<frag, arrived, mixed, shared, reader, player, running>>

(* The gateway's upstream connection is made anew: wsh264 starts a new app *)
(* whose frame ids start at 0, and what was left of the unit is not sent.  *)
Restart ==
  /\ sender.restarts < MaxRestarts
  /\ sender' = [sender EXCEPT !.restarts = @ + 1, !.nextId = 0, !.sent = sender.count]
  /\ UNCHANGED <<frag, arrived, mixed, shared, reader, player, running, faults>>

-----------------------------------------------------------------------------
(* The main thread.                                                        *)

(* SDL_PollEvent, with or without SDL_QUIT; the round starts. *)
MainEvents ==
  /\ main = "events"
  /\ \/ running /\ Fault /\ running' = FALSE
     \/ UNCHANGED <<running, faults>>
  /\ round' = 0
  /\ main' = IF running THEN "pop" ELSE "join"
  /\ UNCHANGED <<input, shared, reader, hand, sync, fed>>

(* The critical section that pops the front packet. *)
MainPop ==
  /\ main = "pop"
  /\ IF running /\ round < Burst /\ queue # <<>>
       THEN hand' = Head(queue) /\ queue' = Tail(queue) /\ main' = "decode"
       ELSE main' = "events" /\ UNCHANGED <<hand, queue>>
  /\ UNCHANGED <<input, waiting, reader, round, sync, fed, running, faults>>

(* A packet that the decoder cannot use is skipped; decode_video_packet    *)
(* succeeds ...                                                            *)
MainDecode ==
  /\ main = "decode"
  /\ IF hand.key \/ sync
       THEN sync' = TRUE /\ fed' = hand.n /\ round' = round + 1
       ELSE UNCHANGED <<sync, fed, round>>
  /\ main' = "pop"
  /\ UNCHANGED <<input, shared, reader, hand, running, faults>>

(* ... or fails: the decoder is flushed, ... *)
MainDecodeFails ==
  /\ main = "decode"
  /\ hand.key \/ sync
  /\ Fault
  /\ sync' = FALSE
  /\ fed' = 0
  /\ main' = "recover"
  /\ UNCHANGED <<input, shared, reader, hand, round, running>>

(* Mutant: the queue is cleared, the reader is not told. *)
MutMainRecover ==
  /\ main = "recover"
  /\ queue' = <<>>
  /\ main' = "events"
  /\ UNCHANGED <<input, waiting, reader, hand, round, sync, fed, running, faults>>

(* ... and the queue is cleared under the lock.                            *)
MainRecover ==
  /\ main = "recover"
  /\ queue' = <<>>
  /\ waiting' = TRUE
  /\ main' = "events"
  /\ UNCHANGED <<input, reader, hand, round, sync, fed, running, faults>>

(* request_stop, join, close. *)
MainJoin ==
  /\ main = "join"
  /\ reader = "done"
  /\ main' = "done"
  /\ UNCHANGED <<input, shared, reader, hand, round, sync, fed, running, faults>>

-----------------------------------------------------------------------------
Init ==
  /\ sender = [unit |-> 0, kind |-> "config", count |-> 1, sent |-> 1, id |-> 0, nextId |-> 0,
               restarts |-> 0]
  /\ frag = NoFrag
  /\ queue = <<>> /\ waiting = TRUE
  /\ arrived = 0 /\ mixed = FALSE
  /\ reader = "test" /\ main = "events"
  /\ hand = [n |-> 0, key |-> FALSE] /\ round = 0
  /\ sync = FALSE /\ fed = 0
  /\ running = TRUE /\ faults = 0

MainNext ==
  MainEvents \/ MainPop \/ MainDecode \/ MainDecodeFails \/ MainRecover \/ MainJoin

ReaderNext == ReaderTest \/ ReaderPacket \/ ReaderBadPacket \/ ReaderEnds

(* The program has ended. *)
Ended == main = "done" /\ UNCHANGED vars

Next == MainNext \/ ReaderNext \/ Lose \/ Restart \/ Ended

Spec == Init /\ [][Next]_vars

(* Both threads are scheduled.  A read that nobody stops may block: the    *)
(* reader only has to end it once the stop was requested.                  *)
FairSpec ==
  /\ Spec
  /\ WF_vars(MainNext)
  /\ WF_vars(ReaderTest)
  /\ WF_vars(~running /\ ReaderEnds)

-----------------------------------------------------------------------------
Frame == [n : Nat, key : BOOLEAN]

(* Types of the state. *)
TypeOK ==
  /\ sender.unit \in 0 .. MaxUnits /\ sender.kind \in Kind
  /\ sender.count \in {1} \cup FragCounts /\ sender.sent \in 1 .. sender.count
  /\ frag.parts \in Seq(0 .. MaxUnits) /\ Len(frag.parts) \in {0} \cup FragCounts
  /\ queue \in Seq(Frame) /\ hand \in Frame
  /\ waiting \in BOOLEAN /\ mixed \in BOOLEAN /\ sync \in BOOLEAN /\ running \in BOOLEAN
  /\ arrived \in 0 .. MaxUnits /\ fed \in 0 .. MaxUnits /\ round \in 0 .. Burst
  /\ reader \in {"test", "read", "done"}
  /\ main \in {"events", "pop", "decode", "recover", "join", "done"}
  /\ faults \in 0 .. MaxFaults

(* The decoder never meets a gap: a packet that depends on its predecessor *)
(* is decoded right after the frame that arrived before it, whatever       *)
(* trimming, overflow and recovery did to the queue while the lock was     *)
(* free.  Hence the skip of the decode loop is never taken.                *)
DecoderContinuity == main = "decode" => hand.key \/ (sync /\ fed = hand.n - 1)

(* The backlog is bounded, and longer than the threshold only when there   *)
(* is no later keyframe in it that it could have been trimmed to.          *)
Backlog == Len(queue) <= MaxQueued /\ (Len(queue) > CatchUp => Keys(queue) \subseteq {1})

(* What is queued is an uninterrupted run of arrivals that ends with the   *)
(* newest; a reader that waits for a keyframe has an empty queue.          *)
QueueIsRun ==
  /\ \A i \in DOMAIN queue : queue[i].n = arrived - (Len(queue) - i)
  /\ waiting => queue = <<>>

(* A frame that was put together from fragments is one complete unit, with *)
(* fragments lost and frames abandoned half-way, as long as the upstream   *)
(* is in its first session: a new one numbers its frames from 0 again.     *)
OneFrame == sender.restarts = 0 => ~mixed

(* Reassembly stays within its bounds and never mixes two frames. *)
FramesWhole == TypeOK /\ OneFrame

(* A keyframe is never dropped by its own arrival: neither the overflow    *)
(* nor the trimming takes the frame that ends the wait.                    *)
KeyframeAccepted ==
  [][arrived' > arrived /\ (sender'.kind = "key" /\ sender'.count = 1) =>
       queue' # <<>> /\ queue'[Len(queue')] = [n |-> arrived', key |-> TRUE]]_vars

(* The main thread keeps up: what is queued is decoded or dropped. *)
QueueDrains == queue # <<>> ~> (queue = <<>> \/ ~running)

(* When either thread gives up, the program ends. *)
ShutsDown == (reader = "done" \/ ~running) ~> main = "done"

(* The two threads never wait for each other: the queue moves while the    *)
(* program runs, and a stop by either of them ends it.                     *)
KeepsGoing == QueueDrains /\ ShutsDown
=============================================================================
