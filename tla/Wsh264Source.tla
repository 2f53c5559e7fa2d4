---------------------------- MODULE Wsh264Source ----------------------------
(***************************************************************************)
(* One connection of wsh264 (wsh264/app/wsh264.cpp): the app_t that onopen *)
(* allocates, the thread that runs the WebSocket callbacks of this         *)
(* connection (commands, then onclose), and the video and audio threads    *)
(* that the commands create.                                               *)
(*                                                                         *)
(* app->state is a plain int that all of them change with |= and &=, so a  *)
(* change is a load and a store.  What they send goes through tx_lock, and *)
(* video gives way to audio packets that are about to be sent.             *)
(*                                                                         *)
(* Using the app after onclose freed it is undefined: the model ends there *)
(* (see AppAlive).                                                         *)
(***************************************************************************)
EXTENDS Integers, Sequences, FiniteSets

CONSTANTS Streams,      \* which of "video" and "audio" the peer asks for
          FragCounts,   \* into how many packets a large video unit is cut
          AudioFile,    \* the audio file is not empty
          MaxThreads,   \* bound on the threads created
          MaxCommands,  \* bound on the commands received
          MaxUnits,     \* bound on the units that all threads send
          MaxFaults     \* bound on failed sends and allocations

ASSUME SourceAssumption ==
  /\ Streams \subseteq {"video", "audio"}
  /\ FragCounts \subseteq Nat \ {0, 1}
  /\ AudioFile \in BOOLEAN
  /\ MaxThreads \in Nat /\ MaxCommands \in Nat /\ MaxUnits \in Nat /\ MaxFaults \in Nat

Thread == 1 .. MaxThreads

(* STATE_STREAMING_VIDEO, STATE_CLOSING_VIDEO, ... as pairs *)
Streaming(s) == <<"streaming", s>>
Closing(s)   == <<"closing", s>>
Flag == {"streaming", "closing"} \X {"video", "video2", "audio"}

VARIABLES
  state,     \* app->state, as the set of the flags that are on
  freed,     \* onclose has freed the app
  control,   \* the callback thread: where it is, the loaded value, what is left to do
  threads,   \* the streaming threads created so far
  pending,   \* pending_audio_packets
  txLock,    \* the thread that holds tx_lock, 0: none
  cryptoSent,\* crypto_init_sent
  mediaSeq,  \* media_seq
  frameId,   \* video_frame_id
  wire,      \* the frames that ws_sendframe accepted
  commands, units, faults   \* how many so far

link     == <<pending, txLock, cryptoSent, mediaSeq, wire>>
counters == <<commands, units, faults>>
vars     == <<state, freed, control, threads, frameId, link, counters>>

Fault == faults < MaxFaults /\ faults' = faults + 1

NoThread == [stream |-> "video", pc |-> "none", loaded |-> {}, seq |-> 0,
             id |-> 0, index |-> 1, count |-> 1]

Used == {i \in Thread : threads[i].pc # "none"}

-----------------------------------------------------------------------------
(* The callback thread.  A job is <<function, stream>>.                    *)

Job == {"start", "stop", "flag", "reply", "free"} \X {"video", "video2", "audio"}

(* The commands of app_cmd that touch the app or the wire: start and stop,  *)
(* start_stream2, and the two that are answered (get_version, get_config). *)
Commands == {"start", "stop"} \X Streams \cup {<<"flag", "video2">>, <<"reply", "video">>}

(* onclose *)
CloseJobs == << <<"stop", "video">>, <<"stop", "audio">>, <<"free", "video">> >>

Work == Head(control.todo)
Stream == Work[2]
Next1 == [control EXCEPT !.todo = Tail(@), !.pc = "idle"]   \* the job is done

ControlReceives ==
  /\ control.todo = <<>> /\ ~freed
  /\ \/ /\ commands < MaxCommands /\ commands' = commands + 1
        /\ \E c \in Commands :
             /\ c[1] = "start" => Used # Thread
             /\ control' = [control EXCEPT !.todo = <<c>>]
     \/ control' = [control EXCEPT !.todo = CloseJobs] /\ UNCHANGED commands
  /\ UNCHANGED <<state, freed, threads, frameId, link, units, faults>>

(* Mutant: a stream that is running is started again. *)
MutWanted ==
  CASE Work[1] = "stop" -> Streaming(Stream) \in state
    [] OTHER            -> TRUE

(* The test at the start of start_*_stream and stop_*_stream. *)
Wanted ==
  CASE Work[1] = "start" -> Streaming(Stream) \notin state
    [] Work[1] = "stop"  -> Streaming(Stream) \in state
    [] OTHER             -> TRUE

(* What the job makes of app->state. *)
Changed(old) ==
  CASE Work[1] \in {"start", "flag"} -> old \cup {Streaming(Stream)}
    [] Work[1] = "stop"              -> old \cup {Closing(Stream)}

ControlLoads ==
  /\ control.pc = "idle" /\ control.todo # <<>> /\ Work[1] \notin {"free", "reply"}
  /\ control' = IF Wanted THEN [control EXCEPT !.pc = "store", !.loaded = Changed(state)] ELSE Next1
  /\ UNCHANGED <<state, freed, threads, frameId, link, counters>>

ControlStores ==
  /\ control.pc = "store"
  /\ state' = control.loaded
  /\ control' = CASE Work[1] = "start" -> [control EXCEPT !.pc = "create"]
                  [] Work[1] = "stop"  -> [control EXCEPT !.pc = "wait"]
                  [] OTHER             -> Next1
  /\ UNCHANGED <<freed, threads, frameId, link, counters>>

(* pthread_create *)
ControlCreates ==
  /\ control.pc = "create"
  /\ threads' = [threads EXCEPT ![Cardinality(Used) + 1] =
                    [NoThread EXCEPT !.stream = Stream, !.pc = "start"]]
  /\ control' = Next1
  /\ UNCHANGED <<state, freed, frameId, link, counters>>

(* The polling loop of stop_*_stream. *)
ControlWaits ==
  /\ control.pc = "wait"
  /\ Streaming(Stream) \notin state
  /\ control' = Next1
  /\ UNCHANGED <<state, freed, threads, frameId, link, counters>>

(* An answer goes out without tx_lock. *)
ControlReplies ==
  /\ control.pc = "idle" /\ control.todo # <<>> /\ Work[1] = "reply"
  /\ control' = Next1
  /\ \/ wire' = Append(wire, [kind |-> "reply"]) /\ UNCHANGED faults
     \/ Fault /\ UNCHANGED wire
  /\ UNCHANGED <<state, freed, threads, frameId, pending, txLock, cryptoSent, mediaSeq, commands, units>>

ControlFrees ==
  /\ control.pc = "idle" /\ control.todo # <<>> /\ Work[1] = "free"
  /\ freed' = TRUE
  /\ control' = Next1
  /\ UNCHANGED <<state, threads, frameId, link, counters>>
-----------------------------------------------------------------------------
(* The streaming threads.                                                  *)

At(i, pc) == threads[i].pc = pc /\ ~freed
Goto(i, pc) == threads' = [threads EXCEPT ![i].pc = pc]
IsAudio(i) == threads[i].stream = "audio"

(* audio_streaming leaves at once when there is nothing to play. *)
ThreadStarts(i) ==
  /\ At(i, "start")
  /\ Goto(i, IF IsAudio(i) /\ ~AudioFile THEN "done" ELSE "test")
  /\ UNCHANGED <<state, freed, control, frameId, link, counters>>

(* The loop: until it is asked to close, or a packet cannot be allocated,  *)
(* the next unit.  send_video_media gives a large one a frame id.          *)
ThreadTests(i) ==
  /\ At(i, "test")
  /\ LET Produce(count) ==
           /\ units < MaxUnits /\ units' = units + 1
           /\ threads' = [threads EXCEPT ![i].pc = "prio", ![i].index = 1,
                                         ![i].count = count, ![i].id = frameId]
           /\ frameId' = IF count > 1 THEN frameId + 1 ELSE frameId
           /\ UNCHANGED faults
     IN IF Closing(threads[i].stream) \in state
          THEN Goto(i, "load1") /\ UNCHANGED <<frameId, units, faults>>
        ELSE IF IsAudio(i)
          THEN Produce(1) \/ (Fault /\ Goto(i, "load1") /\ UNCHANGED <<frameId, units>>)
        ELSE \E count \in {1} \cup FragCounts : Produce(count)
  /\ UNCHANGED <<state, freed, control, link, commands>>

(* begin_audio_priority, wait_for_audio_priority *)
ThreadTakesPriority(i) ==
  /\ At(i, "prio")
  /\ IF IsAudio(i) THEN pending' = pending + 1 ELSE pending = 0 /\ UNCHANGED pending
  /\ Goto(i, "lock")
  /\ UNCHANGED <<state, freed, control, frameId, txLock, cryptoSent, mediaSeq, wire, counters>>

(* Mutant: tx_lock is released again before the packet is sent. *)
MutThreadLocks(i) ==
  /\ At(i, "lock") /\ txLock = 0
  /\ cryptoSent' = TRUE
  /\ wire' = IF cryptoSent THEN wire ELSE Append(wire, [kind |-> "init"])
  /\ mediaSeq' = mediaSeq + 1
  /\ threads' = [threads EXCEPT ![i].pc = "send", ![i].seq = mediaSeq]
  /\ UNCHANGED <<state, freed, control, frameId, pending, txLock, counters>>

(* send_encrypted_media up to the sequence number: the packet is allocated *)
(* and the lock taken, crypto_init goes out first, and the number is used  *)
(* up even when that failed.                                               *)
ThreadLocks(i) ==
  /\ At(i, "lock")
  /\ \/ /\ Fault /\ Goto(i, "failed")
        /\ UNCHANGED <<txLock, cryptoSent, mediaSeq, wire>>
     \/ /\ txLock = 0 /\ txLock' = i
        /\ wire' = IF cryptoSent THEN wire ELSE Append(wire, [kind |-> "init"])
        /\ cryptoSent' = TRUE
        /\ mediaSeq' = mediaSeq + 1
        /\ threads' = [threads EXCEPT ![i].pc = "send", ![i].seq = mediaSeq]
        /\ UNCHANGED faults
     \/ /\ txLock = 0 /\ ~cryptoSent
        /\ Fault /\ Goto(i, "failed")
        /\ mediaSeq' = mediaSeq + 1
        /\ UNCHANGED <<txLock, cryptoSent, wire>>
  /\ UNCHANGED <<state, freed, control, frameId, pending, commands, units>>

(* The rest of it: encrypt, send, unlock. *)
ThreadSends(i) ==
  /\ At(i, "send")
  /\ \/ /\ Goto(i, "sent")
        /\ wire' = Append(wire, [kind |-> threads[i].stream, seq |-> threads[i].seq,
                                 id |-> threads[i].id, index |-> threads[i].index,
                                 count |-> threads[i].count])
        /\ UNCHANGED faults
     \/ Fault /\ Goto(i, "failed") /\ UNCHANGED wire
  /\ txLock' = 0
  /\ UNCHANGED <<state, freed, control, frameId, pending, cryptoSent, mediaSeq, commands, units>>

(* Mutant: a packet that was not sent keeps its priority. *)
MutThreadGivesBack(i) ==
  /\ At(i, "sent") \/ At(i, "failed")
  /\ pending' = IF IsAudio(i) /\ threads[i].pc = "sent" THEN pending - 1 ELSE pending
  /\ threads' = [threads EXCEPT ![i].pc = "test"]
  /\ UNCHANGED <<state, freed, control, frameId, txLock, cryptoSent, mediaSeq, wire, counters>>

(* end_audio_priority; the next fragment follows one that was sent. *)
ThreadGivesBack(i) ==
  /\ At(i, "sent") \/ At(i, "failed")
  /\ pending' = IF IsAudio(i) /\ pending > 0 THEN pending - 1 ELSE pending
  /\ threads' = IF threads[i].pc = "sent" /\ threads[i].index < threads[i].count
                  THEN [threads EXCEPT ![i].pc = "prio", ![i].index = @ + 1]
                  ELSE [threads EXCEPT ![i].pc = "test"]
  /\ UNCHANGED <<state, freed, control, frameId, txLock, cryptoSent, mediaSeq, wire, counters>>

(* Mutant: the video thread clears its flags in the order of the audio one. *)
MutCleared(i, pc) ==
  IF pc = "load1" THEN Streaming(threads[i].stream) ELSE Closing(threads[i].stream)

(* The flags that a thread clears at its end, in the order of the code:    *)
(* h264_streaming the closing flag first, audio_streaming last.            *)
Cleared(i, pc) ==
  IF (pc = "load1") = IsAudio(i) THEN Streaming(threads[i].stream) ELSE Closing(threads[i].stream)

ThreadLoads(i) ==
  /\ \E pc \in {"load1", "load2"} :
       /\ At(i, pc)
       /\ threads' = [threads EXCEPT ![i].pc = IF pc = "load1" THEN "store1" ELSE "store2",
                                     ![i].loaded = state \ {Cleared(i, pc)}]
  /\ UNCHANGED <<state, freed, control, frameId, link, counters>>

(* Mutant: a thread that was asked to close leaves its streaming flag on. *)
MutThreadStores(i) ==
  /\ At(i, "store1") \/ At(i, "store2")
  /\ state' = IF threads[i].pc = "store1" THEN threads[i].loaded ELSE state
  /\ Goto(i, IF threads[i].pc = "store1" THEN "load2" ELSE "done")
  /\ UNCHANGED <<freed, control, frameId, link, counters>>

ThreadStores(i) ==
  /\ At(i, "store1") \/ At(i, "store2")
  /\ state' = threads[i].loaded
  /\ Goto(i, IF threads[i].pc = "store1" THEN "load2" ELSE "done")
  /\ UNCHANGED <<freed, control, frameId, link, counters>>

-----------------------------------------------------------------------------
(* onopen *)
Init ==
  /\ state = {} /\ freed = FALSE
  /\ control = [pc |-> "idle", todo |-> <<>>, loaded |-> {}]
  /\ threads = [i \in Thread |-> NoThread]
  /\ pending = 0 /\ txLock = 0 /\ cryptoSent = FALSE /\ mediaSeq = 0 /\ frameId = 0
  /\ wire = <<>>
  /\ commands = 0 /\ units = 0 /\ faults = 0

ControlNext == \/ ControlLoads \/ ControlStores \/ ControlCreates
               \/ ControlWaits \/ ControlReplies \/ ControlFrees

ThreadNext(i) ==
  \/ ThreadStarts(i) \/ ThreadTests(i) \/ ThreadTakesPriority(i)
  \/ ThreadLocks(i) \/ ThreadSends(i) \/ ThreadGivesBack(i)
  \/ ThreadLoads(i) \/ ThreadStores(i)

(* The connection is gone. *)
Ended == freed /\ UNCHANGED vars

Next == ControlReceives \/ ControlNext \/ (\E i \in Thread : ThreadNext(i)) \/ Ended

Spec == Init /\ [][Next]_vars

(* Every thread is scheduled, and a send returns: the socket accepts the   *)
(* data or fails.  The peer need not send commands or close.               *)
FairSpec == Spec /\ WF_vars(ControlNext) /\ \A i \in Thread : WF_vars(ThreadNext(i))

-----------------------------------------------------------------------------
(* Types of the state. *)
TypeOK ==
  /\ state \subseteq Flag /\ freed \in BOOLEAN /\ cryptoSent \in BOOLEAN
  /\ control.pc \in {"idle", "store", "create", "wait"} /\ control.todo \in Seq(Job)
  /\ control.loaded \subseteq Flag
  /\ \A i \in Thread :
       /\ threads[i].stream \in {"video", "audio"} /\ threads[i].loaded \subseteq Flag
       /\ threads[i].pc \in {"none", "start", "test", "prio", "lock", "send", "sent", "failed",
                             "load1", "store1", "load2", "store2", "done"}
       /\ threads[i].index \in 1 .. threads[i].count
  /\ pending \in 0 .. MaxThreads /\ txLock \in {0} \cup Thread
  /\ mediaSeq \in Nat /\ frameId \in 0 .. MaxUnits

(* No thread that still uses the app is left when onclose frees it: the    *)
(* polling loops of stop_video_stream and stop_audio_stream wait for its   *)
(* last access.                                                            *)
AppAlive ==
  freed => \A i \in Thread : \/ threads[i].pc \in {"none", "done"}
                             \/ threads[i].pc = "start" /\ IsAudio(i) /\ ~AudioFile

(* The number of audio packets that video gives way to is exactly the      *)
(* number of those under way: no failure path keeps a priority, which      *)
(* would stop video for good.                                              *)
PriorityBalanced ==
  pending = Cardinality({i \in Thread : IsAudio(i) /\ threads[i].pc \in {"lock", "send", "sent", "failed"}})

(* What the receiver needs in order to decrypt: apart from answers to      *)
(* commands the first frame is crypto_init, and there is no other.         *)
CryptoInitFirst ==
  \A k \in DOMAIN wire :
    wire[k].kind = "init" <=> /\ wire[k].kind # "reply"
                              /\ \A j \in 1 .. k - 1 : wire[j].kind = "reply"

(* Sequence numbers grow along the wire: no two packets of a connection    *)
(* share a nonce, and none overtakes another between numbering and sending. *)
IsMedia(k) == wire[k].kind \in {"video", "audio"}

SeqOrder ==
  \A k, m \in DOMAIN wire : k < m /\ IsMedia(k) /\ IsMedia(m) => wire[k].seq < wire[m].seq

(* The connection as its receiver needs it: crypto_init first, and packets *)
(* numbered in the order they are sent.                                    *)
WireOrder == TypeOK /\ CryptoInitFirst /\ SeqOrder

(* The fragments of a frame follow each other: a later fragment is always  *)
(* preceded, among the video packets, by the one before it, which is what  *)
(* the receiver's reassembly relies on.                                    *)
LastVideo(j, k) ==   \* the last video packet before place k is at j
  /\ j \in 1 .. k - 1 /\ wire[j].kind = "video"
  /\ \A m \in j + 1 .. k - 1 : wire[m].kind # "video"

FragmentsFollow ==
  \A k \in DOMAIN wire :
    wire[k].kind = "video" /\ wire[k].index > 1 =>
      \E j \in 1 .. k - 1 : /\ LastVideo(j, k) /\ wire[j].id = wire[k].id
                            /\ wire[j].index = wire[k].index - 1 /\ wire[j].count = wire[k].count

(* A stop ends: the command loop and onclose never poll for ever. *)
StopEnds == control.pc = "wait" ~> control.pc # "wait"
=============================================================================
