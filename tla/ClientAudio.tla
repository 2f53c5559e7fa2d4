---------------------------- MODULE ClientAudio ----------------------------
(***************************************************************************)
(* The audio path of gateway_client/gateway_client.cpp.  The reader thread *)
(* puts each packet into state.audio.queue (enqueue_audio_packet) and then *)
(* tries to feed the SDL device (service_audio_output); the main thread    *)
(* tries the same once per round.  service_audio_output holds              *)
(* audio_service_lock throughout and audio.lock only while it looks at the *)
(* queue, so enqueueing interleaves with every step of a service.          *)
(*                                                                         *)
(* A packet is its number and its size in units of PCM data (an "AUD0"     *)
(* header is cut off before).  The device plays unit by unit, at any time  *)
(* while it is not paused.  Telemetry is left out.                         *)
(***************************************************************************)
EXTENDS Integers, Sequences, FiniteSets

CONSTANTS Prebuffer,   \* audio_prebuffer_bytes
          Target,      \* audio_target_bytes
          MaxBuffer,   \* audio_max_buffer_bytes
          Sizes,       \* sizes of packets
          Packets,     \* bound on the packets that arrive
          MaxFaults    \* bound on calls of SDL_QueueAudio that fail

(* What the constants have to be. *)
AudioAssumption ==
  /\ Prebuffer \in Nat \ {0} /\ Target \in Nat \ {0} /\ MaxBuffer \in Nat
  /\ Sizes \subseteq Nat /\ Packets \in Nat /\ MaxFaults \in Nat

VARIABLES
  queue,         \* audio.queue
  queued_bytes,  \* audio.queued_bytes
  started,       \* audio.started
  service,       \* per thread, where it is in service_audio_output
  reader,        \* where the reader thread is outside of it
  main,          \* where the main thread is outside of it
  running,       \* state.running
  device,        \* SDL: the numbers of the units queued, whether paused, open
  arrived,       \* packets that arrived so far
  lost,          \* history: packets dropped by enqueue or refused by SDL
  played,        \* history: the last unit played, and how often it went back
  faults

queues == <<queue, queued_bytes>>
vars   == <<queue, queued_bytes, started, service, reader, main, running, device,
            arrived, lost, played, faults>>

Threads == {"reader", "main"}
None    == [n |-> 0, size |-> 0]
Idle    == [pc |-> "out", sdl |-> 0, packet |-> None]
Units(p) == [i \in 1 .. p.size |-> p.n]
Bytes(q) == Cardinality(UNION {{i} \X (1 .. q[i].size) : i \in DOMAIN q})

Init ==
  /\ queue = <<>> /\ queued_bytes = 0 /\ started = FALSE
  /\ service = [t \in Threads |-> Idle]
  /\ reader = "read" /\ main = "round" /\ running = TRUE
  /\ device = [units |-> <<>>, paused |-> TRUE, open |-> TRUE]
  /\ arrived = 0 /\ lost = {} /\ played = [n |-> 0, back |-> FALSE] /\ faults = 0

-----------------------------------------------------------------------------
(* enqueue_audio_packet: under audio.lock, the oldest packets make room.   *)

(* How many packets have to go before one of this size fits. *)
Evicted(size) ==
  CHOOSE k \in 0 .. Len(queue) :
    /\ k = Len(queue) \/ queued_bytes - Bytes(SubSeq(queue, 1, k)) + size <= MaxBuffer
    /\ \A j \in 0 .. k - 1 : queued_bytes - Bytes(SubSeq(queue, 1, j)) + size > MaxBuffer

Enqueue(p) ==
  LET k    == Evicted(p.size)
      gone == SubSeq(queue, 1, k)
      kept == SubSeq(queue, k + 1, Len(queue))
      left == queued_bytes - Bytes(gone)
  IN IF p.size > MaxBuffer
     THEN /\ queue' = kept /\ queued_bytes' = left
          /\ lost' = lost \cup {gone[i].n : i \in 1 .. k} \cup {p.n}
     ELSE /\ queue' = Append(kept, p) /\ queued_bytes' = left + p.size
          /\ lost' = lost \cup {gone[i].n : i \in 1 .. k}

(* network_reader: an audio packet arrives, is queued, and is served next. *)
ReaderGets ==
  /\ reader = "read" /\ running /\ arrived < Packets
  /\ \E size \in Sizes : Enqueue([n |-> arrived + 1, size |-> size])
  /\ arrived' = arrived + 1 /\ reader' = "serve"
  /\ UNCHANGED <<started, service, main, running, device, played, faults>>

-----------------------------------------------------------------------------
(* service_audio_output of thread t.                                       *)

(* Fault: there is no audio_service_lock. *)
MutUnserved == TRUE

(* audio_service_lock is free. *)
Unserved == \A t \in Threads : service[t].pc = "out"

(* The device's level is read once, when the service begins. *)
Enters(t) ==
  /\ Unserved
  /\ service' = [service EXCEPT ![t] = [Idle EXCEPT !.pc = "look", !.sdl = Len(device.units)]]

ReaderEnters ==
  /\ reader = "serve" /\ Enters("reader") /\ reader' = "served"
  /\ UNCHANGED <<queues, started, main, running, device, arrived, lost, played, faults>>

MainEnters ==
  /\ main = "round" /\ running /\ Enters("main") /\ main' = "served"
  /\ UNCHANGED <<queues, started, reader, running, device, arrived, lost, played, faults>>

(* Under audio.lock: wait for the prebuffer, stop at the target or at the  *)
(* end of the queue, or take the oldest packet.                            *)
Looks(t) ==
  LET s       == service[t]
      waits   == ~started /\ s.sdl + queued_bytes < Prebuffer
      stops   == s.sdl >= Target \/ queue = <<>>
  IN /\ s.pc = "look"
     /\ started' = (started \/ ~waits)
     /\ IF waits \/ stops
        THEN service' = [service EXCEPT ![t] = Idle] /\ UNCHANGED queues
        ELSE /\ service' = [service EXCEPT ![t].pc = IF started THEN "feed" ELSE "start",
                                           ![t].packet = Head(queue)]
             /\ queue' = Tail(queue)
             /\ queued_bytes' = queued_bytes - Head(queue).size
     /\ UNCHANGED <<reader, main, running, device, arrived, lost, played, faults>>

(* SDL_PauseAudioDevice(0), outside of audio.lock. *)
Starts(t) ==
  /\ service[t].pc = "start"
  /\ device' = [device EXCEPT !.paused = FALSE]
  /\ service' = [service EXCEPT ![t].pc = "feed"]
  /\ UNCHANGED <<queues, started, reader, main, running, arrived, lost, played, faults>>

(* SDL_QueueAudio; an empty packet is skipped; a failure ends the service. *)
Feeds(t) ==
  LET s == service[t]
      again == [Idle EXCEPT !.pc = "look", !.sdl = s.sdl + s.packet.size]
  IN /\ s.pc = "feed"
     /\ \/ /\ device' = [device EXCEPT !.units = @ \o Units(s.packet)]
           /\ service' = [service EXCEPT ![t] = again]
           /\ UNCHANGED <<lost, faults>>
        \/ /\ s.packet.size > 0 /\ faults < MaxFaults /\ faults' = faults + 1
           /\ service' = [service EXCEPT ![t] = Idle]
           /\ lost' = lost \cup {s.packet.n} /\ UNCHANGED device
     /\ UNCHANGED <<queues, started, reader, main, running, arrived, played>>

-----------------------------------------------------------------------------
(* Rounds, the end, and the device.                                        *)

ReaderReturns ==
  /\ reader = "served" /\ service["reader"].pc = "out" /\ reader' = "read"
  /\ UNCHANGED <<queues, started, service, main, running, device, arrived, lost, played, faults>>

MainReturns ==
  /\ main = "served" /\ service["main"].pc = "out" /\ main' = "round"
  /\ UNCHANGED <<queues, started, service, reader, running, device, arrived, lost, played, faults>>

(* The window is closed, or the stream ends. *)
Stops ==
  /\ running /\ running' = FALSE
  /\ UNCHANGED <<queues, started, service, reader, main, device, arrived, lost, played, faults>>

ReaderEnds ==
  /\ reader = "read" /\ reader' = "done" /\ running' = FALSE
  /\ UNCHANGED <<queues, started, service, main, device, arrived, lost, played, faults>>

(* main: the reader is joined before the device is closed. *)
MainCloses ==
  /\ main = "round" /\ ~running /\ reader = "done"
  /\ main' = "done" /\ device' = [device EXCEPT !.open = FALSE]
  /\ UNCHANGED <<queues, started, service, reader, running, arrived, lost, played, faults>>

(* SDL's audio callback plays a unit. *)
Plays ==
  /\ device.open /\ ~device.paused /\ device.units # <<>>
  /\ device' = [device EXCEPT !.units = Tail(@)]
  /\ played' = [n |-> Head(device.units),
                back |-> played.back \/ Head(device.units) < played.n]
  /\ UNCHANGED <<queues, started, service, reader, main, running, arrived, lost, faults>>

Service(t) == Looks(t) \/ Starts(t) \/ Feeds(t)

Ended == main = "done" /\ reader = "done" /\ UNCHANGED vars

Next ==
  \/ ReaderGets \/ ReaderEnters \/ ReaderReturns \/ ReaderEnds
  \/ MainEnters \/ MainReturns \/ MainCloses
  \/ \E t \in Threads : Service(t)
  \/ Stops \/ Plays \/ Ended

Spec == Init /\ [][Next]_vars

(* Both threads are scheduled and an unpaused device plays.                *)
FairSpec ==
  /\ Spec /\ WF_vars(Plays) /\ WF_vars(MainReturns) /\ WF_vars(ReaderReturns)
  /\ WF_vars(MainEnters) /\ WF_vars(ReaderEnters)
  /\ \A t \in Threads : WF_vars(Service(t))

-----------------------------------------------------------------------------
Packet == [n : 0 .. Packets, size : Sizes \cup {0}]

(* Types of the state. *)
TypeOK ==
  /\ queue \in Seq(Packet) /\ queued_bytes \in Nat /\ started \in BOOLEAN
  /\ service \in [Threads -> [pc : {"out", "look", "start", "feed"}, sdl : Nat,
                              packet : Packet]]
  /\ reader \in {"read", "serve", "served", "done"}
  /\ main \in {"round", "served", "done"} /\ running \in BOOLEAN
  /\ device \in [units : Seq(1 .. Packets), paused : BOOLEAN, open : BOOLEAN]
  /\ arrived \in 0 .. Packets /\ lost \subseteq 1 .. Packets
  /\ played \in [n : 0 .. Packets, back : BOOLEAN] /\ faults \in 0 .. MaxFaults

(* What a thread took from the queue and has not given to SDL yet. *)
InHand == {service[t].packet.n : t \in {u \in Threads : service[u].pc \in {"start", "feed"}}}

(* Two threads feed the device, but PCM data is neither reordered nor      *)
(* duplicated: what was played, is in the device, in a thread's hand and   *)
(* in the queue are increasing packet numbers, one after the other, and    *)
(* every packet that arrived is in one of these places or was dropped.     *)
PlaysInOrder ==
  LET d == device.units
      m == IF d = <<>> THEN played.n ELSE d[Len(d)]
  IN /\ ~played.back
     /\ d # <<>> => played.n <= d[1]
     /\ \A i \in 1 .. Len(d) - 1 : d[i] <= d[i + 1]
     /\ \A n \in InHand : m < n /\ \A i \in DOMAIN queue : n < queue[i].n
     /\ \A i \in DOMAIN queue : m < queue[i].n
     /\ \A i \in 1 .. Len(queue) - 1 : queue[i].n < queue[i + 1].n
     /\ \A i \in DOMAIN queue : queue[i].n \notin lost

(* The byte count that decides about prebuffering and eviction is that of  *)
(* the queue, whichever thread evicted or took packets, and the queue      *)
(* never holds more than the limit.                                        *)
BytesCounted == queued_bytes = Bytes(queue) /\ queued_bytes <= MaxBuffer

(* started is set under audio.lock, long before the device is unpaused:    *)
(* when no thread is in between, playback really runs, even if the first   *)
(* packet was refused; otherwise it would never be unpaused.               *)
StartedMeansPlaying ==
  started => ~device.paused \/ \E t \in Threads : service[t].pc = "start"

(* Latency: the device never holds more than the target plus one packet,   *)
(* although the level is read once per service.                            *)
DeviceBound ==
  \/ Len(device.units) < Target
  \/ \E s \in Sizes : s <= MaxBuffer /\ Len(device.units) < Target + s

(* No thread is inside a service of a device that was closed. *)
DeviceAlive == ~device.open => Unserved /\ reader = "done"

(* Two threads feed the audio device while packets arrive and evict        *)
(* others: no PCM data is reordered, duplicated or miscounted, playback    *)
(* starts even if the first packet is refused, latency is bounded, and     *)
(* the device outlives its users.                                          *)
AudioSound ==
  /\ TypeOK /\ PlaysInOrder /\ BytesCounted /\ StartedMeansPlaying
  /\ DeviceBound /\ DeviceAlive

(* Once playback has started, what is queued reaches the device or is      *)
(* dropped, without further packets arriving: the main thread serves, too. *)
BacklogPlays == (started /\ queue # <<>>) ~> (queue = <<>> \/ ~running)
=============================================================================
