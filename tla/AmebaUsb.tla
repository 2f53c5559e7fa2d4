------------------------------ MODULE AmebaUsb ------------------------------
(***************************************************************************)
(* The USB side of the AmebaPro gateway firmware                           *)
(* (ameba_gateway/example_gateway_ameba.c): the transmit ring, the single  *)
(* bulk-IN request that drains it, the bulk-OUT request that carries the   *)
(* host's PING / CFG1 packets, and the two contexts that share them: the   *)
(* USB stack's callbacks and the lowest-priority gateway task.             *)
(*                                                                         *)
(* A callback is one atomic step: it preempts the task and nothing         *)
(* preempts it.  The task's code is cut where a callback may come in:      *)
(* between its unlocked tests and its critical sections.                   *)
(*                                                                         *)
(* The USB device controller is not under src/; it is modelled from how    *)
(* the firmware uses it.  Three constants say what is assumed of it:       *)
(*   Preemptive   a callback may run inside the task's functions, not only *)
(*                between them                                             *)
(*   LateCancel   usb_ep_dequeue returns before the cancelled request's    *)
(*                completion callback has run                              *)
(*   KeepsRequest disconnect and suspend leave a queued request queued     *)
(***************************************************************************)
EXTENDS TxRing

CONSTANTS Chunk,        \* GATEWAY_AMEBA_USB_IN_CHUNK_SIZE
          PayloadLens,  \* the lengths an encrypted media payload may have
          StallTicks,   \* GATEWAY_AMEBA_USB_STALL_TIMEOUT_MS in loop passes
          MaxMedia,     \* bound on the media frames the upstream delivers
          MaxEvents,    \* bound on host packets, bus events and failures
          Preemptive, LateCancel, KeepsRequest

ASSUME UsbAssumption ==
  /\ Chunk \in Nat \ {0}
  /\ PayloadLens \subseteq Nat
  /\ StallTicks \in Nat \ {0}
  /\ MaxMedia \in Nat
  /\ MaxEvents \in Nat
  /\ Preemptive \in BOOLEAN /\ LateCancel \in BOOLEAN /\ KeepsRequest \in BOOLEAN

(***************************************************************************)
(* Bytes are abstracted to <<packet, index, length of the packet>>.        *)
(* Packet 0 is the protocol init packet, packets 1, 2, ... are the media   *)
(* packets in the order the task produced them, -1 is the PONG (never in   *)
(* the ring).  A header is one byte.                                       *)
(***************************************************************************)
Byte == {-1, 0} \X {1} \X {1} \cup Nat \X Nat \X Nat
PongPacket == << <<-1, 1, 1>> >>
InitPacket == << <<0, 1, 1>> >>
MediaHeader(n, len) == << <<n, 1, len + 1>> >>
MediaPayload(n, len) == [i \in 1 .. len |-> <<n, i + 1, len + 1>>]

VARIABLES
  usb,     \* the firmware's USB state and the controller's requests
  task,    \* the gateway task: where it is, and its local variables
  media,   \* media frames relayed so far
  events   \* host packets, bus events and failures so far

vars == <<usb, task, media, events>>

(***************************************************************************)
(* usb.configured .. usb.buf are gateway_usb_configured (set together with *)
(* ctx.configured), _host_ready, _proto_init_sent, ctx.in_busy,            *)
(* ctx.in_flight_len, _stream_resetting and ctx.in_buf; usb.tx is the      *)
(* ring; usb.progress is "the sent or completion counter moved since the   *)
(* watchdog looked".  usb.inReq is the bulk-IN request in the controller's *)
(* hands as it was when queued (<<>>: none), usb.late a cancelled request  *)
(* whose completion is still to be called, usb.outReq whether the bulk-OUT *)
(* request is queued.  The last three are history: what was enqueued since *)
(* the ring was last cleared, how much of it was consumed, and whether in  *)
(* that time a completion consumed other bytes than the host received.     *)
(***************************************************************************)
UsbInit ==
  [configured |-> FALSE, hostReady |-> FALSE, initSent |-> FALSE,
   inBusy |-> FALSE, inFlight |-> 0, resetting |-> FALSE, progress |-> FALSE,
   buf |-> <<>>,
   tx |-> [mem |-> [p \in Slot |-> InitPacket[1]], head |-> 0, tail |-> 0, count |-> 0],
   inReq |-> <<>>, late |-> FALSE, outReq |-> FALSE,
   log |-> <<>>, consumed |-> 0, skewed |-> FALSE]

-----------------------------------------------------------------------------
(* The functions of the file, as functions of the USB state.               *)

ClearRing(u) == [u EXCEPT !.tx = Cleared(@), !.log = <<>>, !.consumed = 0, !.skewed = FALSE]

(* Mutant: the init flag survives the reset. *)
MutTxReset(u) == ClearRing(u)

(* gateway_usb_tx_reset *)
TxReset(u) == [ClearRing(u) EXCEPT !.initSent = FALSE]

(* Mutant: header and payload are enqueued by two calls. *)
MutTxEnqueue(u, prefix, payload) ==
  LET One(v, data) ==
        [v EXCEPT !.tx  = EnqueuePacket(@, data, <<>>),
                  !.log = IF Fits(v.tx, data, <<>>) THEN @ \o data ELSE @]
  IN One(One(u, prefix), payload)

(* gateway_usb_tx_enqueue_packet, with the history of accepted packets *)
TxEnqueue(u, prefix, payload) ==
  [u EXCEPT !.tx  = EnqueuePacket(@, prefix, payload),
            !.log = IF Fits(u.tx, prefix, payload) THEN @ \o prefix \o payload ELSE @]

(* gateway_usb_tx_consume_chunk *)
TxConsume(u, len) ==
  [u EXCEPT !.tx = ConsumeChunk(@, len), !.consumed = @ + MinOf(len, u.tx.count)]

(* usb_ep_queue(in_ep): the controller refuses a request it already has,   *)
(* and may refuse any.                                                     *)
Accepts(u, ok) == ok /\ u.inReq = <<>>

(* usb_ep_dequeue(in_ep), for a caller that has set stream_resetting.  The *)
(* completion callback runs inside the call unless LateCancel; nothing to  *)
(* dequeue is an error, and the caller clears stream_resetting.            *)
Dequeue(u) ==
  IF u.inReq # <<>>
    THEN [u EXCEPT !.inReq = <<>>, !.late = LateCancel, !.resetting = LateCancel,
                   !.progress = IF LateCancel THEN @ ELSE TRUE]
    ELSE [u EXCEPT !.resetting = FALSE]

(* gateway_usb_reset_stream_session up to its tx_reset: cancel what the    *)
(* controller holds if in_busy says that it holds something.               *)
CancelIn(u) ==
  [(IF u.inBusy THEN Dequeue(u) ELSE [u EXCEPT !.resetting = FALSE])
     EXCEPT !.inBusy = FALSE, !.inFlight = 0]

(* gateway_usb_reset_stream_session *)
ResetStreamSession(u) == TxReset(CancelIn(u))

(* Mutant: in_busy is not tested. *)
MutKickTx(u, ok) ==
  LET chunk == PeekChunk(u.tx, Chunk)
  IN IF ~u.configured \/ chunk = <<>> THEN u
     ELSE IF Accepts(u, ok)
       THEN [u EXCEPT !.buf = chunk, !.inReq = chunk, !.inBusy = TRUE, !.inFlight = Len(chunk)]
       ELSE [u EXCEPT !.buf = chunk, !.inBusy = FALSE, !.inFlight = 0]

(* gateway_usb_kick_tx *)
KickTx(u, ok) ==
  LET chunk == PeekChunk(u.tx, Chunk)
  IN IF ~u.configured \/ u.inBusy \/ chunk = <<>> THEN u
     ELSE IF Accepts(u, ok)
       THEN [u EXCEPT !.buf = chunk, !.inReq = chunk, !.inBusy = TRUE, !.inFlight = Len(chunk)]
       ELSE [u EXCEPT !.buf = chunk, !.inBusy = FALSE, !.inFlight = 0]

(* gateway_usb_send_pong *)
SendPong(u, ok) ==
  IF u.inBusy THEN u
  ELSE IF Accepts(u, ok)
    THEN [u EXCEPT !.buf = PongPacket, !.inReq = PongPacket, !.inBusy = TRUE, !.inFlight = 0]
    ELSE [u EXCEPT !.buf = PongPacket, !.inBusy = FALSE, !.inFlight = 0]

(* gateway_usb_enqueue_init_packet; it returned 0 iff initSent afterwards. *)
EnqueueInit(u) ==
  IF u.initSent \/ ~Fits(u.tx, InitPacket, <<>>) THEN u
  ELSE [TxEnqueue(u, InitPacket, <<>>) EXCEPT !.initSent = TRUE]

(* The tail of gateway_usb_out_complete. *)
EnqueueInitAndKick(u, ok) ==
  LET v == EnqueueInit(u) IN IF v.initSent THEN KickTx(v, ok) ELSE v

(* gateway_usb_queue_out_request *)
QueueOut(u, ok) == IF u.configured /\ ok THEN [u EXCEPT !.outReq = TRUE] ELSE u

(* gateway_usb_in_complete with a status other than 0. *)
InCompleteError(u) ==
  LET v == [u EXCEPT !.progress = TRUE, !.inBusy = FALSE, !.inFlight = 0]
  IN IF v.resetting THEN [v EXCEPT !.resetting = FALSE] ELSE ResetStreamSession(v)

(* Mutant: a short transfer counts as a whole chunk. *)
MutInCompleteOk(u, actual, ok) ==
  KickTx(TxConsume([u EXCEPT !.progress = TRUE, !.inBusy = FALSE, !.inFlight = 0], u.inFlight), ok)

(* gateway_usb_in_complete with status 0; actual is req->actual. *)
InCompleteOk(u, actual, ok) ==
  LET v   == [u EXCEPT !.progress = TRUE, !.inBusy = FALSE, !.inFlight = 0]
      len == IF 0 < actual /\ actual < u.inFlight THEN actual ELSE u.inFlight
  IN KickTx(TxConsume(v, len), ok)

(* usb_ep_disable(in_ep), or a stack that drops its requests: a queued     *)
(* request completes with an error.                                        *)
FailIn(u) == IF u.inReq = <<>> THEN u ELSE InCompleteError([u EXCEPT !.inReq = <<>>])

(* gateway_usb_function_disable *)
FunctionDisable(u) ==
  [FailIn(TxReset([u EXCEPT !.configured = FALSE, !.inBusy = FALSE])) EXCEPT !.outReq = FALSE]

(* gateway_usb_function_set_alt; result says how far it came: the IN or    *)
(* the OUT endpoint could not be enabled, a request could not be allocated *)
(* or all went well, and ok whether the OUT request could be queued.       *)
SetAltResult == {"noIn", "noOut", "noRequest", "done"}

FunctionSetAlt(u, result, ok) ==
  LET v == IF u.configured THEN FunctionDisable(u) ELSE u
  IN CASE result = "noIn"      -> v
       [] result = "noOut"     -> FailIn(v)
       [] result = "noRequest" -> FunctionDisable(v)
       [] result = "done"      ->
            QueueOut(TxReset([v EXCEPT !.configured = TRUE, !.inBusy = FALSE,
                                       !.hostReady = FALSE]), ok)

(* gateway_usb_disconnect and gateway_usb_suspend have the same body; the   *)
(* stack has dropped the requests before it calls them, or keeps them.     *)
BusLost(u) ==
  LET v == IF KeepsRequest THEN u ELSE [FailIn(u) EXCEPT !.outReq = FALSE]
  IN TxReset([v EXCEPT !.configured = FALSE, !.inBusy = FALSE])

(* gateway_usb_out_complete.  A transfer error is not followed by a new    *)
(* OUT request; everything else is.  CFG1 and short packets leave the IN   *)
(* side alone, PING restarts the session, anything but those is answered.  *)
OutComplete(u, packet, pongOk, kickOk, outOk) ==
  LET v == [u EXCEPT !.outReq = FALSE, !.hostReady = TRUE]
      w == IF packet = "PING" THEN ResetStreamSession(v) ELSE v
  IN CASE packet = "error" -> [u EXCEPT !.outReq = FALSE]
       [] packet \in {"short", "CFG1"} -> QueueOut(v, outOk)
       [] packet \in {"PING", "other"} ->
            QueueOut(EnqueueInitAndKick(SendPong(w, pongOk), kickOk), outOk)

-----------------------------------------------------------------------------
(* The USB stack's callbacks.                                              *)

(* The task is between two of the functions its loop calls. *)
BetweenCalls == task.pc \in {"force", "retry", "watch", "poll"}

Callback == (Preemptive \/ BetweenCalls) /\ UNCHANGED <<task, media>>

(* One of the MaxEvents things that the bus, the host or a failure causes. *)
Event == events < MaxEvents /\ events' = events + 1

EventIf(b) == IF b THEN Event ELSE UNCHANGED events

(* in_complete with status 0 while the host received the given bytes.      *)
Completion(u, actual, received, ok) ==
  LET v      == InCompleteOk(u, actual, ok)
      stream == IF received = PongPacket THEN <<>> ELSE received
  IN [v EXCEPT !.skewed = IF SubSeq(u.log, u.consumed + 1, v.consumed) = stream THEN @ ELSE TRUE]

(* The host reads: it receives the first actual bytes of what is in the    *)
(* buffer now, and in_complete runs.                                       *)
HostReads ==
  /\ Callback
  /\ usb.inReq # <<>>
  /\ \E actual \in 1 .. Len(usb.inReq), ok \in BOOLEAN :
       /\ EventIf(~ok \/ actual < Len(usb.inReq))
       /\ usb' = Completion([usb EXCEPT !.inReq = <<>>], actual,
                            SubSeq(usb.buf, 1, MinOf(actual, Len(usb.buf))), ok)

(* The queued IN request fails. *)
InFails ==
  /\ Callback /\ Event
  /\ usb.inReq # <<>>
  /\ usb' = InCompleteError([usb EXCEPT !.inReq = <<>>])

(* The completion of a request that was dequeued earlier.  The request has *)
(* been queued again meanwhile or not: its status field may be the 0 that  *)
(* kick_tx or send_pong stored.                                            *)
LateCompletion ==
  /\ Callback
  /\ usb.late
  /\ \E ok \in BOOLEAN :
       /\ EventIf(~ok)
       /\ usb' \in {InCompleteError([usb EXCEPT !.late = FALSE]),
                    Completion([usb EXCEPT !.late = FALSE], 0, <<>>, ok)}

HostWrites ==
  /\ Callback /\ Event
  /\ usb.outReq
  /\ \E packet \in {"PING", "CFG1", "short", "other", "error"}, pongOk, kickOk, outOk \in BOOLEAN :
       usb' = OutComplete(usb, packet, pongOk, kickOk, outOk)

SetAlt ==
  /\ Callback /\ Event
  /\ \E result \in SetAltResult, ok \in BOOLEAN : usb' = FunctionSetAlt(usb, result, ok)

Disable ==
  /\ Callback /\ Event
  /\ usb' = FunctionDisable(usb)

DisconnectOrSuspend ==
  /\ Callback /\ Event
  /\ usb' = BusLost(usb)

-----------------------------------------------------------------------------
(* The gateway task: gateway_ameba_task's loop, one pass of which is       *)
(* force -> retry -> watch -> poll.  task.job says for which of the two    *)
(* callers the shared functions enqueue_init_packet and kick_tx run.       *)

Goto(pc) == task' = [task EXCEPT !.pc = pc]

(* Where a caller continues when it is done with the ring. *)
AfterJob == IF task.job = "retry" THEN "watch" ELSE "force"

(* gateway_usb_try_force_configure: its test, then set_alt. *)
TaskForce ==
  /\ task.pc = "force"
  /\ \/ ~usb.configured /\ Goto("setalt")
     \/ Goto("retry")     \* configured, or the bus speed is not known
  /\ UNCHANGED <<usb, media, events>>

TaskSetAlt ==
  /\ task.pc = "setalt"
  /\ \E result \in SetAltResult, ok \in BOOLEAN :
       /\ EventIf(~(result = "done" /\ ok))
       /\ usb' = FunctionSetAlt(usb, result, ok)
  /\ Goto("retry")
  /\ UNCHANGED media

(* Mutant: nothing is kicked once the init packet was sent. *)
MutTaskRetry ==
  /\ task.pc = "retry"
  /\ task' = IF usb.configured /\ usb.hostReady /\ ~usb.initSent
               THEN [task EXCEPT !.job = "retry", !.pc = "putInit"]
               ELSE [task EXCEPT !.pc = "watch"]
  /\ UNCHANGED <<usb, media, events>>

(* gateway_usb_retry_init_if_needed: its tests, and the test of            *)
(* proto_init_sent in gateway_usb_enqueue_init_packet.                     *)
TaskRetry ==
  /\ task.pc = "retry"
  /\ task' = IF usb.configured /\ usb.hostReady
               THEN [task EXCEPT !.job = "retry", !.pc = IF usb.initSent THEN "kick" ELSE "putInit"]
               ELSE [task EXCEPT !.pc = "watch"]
  /\ UNCHANGED <<usb, media, events>>

(* gateway_usb_enqueue_init_packet after its test: the ring write ... *)
TaskPutInit ==
  /\ task.pc = "putInit"
  /\ usb' = TxEnqueue(usb, InitPacket, <<>>)
  /\ Goto(IF Fits(usb.tx, InitPacket, <<>>) THEN "markInit" ELSE AfterJob)
  /\ UNCHANGED <<media, events>>

(* ... and, outside the critical section, the flag. *)
TaskMarkInit ==
  /\ task.pc = "markInit"
  /\ usb' = [usb EXCEPT !.initSent = TRUE]
  /\ Goto(IF task.job = "media" THEN "putMedia" ELSE "kick")
  /\ UNCHANGED <<media, events>>

(* gateway_usb_kick_tx: the unlocked test of configured and in_busy, ... *)
TaskKick ==
  /\ task.pc = "kick"
  /\ Goto(IF usb.configured /\ ~usb.inBusy THEN "peek" ELSE AfterJob)
  /\ UNCHANGED <<usb, media, events>>

(* ... the copy into in_buf under the lock, ... *)
TaskPeek ==
  /\ task.pc = "peek"
  /\ LET chunk == PeekChunk(usb.tx, Chunk)
     IN IF chunk = <<>>
          THEN Goto(AfterJob) /\ UNCHANGED usb
          ELSE /\ usb' = [usb EXCEPT !.buf = chunk]
               /\ task' = [task EXCEPT !.pc = "arm", !.len = Len(chunk)]
  /\ UNCHANGED <<media, events>>

(* ... in_busy and in_flight_len, ... *)
TaskArm ==
  /\ task.pc = "arm"
  /\ usb' = [usb EXCEPT !.inBusy = TRUE, !.inFlight = task.len]
  /\ Goto("queue")
  /\ UNCHANGED <<media, events>>

(* ... and usb_ep_queue, whose failure undoes them. *)
TaskQueue ==
  /\ task.pc = "queue"
  /\ \E ok \in BOOLEAN :
       /\ EventIf(~ok)
       /\ usb' = IF Accepts(usb, ok) THEN [usb EXCEPT !.inReq = usb.buf]
                 ELSE [usb EXCEPT !.inBusy = FALSE, !.inFlight = 0]
  /\ Goto(AfterJob)
  /\ UNCHANGED media

(* Mutant: the stall time starts anew in every pass. *)
MutTaskWatch ==
  /\ task.pc = "watch"
  /\ task' = [task EXCEPT !.pc = "poll", !.stall = 0]
  /\ usb' = [usb EXCEPT !.progress = FALSE]
  /\ UNCHANGED <<media, events>>

(* The stall watchdog of the loop.  A pass takes at least one tick and     *)
(* any number when the upstream blocked it.                                *)
TaskWatch ==
  /\ task.pc = "watch"
  /\ LET stalled == usb.inBusy /\ ~usb.progress
     IN \/ /\ ~stalled
           /\ task' = [task EXCEPT !.pc = "poll", !.stall = 0]
           /\ usb' = [usb EXCEPT !.progress = FALSE]
        \/ /\ stalled
           /\ \E t \in task.stall + 1 .. StallTicks :
                task' = [task EXCEPT !.stall = t, !.pc = IF t = StallTicks THEN "cancel" ELSE "poll"]
           /\ UNCHANGED usb
  /\ UNCHANGED <<media, events>>

(* The watchdog's gateway_usb_reset_stream_session: cancel, ... *)
TaskCancel ==
  /\ task.pc = "cancel"
  /\ usb' = CancelIn(usb)
  /\ Goto("clear")
  /\ UNCHANGED <<media, events>>

(* ... the critical section of gateway_usb_tx_reset, ... *)
TaskClear ==
  /\ task.pc = "clear"
  /\ usb' = ClearRing(usb)
  /\ Goto("unmark")
  /\ UNCHANGED <<media, events>>

(* ... the flag it resets outside of it, and the watchdog's bookkeeping.   *)
TaskUnmark ==
  /\ task.pc = "unmark"
  /\ usb' = [usb EXCEPT !.initSent = FALSE, !.progress = FALSE]
  /\ task' = [task EXCEPT !.pc = "poll", !.stall = 0]
  /\ UNCHANGED <<media, events>>

(* gateway_upstream_poll delivers a decrypted media frame, or none. *)
TaskPoll ==
  /\ task.pc = "poll"
  /\ \/ /\ media < MaxMedia
        /\ media' = media + 1
        /\ IF usb.configured /\ usb.hostReady
             THEN \E len \in PayloadLens :
                    task' = [task EXCEPT !.job = "media", !.payload = len,
                                         !.pc = IF usb.initSent THEN "putMedia" ELSE "putInit"]
             ELSE Goto("force")
     \/ Goto("force") /\ UNCHANGED media
  /\ UNCHANGED <<usb, events>>

(* gateway_usb_enqueue_media_packet; a packet that does not fit, or that   *)
(* could not be encrypted (ok is FALSE), is dropped.                       *)
TaskPutMedia ==
  /\ task.pc = "putMedia"
  /\ LET header  == MediaHeader(media, task.payload)
         payload == MediaPayload(media, task.payload)
     IN \E ok \in BOOLEAN :
          /\ EventIf(~ok)
          /\ usb' = IF ok THEN TxEnqueue(usb, header, payload) ELSE usb
          /\ Goto(IF ok /\ Fits(usb.tx, header, payload) THEN "kick" ELSE AfterJob)
  /\ UNCHANGED media

-----------------------------------------------------------------------------
Init ==
  /\ usb = UsbInit
  /\ task = [pc |-> "force", job |-> "retry", len |-> 0, payload |-> 0, stall |-> 0]
  /\ media = 0
  /\ events = 0

BusNext == \/ HostReads \/ InFails \/ LateCompletion \/ HostWrites
           \/ SetAlt \/ Disable \/ DisconnectOrSuspend

TaskNext == \/ TaskForce \/ TaskSetAlt \/ TaskRetry
            \/ TaskPutInit \/ TaskMarkInit
            \/ TaskKick \/ TaskPeek \/ TaskArm \/ TaskQueue
            \/ TaskWatch \/ TaskCancel \/ TaskClear \/ TaskUnmark
            \/ TaskPoll \/ TaskPutMedia

Next == BusNext \/ TaskNext

Spec == Init /\ [][Next]_vars

(* The task is never blocked for good: its loop ends in a delay. *)
FairSpec == Spec /\ WF_vars(TaskNext)

-----------------------------------------------------------------------------
(* Types of the state. *)
TypeOK ==
  /\ usb.tx \in RingOf(Byte)
  /\ \A f \in {"configured", "hostReady", "initSent", "inBusy", "resetting",
               "progress", "late", "outReq", "skewed"} : usb[f] \in BOOLEAN
  /\ usb.inFlight \in 0 .. Chunk /\ usb.consumed \in Nat
  /\ \A f \in {"buf", "inReq", "log"} : usb[f] \in Seq(Byte)
  /\ task.pc \in {"force", "setalt", "retry", "putInit", "markInit", "kick", "peek", "arm",
                  "queue", "watch", "cancel", "clear", "unmark", "poll", "putMedia"}
  /\ task.job \in {"retry", "media"}
  /\ task.len \in 0 .. Chunk /\ task.payload \in PayloadLens \cup {0}
  /\ task.stall \in 0 .. StallTicks
  /\ media \in 0 .. MaxMedia /\ events \in 0 .. MaxEvents

(* The ring holds exactly the enqueued bytes that were not yet consumed,   *)
(* in order: index arithmetic, wrap-around and the clamped consume of a    *)
(* late completion never lose, repeat or reorder a byte inside the ring.   *)
RingIsFifo ==
  /\ WellFormed(usb.tx)
  /\ Len(usb.log) = usb.consumed + usb.tx.count
  /\ Contents(usb.tx) = SubSeq(usb.log, usb.consumed + 1, Len(usb.log))

(* The ring implements a bounded FIFO of whole packets, whatever the two   *)
(* contexts, the host and the controller do.                               *)
UsbPacket ==
  {InitPacket} \cup {MediaHeader(n, len) \o MediaPayload(n, len) : n \in 1 .. MaxMedia, len \in PayloadLens}

Fifo == INSTANCE PacketFifo WITH Capacity <- RingSize, Packet <- UsbPacket, queue <- Contents(usb.tx)

RingImplementsFifo == Fifo!Spec

(* What was put into the ring since it was last cleared is a sequence of   *)
(* whole packets: a full ring drops a packet, it never truncates one, and  *)
(* no other context's packet lands inside it.                              *)
WholePackets ==
  \A i \in DOMAIN usb.log :
    LET pkt == usb.log[i][1]  ix == usb.log[i][2]  len == usb.log[i][3]
    IN /\ ix > 1   => i > 1 /\ usb.log[i - 1] = <<pkt, ix - 1, len>>
       /\ ix < len => i < Len(usb.log) /\ usb.log[i + 1] = <<pkt, ix + 1, len>>

(* in_buf belongs to the controller while the request is queued: the host  *)
(* receives what was handed over.                                          *)
BufferOwned == usb.inReq # <<>> => usb.buf = usb.inReq

(* The bytes the ring gave up are the bytes the host received: nothing is  *)
(* consumed unsent, nothing is sent twice.                                 *)
ConsumedIsReceived == ~usb.skewed

(* A session's stream starts with the init packet and has no other one. *)
InitOnceAndFirst ==
  \A i \in DOMAIN usb.log : usb.log[i] = InitPacket[1] <=> i = 1

(* in_busy is true exactly while the controller has the IN request. *)
BusyMeansQueued == BetweenCalls => (usb.inBusy <=> usb.inReq # <<>>)

(* The firmware's account of its one transfer is true: in_busy says        *)
(* whether the controller has it, and what the ring gives up when it       *)
(* completes is what the host received.                                    *)
TransferTruthful == ConsumedIsReceived /\ BusyMeansQueued

(* A PING is answered with a PONG: what the host receives when the request *)
(* queued by send_pong completes is the PONG.                              *)
PingGetsPong == usb.inReq = PongPacket => usb.buf = PongPacket

(* Nothing waits for ever: with a configured device and a host that has    *)
(* spoken, the ring is emptied, by the host or by the watchdog.            *)
RingDrains ==
  usb.tx.count > 0 ~> (usb.tx.count = 0 \/ ~(usb.configured /\ usb.hostReady))

(* in_busy is never stuck, whatever became of the request it stands for. *)
BusyEnds == usb.inBusy ~> ~usb.inBusy
=============================================================================
