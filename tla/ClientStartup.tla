--------------------------- MODULE ClientStartup ---------------------------
(***************************************************************************)
(* How gateway_client (gateway_client/gateway_client.cpp) starts a session *)
(* with the firmware over USB, composed with the firmware itself: the      *)
(* state and the task of AmebaUsb, whose callbacks run here when the       *)
(* client's transfers reach the device.                                    *)
(*                                                                         *)
(* prepare_usb_stream_startup reads away what an earlier session left      *)
(* behind, sends CFG1 and PING, waits for the PONG with its own number and *)
(* only then takes an init packet; what followed the init packet in the    *)
(* same transfer is kept for the reader.  main tries it twice, with two    *)
(* numbers.  An earlier process has used the same numbers.                 *)
(*                                                                         *)
(* A bulk-OUT transfer ends for the host when the controller has taken it, *)
(* before the firmware's callback has seen it.                             *)
(***************************************************************************)
EXTENDS AmebaUsb

CONSTANTS MaxFlush,   \* the 16 stale transfers prepare_usb_stream_startup reads
          SendConfig  \* UsbUpstreamOptions.enabled

ASSUME StartupAssumption == MaxFlush \in Nat \ {0} /\ SendConfig \in BOOLEAN

(* A cancelled request completes inside usb_ep_dequeue: this module has no *)
(* other completion of it; AmebaUsb's own runs show what the firmware does *)
(* when it completes later.                                                *)
CancelsAtOnce == ~LateCancel

VARIABLES
  cli,    \* the client: where it is and what it has
  link    \* the OUT packet on its way, and what became of the PINGs

startupVars == <<usb, task, media, events, cli, link>>

(* No packet is on its way. *)
Nothing == [kind |-> "none", seq |-> 0]

(***************************************************************************)
(* cli.attempt is 1 or 2 and stands for the PING's number 0x3000 or        *)
(* 0x3001; cli.got is what the client keeps of the stream: the transfer    *)
(* with the init packet and what it read after it.  link.out is the packet *)
(* that the controller holds for the firmware, link.pong the number in the *)
(* last PONG put into in_buf.  link.session is the attempt whose PING the  *)
(* firmware handled last since this process opened the device (0: none),   *)
(* link.intact whether the ring was not cleared since then.                *)
(***************************************************************************)
StartupInit ==
  /\ Init
  /\ cli = [pc |-> "before", attempt |-> 1, flushed |-> 0, gotPong |-> FALSE, got |-> <<>>]
  /\ link = [out |-> Nothing, pong |-> 0, session |-> 0, intact |-> FALSE]

(* The ring was cleared by a step that takes usb to usb'. *)
StaysIntact == link.intact /\ Len(usb'.log) >= Len(usb.log)

-----------------------------------------------------------------------------
(* The firmware's steps.                                                   *)

(* Everything AmebaUsb does without the host's data transfers. *)
Firmware ==
  /\ TaskNext \/ InFails \/ SetAlt \/ Disable \/ DisconnectOrSuspend
  /\ link' = [link EXCEPT !.intact = StaysIntact,
                          !.out = IF usb.outReq /\ ~usb'.outReq THEN Nothing ELSE @]
  /\ UNCHANGED cli

(* gateway_usb_out_complete with the client's packet. *)
FirmwareOut ==
  /\ Callback
  /\ usb.outReq /\ link.out # Nothing
  /\ \E pongOk, kickOk, outOk \in BOOLEAN :
       /\ EventIf(~(pongOk /\ kickOk /\ outOk))
       /\ usb' = OutComplete(usb, link.out.kind, pongOk, kickOk, outOk)
       /\ link' = IF link.out.kind = "PING"
                    THEN [out |-> Nothing, pong |-> link.out.seq, session |-> link.out.seq,
                          intact |-> TRUE]
                    ELSE [link EXCEPT !.out = Nothing, !.intact = StaysIntact]
  /\ UNCHANGED cli

(* The same with an error status: no new OUT request is queued. *)
FirmwareOutFails ==
  /\ Callback /\ Event
  /\ usb.outReq
  /\ usb' = OutComplete(usb, "error", TRUE, TRUE, TRUE)
  /\ link' = [link EXCEPT !.out = Nothing]
  /\ UNCHANGED cli

-----------------------------------------------------------------------------
(* The client's transfers.                                                 *)

(* A bulk-IN transfer that ends well: the client has the bytes, and the    *)
(* firmware's in_complete runs.                                            *)
Receives ==
  /\ Callback
  /\ usb.inReq # <<>>
  /\ \E ok \in BOOLEAN :
       /\ EventIf(~ok)
       /\ usb' = Completion([usb EXCEPT !.inReq = <<>>], Len(usb.inReq), usb.buf, ok)
  /\ link' = [link EXCEPT !.intact = StaysIntact]

(* A bulk-OUT transfer that ends well; it blocks, time-out after time-out, *)
(* until the controller has room for it.                                   *)
Sends(kind) ==
  /\ usb.outReq /\ link.out = Nothing
  /\ link' = [link EXCEPT !.out = [kind |-> kind, seq |-> cli.attempt]]
  /\ UNCHANGED <<usb, task, media>>

(* Nothing but the client moves. *)
ClientOnly == UNCHANGED <<usb, task, media, events, link>>

(* The process before this one sends its first PING. *)
EarlierClient ==
  /\ cli.pc = "before"
  /\ Sends("PING") /\ Event
  /\ UNCHANGED cli

(* gateway_client_transport_usb_open: it ends with the selection of        *)
(* alternate setting 0, which the device answers with set_alt.             *)
Opens ==
  /\ Callback
  /\ cli.pc = "before"
  /\ usb' = FunctionSetAlt(usb, "done", TRUE)
  /\ link' = [link EXCEPT !.out = Nothing, !.session = 0, !.intact = FALSE]
  /\ cli' = [cli EXCEPT !.pc = "flush"]
  /\ UNCHANGED events

-----------------------------------------------------------------------------
(* prepare_usb_stream_startup and main's second try.                       *)

(* The flush loop: a transfer is thrown away. *)
Flushes ==
  /\ cli.pc = "flush"
  /\ Receives
  /\ cli' = [cli EXCEPT !.flushed = @ + 1,
                        !.pc = IF cli.flushed + 1 >= MaxFlush THEN "config" ELSE @]

(* The flush loop ends with a time-out of 20 ms, or with any error. *)
FlushEnds ==
  /\ cli.pc = "flush"
  /\ cli' = [cli EXCEPT !.pc = "config"]
  /\ ClientOnly

(* send_usb_upstream_config *)
SendsConfig ==
  /\ cli.pc = "config"
  /\ IF SendConfig THEN Sends("CFG1") /\ UNCHANGED events ELSE ClientOnly
  /\ cli' = [cli EXCEPT !.pc = "ping"]

SendsPing ==
  /\ cli.pc = "ping"
  /\ Sends("PING") /\ UNCHANGED events
  /\ cli' = [cli EXCEPT !.pc = "wait"]

IsInit(bytes) == bytes[1] = InitPacket[1]

IsPong(bytes) == bytes[1] = PongPacket[1]

(* Mutant: what came with the init packet is dropped. *)
MutTakesInit(bytes) ==
  CASE cli.gotPong /\ IsInit(bytes) -> [cli EXCEPT !.pc = "up", !.got = InitPacket]
    [] IsPong(bytes) /\ link.pong = cli.attempt -> [cli EXCEPT !.gotPong = TRUE]
    [] OTHER -> cli

(* One transfer of the waiting loop: the init packet, if the PONG was seen *)
(* before; the PONG with the number of this PING; anything else is stale.  *)
Takes(bytes) ==
  CASE cli.gotPong /\ IsInit(bytes) -> [cli EXCEPT !.pc = "up", !.got = bytes]
    [] IsPong(bytes) /\ link.pong = cli.attempt -> [cli EXCEPT !.gotPong = TRUE]
    [] OTHER -> cli

Waits ==
  /\ cli.pc = "wait"
  /\ Receives
  /\ cli' = Takes(usb.buf)

(* Mutant: it is tried again and again. *)
MutFailed ==
  [cli EXCEPT !.pc = "flush", !.attempt = 2, !.flushed = 0, !.gotPong = FALSE]

(* An attempt that failed: startup.have_init and leftover are cleared and  *)
(* got_pong is a new local variable of the second one.                     *)
Failed ==
  IF cli.attempt = 1
    THEN [cli EXCEPT !.pc = "flush", !.attempt = 2, !.flushed = 0, !.gotPong = FALSE]
    ELSE [cli EXCEPT !.pc = "failed"]

(* The 4 s are over. *)
WaitEnds ==
  /\ cli.pc = "wait"
  /\ cli' = Failed
  /\ ClientOnly

(* No local address, a host or path that is too long, a failed write or a  *)
(* failed read.                                                            *)
AttemptFails ==
  /\ Event
  /\ cli.pc \in {"config", "ping", "wait"}
  /\ cli' = Failed
  /\ UNCHANGED <<usb, task, media, link>>

(* The reader's transfers: the stream goes on after the leftover. *)
Streams ==
  /\ cli.pc = "up"
  /\ Receives
  /\ cli' = [cli EXCEPT !.got = @ \o usb.buf]

-----------------------------------------------------------------------------
ClientNext == \/ Opens \/ Flushes \/ FlushEnds \/ SendsConfig \/ SendsPing
              \/ Waits \/ WaitEnds \/ Streams

StartupNext == Firmware \/ FirmwareOut \/ FirmwareOutFails \/ EarlierClient \/ ClientNext \/ AttemptFails

StartupSpec == StartupInit /\ [][StartupNext]_startupVars

(* The task and the client are scheduled, a callback that is due runs      *)
(* sooner or later between two calls of the task, and the client's clock   *)
(* goes on.                                                                *)
StartupFairSpec ==
  /\ StartupSpec
  /\ WF_startupVars(TaskNext /\ Firmware)
  /\ SF_startupVars(FirmwareOut)
  /\ SF_startupVars(Opens)
  /\ WF_startupVars(FlushEnds)
  /\ WF_startupVars(SendsConfig) /\ WF_startupVars(SendsPing)
  /\ WF_startupVars(WaitEnds)

-----------------------------------------------------------------------------
(* Types of the client's state; a PONG's number is a PING's. *)
StartupTypeOK ==
  /\ cli.pc \in {"before", "flush", "config", "ping", "wait", "up", "failed"}
  /\ cli.attempt \in {1, 2} /\ cli.flushed \in 0 .. MaxFlush
  /\ cli.gotPong \in BOOLEAN /\ cli.got \in Seq(Byte)
  /\ link.out.kind \in {"none", "PING", "CFG1"} /\ link.out.seq \in 0 .. 2
  /\ link.pong \in 0 .. 2 /\ link.session \in 0 .. 2 /\ link.intact \in BOOLEAN

(* The init packet the client takes belongs to the session that its own    *)
(* PING began: never one that the firmware sent for CFG1, for the first    *)
(* attempt or for the process before, whose numbers were the same.         *)
InitIsFresh ==
  [][cli.pc # "up" /\ cli'.pc = "up" => link.session = cli.attempt]_startupVars

(* From that init packet on the client has every byte of the session, in   *)
(* order: what came with the init packet is not lost.                      *)
NothingSkipped ==
  cli.pc = "up" /\ link.intact =>
    /\ Len(cli.got) = usb.consumed
    /\ cli.got = SubSeq(usb.log, 1, usb.consumed)

(* The client starts with the first byte of the session it asked for, and  *)
(* misses none of it.                                                      *)
StartsFresh == [](StartupTypeOK /\ NothingSkipped) /\ InitIsFresh

(* Startup comes to an end unless the device has no OUT request: no data   *)
(* it has to skip, no lost PONG and no reset by the firmware keeps it      *)
(* beyond its deadline, but a write is retried for ever.                   *)
StartupEnds ==
  cli.pc = "flush" ~> (cli.pc \in {"up", "failed"} \/ ~usb.outReq)
=============================================================================
