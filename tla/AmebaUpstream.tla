--------------------------- MODULE AmebaUpstream ---------------------------
(***************************************************************************)
(* The firmware's connection to wsh264 (gateway_upstream_* and the loop of *)
(* gateway_ameba_task): configured by CFG1 packets from the USB callback,  *)
(* connected with retries, polled, and closed when the configuration       *)
(* changes.                                                                *)
(*                                                                         *)
(* A frame travels as two units, its header and its payload; reads block   *)
(* between them.  Units of a connection are numbered.  Time is what the    *)
(* code computes with it: since = now - next_upstream_retry_tick, in the   *)
(* width W of a tick counter and read as a signed number.                  *)
(***************************************************************************)
EXTENDS Integers, Sequences

CONSTANTS Configs,  \* bound on the accepted CFG1 packets
          Frames,   \* bound on the frames of one connection
          Retry,    \* GATEWAY_AMEBA_UPSTREAM_RETRY_MS in ticks
          W         \* number of values of a tick counter

ASSUME UpstreamAssumption ==
  /\ Configs \in Nat /\ Frames \in Nat /\ Retry \in Nat /\ W \in Nat
  /\ 0 < Retry /\ 2 * Retry < W

VARIABLES
  cfg,        \* gateway_upstream_config: the number of the packet it is from, 0: not valid
  reconnect,  \* gateway_upstream_reconnect_requested
  pc,         \* where the task is
  upCfg,      \* the snapshot the connection, or the attempt, is made from
  sock,       \* a socket is open
  connected,  \* state->connected
  nonce,      \* state->have_nonce and session_nonce: whose it is
  pre,        \* state->prebuffer from prebuffer_off on
  since,      \* now - next_upstream_retry_tick
  frame,      \* the header being received
  wifi,       \* gateway_wifi_connected && gateway_wifi_dhcp_ready
  wire,       \* units the server sent that were not read
  conn,       \* the connection at the server: 0 or 1 in turn
  sent,       \* units the server sent on it
  shut,       \* the server has closed it
  handled,    \* history: units taken from this connection
  rest        \* history: ticks since the last attempt, Retry if it was waived

up    == <<upCfg, sock, connected, nonce, pre>>
peer  == <<wire, conn, sent, shut>>
vars  == <<cfg, reconnect, pc, up, since, frame, wifi, peer, handled, rest>>

Signed(n) == IF n < W \div 2 THEN n ELSE n - W

Kinds   == {"init", "text", "media", "close"}
NoFrame == [conn |-> 2, num |-> 0, kind |-> "rest"]

Init ==
  /\ cfg = 0 /\ reconnect = FALSE /\ pc = "top"
  /\ upCfg = 0 /\ sock = FALSE /\ connected = FALSE /\ nonce = 2 /\ pre = <<>>
  /\ since = 0 /\ frame = NoFrame /\ wifi \in BOOLEAN
  /\ wire = <<>> /\ conn = 0 /\ sent = 0 /\ shut = TRUE
  /\ handled = 0 /\ rest = Retry

-----------------------------------------------------------------------------
(* Fault: no reconnect is requested while the task is connecting. *)
MutApplyUsbConfig ==
  /\ cfg < Configs /\ cfg' = cfg + 1 /\ reconnect' = (pc \notin {"dial", "request", "reply"})
  /\ UNCHANGED <<pc, up, since, frame, wifi, peer, handled, rest>>

(* The USB callback: gateway_upstream_apply_usb_config, in one critical    *)
(* section.  A packet without a port, a host or a path changes nothing.    *)
ApplyUsbConfig ==
  /\ cfg < Configs /\ cfg' = cfg + 1 /\ reconnect' = TRUE
  /\ UNCHANGED <<pc, up, since, frame, wifi, peer, handled, rest>>

(* have_nonce and session_nonce, at a close and before an attempt. *)
ForgetNonce == nonce' = 2

(* gateway_upstream_close *)
Close ==
  /\ sock' = FALSE /\ connected' = FALSE /\ ForgetNonce /\ pre' = <<>>
  /\ UNCHANGED upCfg

-----------------------------------------------------------------------------
(* The loop of gateway_ameba_task.                                         *)

SeesRequest ==
  /\ pc = "top"
  /\ IF reconnect THEN Close /\ pc' = "clear" ELSE pc' = "wifi" /\ UNCHANGED up
  /\ UNCHANGED <<cfg, reconnect, since, frame, wifi, peer, handled, rest>>

(* The flag is cleared after the close: a packet that comes in between is  *)
(* forgotten, but nothing is connected with what it replaced.              *)
ClearsRequest ==
  /\ pc = "clear" /\ reconnect' = FALSE /\ since' = 0 /\ rest' = Retry /\ pc' = "wifi"
  /\ UNCHANGED <<cfg, up, frame, wifi, peer, handled>>

(* The conditions before gateway_upstream_connect and _poll.  The next     *)
(* attempt is timed from before this one.                                  *)
MayConnect == cfg # 0 /\ ~connected /\ Signed(since) >= 0

ChecksWifi ==
  /\ pc = "wifi"
  /\ IF wifi /\ MayConnect
     THEN pc' = "snapshot" /\ since' = W - Retry /\ rest' = 0
     ELSE pc' = (IF wifi THEN "poll" ELSE "delay") /\ UNCHANGED <<since, rest>>
  /\ UNCHANGED <<cfg, reconnect, up, frame, wifi, peer, handled>>

-----------------------------------------------------------------------------
(* gateway_upstream_connect *)

(* Fault: an attempt uses what the first one read. *)
MutSnapshots ==
  /\ pc = "snapshot" /\ upCfg' = (IF upCfg = 0 THEN cfg ELSE upCfg) /\ ForgetNonce
  /\ \/ sock' = TRUE /\ pc' = "dial"
     \/ sock' = FALSE /\ pc' = "poll"
  /\ UNCHANGED <<cfg, reconnect, connected, pre, since, frame, wifi, peer, handled, rest>>

(* gateway_upstream_config_snapshot, in a critical section, and the socket. *)
Snapshots ==
  /\ pc = "snapshot" /\ upCfg' = cfg /\ ForgetNonce
  /\ \/ sock' = TRUE /\ pc' = "dial"
     \/ sock' = FALSE /\ pc' = "poll"
  /\ UNCHANGED <<cfg, reconnect, connected, pre, since, frame, wifi, peer, handled, rest>>

(* An attempt that fails closes its socket. *)
Fails ==
  /\ sock' = FALSE /\ pc' = "poll" /\ UNCHANGED <<upCfg, connected, nonce, pre>>

(* lwip_connect, which may block but not for ever. *)
Dials ==
  /\ pc = "dial"
  /\ \/ /\ conn' = 1 - conn /\ sent' = 0 /\ wire' = <<>> /\ shut' = FALSE
        /\ handled' = 0 /\ pc' = "reply" /\ UNCHANGED up
     \/ Fails /\ UNCHANGED <<peer, handled>>
  /\ UNCHANGED <<cfg, reconnect, since, frame, wifi, rest>>

(* The request is written and the reply read up to its empty line.  What   *)
(* the last read had beyond it is kept.  Writing, the reply, or keeping    *)
(* the rest may fail.                                                      *)
Replied ==
  /\ pc = "reply"
  /\ \/ \E n \in 0 .. Len(wire) :
          /\ pre' = (IF n = 0 THEN pre ELSE SubSeq(wire, 1, n))
          /\ wire' = SubSeq(wire, n + 1, Len(wire))
          /\ connected' = TRUE /\ pc' = "start"
          /\ UNCHANGED <<upCfg, sock, nonce, conn, sent, shut>>
     \/ Fails /\ UNCHANGED peer
  /\ UNCHANGED <<cfg, reconnect, since, frame, wifi, handled, rest>>

(* start_stream and start_audio_stream are sent. *)
Starts ==
  /\ pc = "start" /\ pc' = "poll"
  /\ \/ UNCHANGED up
     \/ Close
  /\ UNCHANGED <<cfg, reconnect, since, frame, wifi, peer, handled, rest>>

-----------------------------------------------------------------------------
(* gateway_upstream_poll *)

(* select looks at the socket only, never at the prebuffer. *)
Polls ==
  /\ pc = "poll"
  /\ pc' = IF connected /\ (wire # <<>> \/ shut) THEN "header" ELSE "delay"
  /\ UNCHANGED <<cfg, reconnect, up, since, frame, wifi, peer, handled, rest>>

(* gateway_upstream_read_some: the next unit u, from the prebuffer first.  *)
Reads(u) ==
  IF pre # <<>>
  THEN u = Head(pre) /\ pre' = Tail(pre) /\ UNCHANGED wire
  ELSE wire # <<>> /\ u = Head(wire) /\ wire' = Tail(wire) /\ UNCHANGED pre

Available == {Head(s) : s \in {t \in {pre, wire} : t # <<>>}}

ReadsHeader ==
  /\ pc = "header" /\ \E u \in Available : Reads(u) /\ frame' = u
  /\ pc' = "payload" /\ handled' = handled + 1
  /\ UNCHANGED <<cfg, reconnect, upCfg, sock, connected, nonce, since, wifi, conn, sent, shut, rest>>

(* A text frame may carry a nonce, a close frame closes.  A binary one is  *)
(* decrypted with the nonce, if there is one, and queued for USB.          *)
ReadsPayload ==
  /\ pc = "payload" /\ pc' = "delay" /\ frame' = NoFrame /\ handled' = handled + 1
  /\ IF frame.kind = "close"
     THEN Available # {} /\ Close /\ UNCHANGED wire
     ELSE /\ \E u \in Available : Reads(u)
          /\ nonce' = (IF frame.kind = "init" THEN frame.conn ELSE nonce)
          /\ UNCHANGED <<upCfg, sock, connected>>
  /\ UNCHANGED <<cfg, reconnect, since, wifi, conn, sent, shut, rest>>

(* The server has closed and a read finds nothing more, or the connection  *)
(* was reset; or there is no memory for the payload.                       *)
ReadFails ==
  /\ pc \in {"header", "payload"} /\ (shut \/ (pc = "header" /\ pre \o wire # <<>>))
  /\ Close /\ pc' = "delay" /\ frame' = NoFrame
  /\ UNCHANGED <<cfg, reconnect, since, wifi, peer, handled, rest>>

-----------------------------------------------------------------------------
(* Outside of the task: the server, the network and the clock.             *)

(* Headers and payloads alternate. *)
Sends ==
  /\ sock /\ ~shut /\ pc # "dial" /\ sent < 2 * Frames
  /\ \E k \in IF sent % 2 = 0 THEN Kinds ELSE {"rest"} :
       wire' = Append(wire, [conn |-> conn, num |-> sent + 1, kind |-> k])
  /\ sent' = sent + 1
  /\ UNCHANGED <<cfg, reconnect, pc, up, since, frame, wifi, conn, shut, handled, rest>>

PeerCloses ==
  /\ sock /\ ~shut /\ pc # "dial" /\ shut' = TRUE
  /\ UNCHANGED <<cfg, reconnect, pc, up, since, frame, wifi, wire, conn, sent, handled, rest>>

WifiChanges ==
  /\ wifi' = ~wifi
  /\ UNCHANGED <<cfg, reconnect, pc, up, since, frame, peer, handled, rest>>

TimePasses ==
  since' = (since + 1) % W /\ rest' = (IF rest < Retry THEN rest + 1 ELSE rest)

(* vTaskDelay at the end of a round: the unit of time. *)
Delays ==
  /\ pc = "delay" /\ pc' = "top" /\ TimePasses
  /\ UNCHANGED <<cfg, reconnect, up, frame, wifi, peer, handled>>

(* A blocking call takes any time. *)
Blocks ==
  /\ pc \in {"dial", "reply", "payload"} /\ TimePasses
  /\ UNCHANGED <<cfg, reconnect, pc, up, frame, wifi, peer, handled>>

Task ==
  \/ SeesRequest \/ ClearsRequest \/ ChecksWifi \/ Snapshots \/ Dials \/ Replied \/ Starts
  \/ Polls \/ ReadsHeader \/ ReadsPayload \/ ReadFails \/ Delays

Next == ApplyUsbConfig \/ Task \/ Sends \/ PeerCloses \/ WifiChanges \/ Blocks

Spec == Init /\ [][Next]_vars

(* The task is scheduled and its calls return; a server that has sent a    *)
(* header sends the payload or goes: lwip_read has no timeout.             *)
FairSpec == Spec /\ WF_vars(Task) /\ WF_vars(sent % 2 = 1 /\ (Sends \/ PeerCloses))

-----------------------------------------------------------------------------
(* Types of the state; a nonce is the one of the current connection. *)
TypeOK ==
  /\ cfg \in 0 .. Configs /\ reconnect \in BOOLEAN /\ upCfg \in 0 .. Configs
  /\ pc \in {"top", "clear", "wifi", "snapshot", "dial", "reply", "start", "poll", "header",
             "payload", "delay"}
  /\ sock \in BOOLEAN /\ connected \in BOOLEAN /\ shut \in BOOLEAN /\ wifi \in BOOLEAN
  /\ since \in 0 .. W - 1 /\ rest \in 0 .. Retry
  /\ conn \in {0, 1} /\ sent \in 0 .. 2 * Frames /\ handled \in 0 .. 2 * Frames
  /\ nonce \in {2, conn}

(* A connection, or an attempt, made from a configuration that has been    *)
(* replaced is about to be closed: the request to reconnect stands,        *)
(* whenever the packet came.                                               *)
StaleFlagged == sock /\ upCfg # cfg => reconnect

(* The frames of a connection are taken one by one, in the order they were *)
(* sent, wherever the handshake's last read ended and whatever was left of *)
(* an earlier connection.                                                  *)
InOrder ==
  connected =>
    /\ Len(pre \o wire) = sent - handled
    /\ \A i \in 1 .. sent - handled :
         (pre \o wire)[i].conn = conn /\ (pre \o wire)[i].num = handled + i
    /\ pc = "payload" => frame.conn = conn /\ frame.num = handled

(* A socket is open as long as it is used, and never beyond. *)
SocketOwned == sock <=> connected \/ pc \in {"dial", "reply"}

(* Whenever CFG1 arrives and whatever fails: no replaced connection goes   *)
(* unnoticed, no unit is lost or repeated, no socket leaks.                *)
UpstreamSound == TypeOK /\ StaleFlagged /\ InOrder /\ SocketOwned

(* Attempts are at least Retry apart, unless a new configuration arrived   *)
(* in between, also when the tick counter wraps.                           *)
RetryPaced == [][pc = "wifi" /\ pc' = "snapshot" => rest = Retry]_vars

(* With Wi-Fi, the last configuration is used, whatever the task was doing *)
(* when it arrived.                                                        *)
LatestUsed == <>[]wifi => (cfg = Configs ~> upCfg = Configs)

(* With Wi-Fi, a connection that is lost or refused is tried again, also   *)
(* after the tick counter has wrapped.                                     *)
Retries == <>[]wifi => (cfg # 0 /\ ~sock ~> sock \/ pc = "snapshot")
=============================================================================
