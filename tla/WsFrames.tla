------------------------------ MODULE WsFrames ------------------------------
(***************************************************************************)
(* The frame reader of wsh264/src/ws.c: next_frame, read_frame, do_pong    *)
(* and do_close, as one session thread runs them, while another thread may *)
(* set the state to CLOSING.                                               *)
(*                                                                         *)
(* A frame is its FIN and RSV bits, its opcode and its payload, unmasked.  *)
(* The limits on lengths are constants; a length is the 63 bits that the   *)
(* protocol allows, so that sums do not wrap.  PONG numbers are WsServer.  *)
(***************************************************************************)
EXTENDS Utf8

CONSTANTS Frame,     \* the frames a peer may send
          MaxFrame,  \* MAX_FRAME_LENGTH: of a message, all frames together
          MaxCtrl,   \* 125: of a control frame
          MaxParts   \* bound on the frames of a message

(* What the constants have to be. *)
FramesAssumption == MaxFrame \in Nat /\ MaxCtrl \in Nat /\ MaxParts \in Nat

Control == {"CLSE", "PING", "PONG"}
Data == {"TXT", "BIN", "CONT"}
None == [op |-> "none", data |-> <<>>]
NoFrame == [fin |-> FALSE, rsv |-> FALSE, op |-> "none", data |-> <<>>]

VARIABLES
  validate,    \* built with VALIDATE_UTF8
  closing,     \* the connection's state is CLOSING
  frame_type,  \* wfd->frame_type: "none", "TXT", "BIN"
  msg_data,    \* what was read of the message
  utf8_state,
  cur,         \* the frame of which the header was read
  ended,       \* the session leaves its loop
  event,       \* what on_message was called with, at the last frame
  reply,       \* what was sent for the last frame
  parts        \* the data frames of this message as they were sent

vars == <<validate, closing, frame_type, msg_data, utf8_state, cur, ended, event, reply, parts>>

Init ==
  /\ validate \in BOOLEAN
  /\ closing = FALSE
  /\ frame_type = "none" /\ msg_data = <<>> /\ utf8_state = Accept
  /\ cur = NoFrame
  /\ ended = FALSE
  /\ event = None /\ reply = None
  /\ parts = <<>>

(* ws_close_client in another thread. *)
StartsClosing ==
  /\ ~ended /\ ~closing
  /\ closing' = TRUE
  /\ UNCHANGED <<validate, frame_type, msg_data, utf8_state, cur, ended, event, reply, parts>>

-----------------------------------------------------------------------------
(* The first two bytes of a frame                                          *)

(* CONT needs a message that has begun; within one, only CONT and control. *)
Unexpected(f) == \/ frame_type = "none" /\ f.op = "CONT"
                 \/ frame_type # "none" /\ f.op \notin Control \cup {"CONT"}

Refused(f) ==
  \/ f.rsv
  \/ Unexpected(f)
  \/ f.op \notin Data \cup Control
  \/ closing /\ f.op # "CLSE"
  \/ f.op \in Control /\ (~f.fin \/ Len(f.data) > MaxCtrl)

(* The call of next_frame for a new message begins with the first frame.   *)
Header(f) ==
  /\ ~ended /\ cur = NoFrame
  /\ f.op \in Data => Len(parts) < MaxParts \/ event # None
  /\ event' = None /\ reply' = None
  /\ parts' = IF event = None THEN parts ELSE <<>>
  /\ IF Refused(f)
     THEN ended' = TRUE /\ UNCHANGED <<cur, frame_type>>
     ELSE /\ cur' = f
          /\ frame_type' = IF f.op \in {"TXT", "BIN"} THEN f.op ELSE frame_type
          /\ UNCHANGED ended
  /\ UNCHANGED <<validate, closing, msg_data, utf8_state>>

-----------------------------------------------------------------------------
(* The rest of the frame                                                   *)

(* The peer goes before the frame is complete. *)
ReadFails ==
  /\ ~ended
  /\ ended' = TRUE
  /\ event' = None /\ reply' = None
  /\ UNCHANGED <<validate, closing, frame_type, msg_data, utf8_state, cur, parts>>

TooLong == Len(msg_data) + Len(cur.data) > MaxFrame

(* Mutant: the check of a part begins in the accepting state. *)
MutUtf8After == IsUtf8LenState(cur.data, Accept)

Utf8After == IsUtf8LenState(cur.data, utf8_state)

(* The text cannot be, or at the end is not, well-formed. *)
BadText ==
  /\ validate /\ frame_type = "TXT"
  /\ IF cur.fin THEN Utf8After # Accept ELSE Utf8After = Reject

(* do_close with a code of its own. *)
CloseCode(hi, lo) == [op |-> "CLSE", data |-> <<hi, lo>>]
Invutf8 == CloseCode(3, 239)
Proterr == CloseCode(3, 234)

(* A data frame of a message, of which it is the last when FIN is set.     *)
ReadsData ==
  /\ ~ended /\ cur.op \in Data
  /\ parts' = Append(parts, cur)
  /\ IF TooLong \/ BadText
     THEN /\ ended' = TRUE
          /\ reply' = IF TooLong THEN None ELSE Invutf8
          /\ UNCHANGED <<frame_type, msg_data, utf8_state, event>>
     ELSE /\ IF cur.fin
             THEN /\ event' = [op |-> frame_type, data |-> msg_data \o cur.data]
                  /\ frame_type' = "none" /\ msg_data' = <<>> /\ utf8_state' = Accept
             ELSE /\ msg_data' = msg_data \o cur.data
                  /\ utf8_state' = IF validate /\ frame_type = "TXT" THEN Utf8After
                                                                     ELSE utf8_state
                  /\ UNCHANGED <<frame_type, event>>
          /\ UNCHANGED <<ended, reply>>
  /\ cur' = NoFrame
  /\ UNCHANGED <<validate, closing>>

(* do_pong; a failed send ends the session. *)
ReadsPing ==
  /\ ~ended /\ cur.op = "PING"
  /\ \/ reply' = [op |-> "PONG", data |-> cur.data] /\ UNCHANGED ended
     \/ ended' = TRUE /\ UNCHANGED reply
  /\ cur' = NoFrame
  /\ UNCHANGED <<validate, closing, frame_type, msg_data, utf8_state, event, parts>>

ReadsPong ==
  /\ ~ended /\ cur.op = "PONG"
  /\ cur' = NoFrame
  /\ UNCHANGED <<validate, closing, frame_type, msg_data, utf8_state, ended, event, reply, parts>>

-----------------------------------------------------------------------------
(* do_close: what a CLOSE is answered with                                 *)

ValidCode(cc) == cc \in (1000 .. 1003) \cup (1007 .. 1011) \cup (3000 .. 4999)

(* An empty one and one with a reason go back as they are; a bare code     *)
(* only when it is valid.                                                  *)
Answer(data) ==
  LET cc == IF Len(data) = 1 THEN data[1] ELSE data[1] * 256 + data[2]
  IN IF Len(data) \in 1 .. 2 /\ ~ValidCode(cc)
     THEN Proterr ELSE [op |-> "CLSE", data |-> data]

(* A CLOSE ends the session; its reason has to be text.  It is answered    *)
(* unless the state is CLOSING, which it is after the answer.              *)
ReadsClose ==
  /\ ~ended /\ cur.op = "CLSE"
  /\ LET bad == validate /\ Len(cur.data) > 2 /\ ~IsUtf8Len(SubSeq(cur.data, 3, Len(cur.data)))
     IN IF bad \/ closing
        THEN UNCHANGED <<reply, closing>>
        ELSE closing' = TRUE /\ reply' = Answer(cur.data)
  /\ ended' = TRUE
  /\ UNCHANGED <<validate, frame_type, msg_data, utf8_state, cur, event, parts>>

-----------------------------------------------------------------------------
Next == \/ StartsClosing \/ ReadFails
        \/ \E f \in Frame : Header(f)
        \/ ReadsData \/ ReadsPing \/ ReadsPong \/ ReadsClose

Spec == Init /\ [][Next]_vars

-----------------------------------------------------------------------------
Payload(ps) == FlattenSeq([i \in 1 .. Len(ps) |-> ps[i].data])

(* Types of the state; nothing is kept of a message that is complete.      *)
TypeOK ==
  /\ validate \in BOOLEAN /\ closing \in BOOLEAN /\ ended \in BOOLEAN
  /\ frame_type \in {"none", "TXT", "BIN"}
  /\ frame_type = "none" => msg_data = <<>> /\ utf8_state = Accept
  /\ msg_data \in Seq(Byte) /\ utf8_state \in State \ {Reject}
  /\ cur \in Frame \cup {NoFrame}
  /\ event.op \in {"none", "TXT", "BIN"}
  /\ reply.op \in {"none", "CLSE", "PONG"}
  /\ parts \in Seq(Frame)

(* on_message gets the frames of one message, from its first to its only   *)
(* FIN, whatever control frames came between them; never more than is      *)
(* allowed, and as text only what is well-formed.                          *)
Assembled ==
  event # None =>
    /\ event.op = Head(parts).op /\ event.data = Payload(parts)
    /\ \A i \in 1 .. Len(parts) : /\ parts[i].op = "CONT" <=> i > 1
                                  /\ parts[i].fin <=> i = Len(parts)
    /\ Len(event.data) <= MaxFrame
    /\ validate /\ event.op = "TXT" => WellFormed(event.data)

(* A text is refused as such only when it is really no UTF-8: a character  *)
(* may be split between frames.                                            *)
RefusedIsBad ==
  reply = Invutf8 =>
    LET text == Payload(parts)
    IN IF Last(parts).fin THEN ~WellFormed(text) ELSE ~Continuable(text)

(* A CLOSE without a reason is answered by nothing or by a code that may   *)
(* be sent.                                                                *)
CodeMayBeSent ==
  reply.op = "CLSE" /\ Len(reply.data) # 0 =>
    \/ Len(reply.data) > 2
    \/ Len(reply.data) = 2 /\ reply.data[1] * 256 + reply.data[2] \notin (0 .. 999) \cup (1004 .. 1006)
=============================================================================
