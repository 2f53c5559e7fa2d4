----------------------------- MODULE ServerParts -----------------------------
(***************************************************************************)
(* The models of wsh264's WebSocket side, and of how it cuts its file,     *)
(* side by side: they share no state.  A behaviour is one of one part; the *)
(* others rest in an initial state.                                        *)
(*                                                                         *)
(*   bridge   WsBridge                                                     *)
(*   reuse    WsServer as long as the application calls nothing            *)
(*   close    WsServer with ws_close_client and ws_ping, and with one      *)
(*            connection: when a slot is used again while a time-out       *)
(*            thread or a ping still works on it, ws.c closes the wrong    *)
(*            connection                                                   *)
(*   ping     WsServer with the broadcast ws_ping, by one thread, and two  *)
(*            connections                                                  *)
(*   frames   WsFrames: the bytes make a character of one byte (3), one of *)
(*            three (232 169 169) and a valid close code (3 232)           *)
(*   utf8     the decoder of Utf8, byte by byte                            *)
(*   file     NalScan                                                      *)
(***************************************************************************)
EXTENDS WsBridge

VARIABLE part

(* WsServer *)
CONSTANTS MaxClients, MaxConns, App, Ops, Early, Threshold, MaxPing, MaxCloses

VARIABLES slot, session, timer, app, mutex, pinging, net

Server == INSTANCE WsServer

(* WsFrames *)
CONSTANTS MaxFrame, MaxCtrl, MaxParts

VARIABLES validate, closing, frame_type, msg_data, utf8_state, cur, ended, event, reply, parts

Upto(n) == UNION {[1 .. k -> {3, 232, 169}] : k \in 0 .. n}
Make(fin, rsv, op, data) == [fin |-> fin, rsv |-> rsv, op |-> op, data |-> data]

PeerFrames ==
  {Make(fin, FALSE, op, data) : fin \in BOOLEAN, op \in {"TXT", "CONT"}, data \in Upto(2)}
  \cup {Make(fin, FALSE, "BIN", data) : fin \in BOOLEAN, data \in {<<>>, <<3>>, <<232, 3>>}}
  \cup {Make(TRUE, FALSE, "CLSE", data) : data \in Upto(3)}
  \cup {Make(fin, FALSE, op, data) : fin \in BOOLEAN, op \in {"PING", "PONG"},
                                     data \in {<<>>, <<3>>, <<3, 3, 3, 3>>}}
  \cup {Make(TRUE, TRUE, "TXT", <<>>), Make(TRUE, FALSE, "reserved", <<>>)}

Frames == INSTANCE WsFrames WITH Frame <- PeerFrames

(* Utf8 *)
CONSTANTS MaxText,   \* the length of the longest text
          TextBytes  \* the bytes it is made of

VARIABLES text, decoder

(* NalScan *)
CONSTANT MaxFile

VARIABLES file, start, chunk, before, touched

Nal == INSTANCE NalScan WITH MaxSize <- MaxFile

ASSUME PartsAssumption ==
  /\ Server!ServerAssumption /\ Frames!FramesAssumption
  /\ MaxText \in Nat /\ TextBytes \subseteq 0 .. 255 /\ MaxFile \in Nat

serverVars == <<slot, session, timer, app, mutex, pinging, net>>
frameVars  == <<validate, closing, frame_type, msg_data, utf8_state, cur, ended, event, reply, parts>>
utf8Vars   == <<text, decoder>>
fileVars   == <<file, start, chunk, before, touched>>

AllInit ==
  /\ part \in {"bridge", "reuse", "close", "ping", "frames", "utf8", "file"}
  /\ Init
  /\ part # "bridge" => mem = [h \in Handle |-> mem[CHOOSE g \in Handle : TRUE]]
  /\ Server!Init
  /\ Frames!Init
  /\ part # "frames" => validate
  /\ text = <<>> /\ decoder = Frames!Accept
  /\ IF part = "file" THEN Nal!Init
     ELSE file = <<>> /\ start = 1 /\ chunk = Nal!NoChunk /\ before = 0 /\ touched = {}

BridgeNext ==
  part = "bridge" /\ Next /\ UNCHANGED <<part, serverVars, frameVars, utf8Vars, fileVars>>

(* No call of the application is under way. *)
NoCalls == \A a \in App : app[a] = Server!Idle

(* Only the first n connections were accepted. *)
Connections(n) == \A c \in Server!Conns : c > n => Server!At(c, "none")

ServerNext ==
  /\ Server!Next
  /\ \/ part = "reuse" /\ NoCalls'
     \/ part = "close" /\ Connections(1)' /\ \A a \in App : app'[a].single
     \/ /\ part = "ping" /\ Connections(2)'
        /\ \A a \in App : app'[a] # Server!Idle => a = 1 /\ ~app'[a].single
  /\ UNCHANGED <<part, vars, frameVars, utf8Vars, fileVars>>

FramesNext ==
  part = "frames" /\ Frames!Next /\ UNCHANGED <<part, vars, serverVars, utf8Vars, fileVars>>

Utf8Next ==
  /\ part = "utf8"
  /\ Len(text) < MaxText /\ decoder # Frames!Reject
  /\ \E b \in TextBytes : text' = Append(text, b) /\ decoder' = Frames!Decode(decoder, b)
  /\ UNCHANGED <<part, vars, serverVars, frameVars, fileVars>>

FileNext ==
  part = "file" /\ Nal!Next /\ UNCHANGED <<part, vars, serverVars, frameVars, utf8Vars>>

AllNext == BridgeNext \/ ServerNext \/ FramesNext \/ Utf8Next \/ FileNext

(* Sessions, time-out threads and callers are scheduled. *)
ServerFairness ==
  /\ WF_serverVars(part = "close" /\ Server!SessionRuns(1))
  /\ WF_serverVars(part = "close" /\ Server!TimerRuns(1))
  /\ \A a \in App : WF_serverVars(part \in {"close", "ping"} /\ Server!AppRuns(a))

AllSpec ==
  /\ AllInit
  /\ [][AllNext]_<<part, vars, serverVars, frameVars, utf8Vars, fileVars>>
  /\ ServerFairness

-----------------------------------------------------------------------------
(* Each on_open has its on_close; a slot has one session as long as only   *)
(* sessions free it; and then, or when slots are not used again, no socket *)
(* stays open behind a session, whoever of the session, its time-out       *)
(* thread and ws_ping had to close it.                                     *)
ServerSound ==
  /\ Server!TypeOK /\ Server!EventsPaired
  /\ part = "reuse" => Server!SlotOwned
  /\ part \in {"reuse", "close"} => Server!EndedIsClosed

(* The session of a peer that has gone ends; "if the client did not send a *)
(* close frame in TIMEOUT_MS milliseconds, the server will close the       *)
(* connection" (ws.c:743); a broadcast ping returns.                       *)
ServerLive ==
  /\ (part = "close" /\ ~net[1].up) ~> session[1].pc = "ended"
  /\ (part = "close" /\ net[1].asked) ~> net[1].shut
  /\ []<>(part = "ping" => NoCalls)

(* The decoder accepts well-formed text and nothing else, and rejects as   *)
(* soon as nothing can make a text well-formed: surrogates, overlong forms *)
(* and what is beyond 10ffff included.                                     *)
DecoderCorrect ==
  /\ decoder = Frames!Accept <=> Frames!WellFormed(text)
  /\ decoder = Frames!Reject <=> ~Frames!Continuable(text)

(* on_message gets the messages that were sent and no others, only what is *)
(* really no text is refused as such, and a CLOSE is answered by a code    *)
(* that may be sent.                                                       *)
FramesSound ==
  DecoderCorrect /\ Frames!TypeOK /\ Frames!Assembled /\ Frames!RefusedIsBad /\ Frames!CodeMayBeSent

(* The file is cut exactly at its start codes, and nothing outside of it   *)
(* is read but one byte behind a file that ends with a start code.         *)
FileCut == Nal!CutAtCodes /\ Nal!ReadsInFile
=============================================================================
