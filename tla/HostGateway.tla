---------------------------- MODULE HostGateway ----------------------------
(***************************************************************************)
(* The host relay (gateway/gateway.c): the accept loop of main, the thread *)
(* that gateway_session_main runs for the one client it serves, and the    *)
(* flag they share; with its two neighbours, the TCP clients (the reader   *)
(* of gateway_client.cpp) and wsh264, of which only what goes over the     *)
(* sockets is kept: crypto_init, then packets in order (Wsh264Source).     *)
(*                                                                         *)
(* A socket is a queue.  A send to the client waits while its buffer is    *)
(* full.  A WebSocket frame arrives in two parts, so that the session can  *)
(* be caught inside ws_upstream_recv_frame.                                *)
(***************************************************************************)
EXTENDS Integers, Sequences, FiniteSets

CONSTANTS Clients,    \* the TCP clients, each connects at most once
          SockBuf,    \* how many writes a client's socket holds
          MaxMedia,   \* bound on the packets of an upstream session
          MaxFaults   \* bound on failing calls and peers

ASSUME GatewayAssumption ==
  /\ SockBuf \in Nat \ {0} /\ MaxMedia \in Nat /\ MaxFaults \in Nat

VARIABLES
  active,   \* runtime.session_active
  main,     \* the accept loop: where it is and the client it has accepted
  session,  \* per client: where its thread is, have_nonce, the frame it holds
  up,       \* per client: the connection to wsh264
  client,   \* per client: its connection, seen from both ends, and its reader
  log,      \* history: what was written to a client
  faults

vars == <<active, main, session, up, client, log, faults>>

Fault == faults < MaxFaults /\ faults' = faults + 1

Alive(c) == session[c].pc \notin {"none", "done"}

-----------------------------------------------------------------------------
(* Payloads: as wsh264 encrypts them, and as it would show them.           *)
(* crypto_stream_decrypt_packet refuses what does not start with a         *)
(* packet's magic and version, and a picture or sound never does.          *)
Packet(seq) == [form |-> "packet", seq |-> seq]
Plain(seq)  == [form |-> "plain", seq |-> seq]

Decrypts(p) == p.form = "packet"
Decrypted(p) == Plain(p.seq)

-----------------------------------------------------------------------------
(* main: accept, and refuse a second client.                               *)

(* Mutant: a second client is taken on. *)
MutMainAccepts(c) ==
  /\ main.pc = "accept" /\ client[c].conn = "queued"
  /\ main' = [pc |-> "set", fd |-> c]
  /\ client' = [client EXCEPT ![c].conn = "open"]
  /\ UNCHANGED <<active, session, up, log, faults>>

(* accept; the test of the flag; malloc. *)
MainAccepts(c) ==
  /\ main.pc = "accept" /\ client[c].conn = "queued"
  /\ \/ /\ IF active THEN UNCHANGED faults ELSE Fault
        /\ client' = [client EXCEPT ![c].conn = "closed"]
        /\ UNCHANGED main
     \/ /\ ~active
        /\ main' = [pc |-> "set", fd |-> c]
        /\ client' = [client EXCEPT ![c].conn = "open"]
        /\ UNCHANGED faults
  /\ UNCHANGED <<active, session, up, log>>

MainSets ==
  /\ main.pc = "set"
  /\ active' = TRUE
  /\ main' = [main EXCEPT !.pc = "create"]
  /\ UNCHANGED <<session, up, client, log, faults>>

(* Mutant: the flag stays on when the thread could not be created. *)
MutMainCreates ==
  /\ main.pc = "create"
  /\ \/ session' = [session EXCEPT ![main.fd].pc = "connect"] /\ UNCHANGED <<client, faults>>
     \/ Fault /\ client' = [client EXCEPT ![main.fd].conn = "closed"] /\ UNCHANGED session
  /\ main' = [main EXCEPT !.pc = "accept"]
  /\ UNCHANGED <<active, up, log>>

(* pthread_create *)
MainCreates ==
  /\ main.pc = "create"
  /\ \/ session' = [session EXCEPT ![main.fd].pc = "connect"] /\ UNCHANGED <<active, client, faults>>
     \/ /\ Fault
        /\ active' = FALSE
        /\ client' = [client EXCEPT ![main.fd].conn = "closed"]
        /\ UNCHANGED session
  /\ main' = [main EXCEPT !.pc = "accept"]
  /\ UNCHANGED <<up, log>>

-----------------------------------------------------------------------------
(* gateway_session_main                                                    *)

At(c, pc) == session[c].pc = pc
Goto(c, pc) == session' = [session EXCEPT ![c].pc = pc]

(* tcp_transport_write_all to the client: it may succeed for a while after *)
(* the client has gone, and then fails.                                    *)
Writes(c, item, next) ==
  \/ /\ client[c].left \/ Len(client[c].unread) < SockBuf
     /\ client' = [client EXCEPT ![c].unread = IF client[c].left THEN @ ELSE Append(@, item)]
     /\ log' = [log EXCEPT ![c] = Append(@, item)]
     /\ Goto(c, next) /\ UNCHANGED faults
  \/ /\ IF client[c].left THEN UNCHANGED faults ELSE Fault
     /\ Goto(c, "stop") /\ UNCHANGED <<client, log>>

(* ws_upstream_connect *)
SessionConnects(c) ==
  /\ At(c, "connect")
  /\ \/ /\ Goto(c, "init")
        /\ up' = [up EXCEPT ![c].open = TRUE]
        /\ UNCHANGED faults
     \/ Fault /\ Goto(c, "stop") /\ UNCHANGED up
  /\ UNCHANGED <<active, main, client, log>>

SessionWritesInit(c) ==
  /\ At(c, "init")
  /\ Writes(c, [kind |-> "init"], "start")
  /\ UNCHANGED <<active, main, up>>

(* start_stream, start_audio_stream *)
SessionStarts(c) ==
  /\ At(c, "start") \/ At(c, "startAudio")
  /\ \/ /\ Goto(c, IF At(c, "start") THEN "startAudio" ELSE "select")
        /\ up' = [up EXCEPT ![c].started = TRUE]
        /\ UNCHANGED faults
     \/ /\ IF up[c].lost THEN UNCHANGED faults ELSE Fault
        /\ Goto(c, "stop") /\ UNCHANGED up
  /\ UNCHANGED <<active, main, client, log>>

UpReadable(c) == up[c].wire # <<>> \/ up[c].begun \/ up[c].lost

(* Mutant: the client's socket is not watched. *)
MutSessionSelects(c) ==
  /\ At(c, "select") /\ UpReadable(c) /\ Goto(c, "recv")
  /\ UNCHANGED <<active, main, up, client, log, faults>>

(* select, which may fail; whatever the client sends, or its end           *)
(* (tcp_transport_peek_status), ends the session.                          *)
SessionSelects(c) ==
  /\ At(c, "select")
  /\ \/ /\ IF client[c].left \/ client[c].talked THEN Goto(c, "stop")
           ELSE UpReadable(c) /\ Goto(c, "recv")
        /\ UNCHANGED faults
     \/ Fault /\ Goto(c, "stop")
  /\ UNCHANGED <<active, main, up, client, log>>

(* ws_upstream_recv_frame waits for the whole frame; crypto_init gives the *)
(* nonce, a packet is decrypted, and dropped when there is no nonce yet.   *)
SessionReceives(c) ==
  /\ At(c, "recv")
  /\ \/ /\ up[c].wire # <<>>
        /\ LET frame == Head(up[c].wire)
               relay == frame.kind = "media" /\ session[c].nonce
               next  == IF relay /\ Decrypts(frame.payload) THEN "header"
                        ELSE IF relay \/ frame.kind = "close" THEN "stop" ELSE "select"
           IN session' = [session EXCEPT ![c].pc = next,
                                         ![c].nonce = IF frame.kind = "crypto_init" THEN TRUE ELSE @,
                                         ![c].frame = IF next = "header" THEN frame ELSE @]
        /\ up' = [up EXCEPT ![c].wire = Tail(@)]
        /\ UNCHANGED faults
     \/ /\ up[c].wire = <<>> /\ up[c].lost
        /\ Goto(c, "stop") /\ UNCHANGED <<up, faults>>
     \/ Fault /\ Goto(c, "stop") /\ UNCHANGED up      \* malloc
  /\ UNCHANGED <<active, main, client, log>>

SessionWritesHeader(c) ==
  /\ At(c, "header")
  /\ Writes(c, [kind |-> "header", seq |-> session[c].frame.payload.seq], "payload")
  /\ UNCHANGED <<active, main, up>>

(* Mutant: a failed write of the payload is not noticed. *)
MutSessionWritesPayload(c) ==
  /\ At(c, "payload")
  /\ \/ Writes(c, [kind |-> "payload", payload |-> Decrypted(session[c].frame.payload)], "select")
     \/ Fault /\ Goto(c, "select") /\ UNCHANGED <<client, log>>
  /\ UNCHANGED <<active, main, up>>

(* The decrypted payload goes to the client. *)
SessionWritesPayload(c) ==
  /\ At(c, "payload")
  /\ Writes(c, [kind |-> "payload", payload |-> Decrypted(session[c].frame.payload)], "select")
  /\ UNCHANGED <<active, main, up>>

(* Mutant: the upstream connection is only closed in an orderly session. *)
MutSessionClosesUpstream(c) ==
  /\ At(c, "stop")
  /\ up' = [up EXCEPT ![c].open = up[c].lost]
  /\ Goto(c, "closeClient")
  /\ UNCHANGED <<active, main, client, log, faults>>

(* cleanup: the stop commands and the close frame, whose failure nobody    *)
(* looks at, then ws_upstream_close, ...                                   *)
SessionClosesUpstream(c) ==
  /\ At(c, "stop")
  /\ up' = [up EXCEPT ![c].open = FALSE]
  /\ Goto(c, "closeClient")
  /\ UNCHANGED <<active, main, client, log, faults>>

(* ... the client's socket, ... *)
SessionClosesClient(c) ==
  /\ At(c, "closeClient")
  /\ client' = [client EXCEPT ![c].conn = "closed"]
  /\ Goto(c, "clear")
  /\ UNCHANGED <<active, main, up, log, faults>>

(* ... and the flag. *)
SessionClears(c) ==
  /\ At(c, "clear")
  /\ active' = FALSE
  /\ Goto(c, "done")
  /\ UNCHANGED <<main, up, client, log, faults>>

-----------------------------------------------------------------------------
(* wsh264, per connection: after start_stream crypto_init, then packets.   *)

(* A frame begins to arrive, ... *)
UpstreamBegins(c) ==
  /\ up[c].open /\ up[c].started /\ ~up[c].begun /\ ~up[c].lost
  /\ up[c].sent <= MaxMedia
  /\ up' = [up EXCEPT ![c].begun = TRUE]
  /\ UNCHANGED <<active, main, session, client, log, faults>>

(* ... and is there. *)
UpstreamFinishes(c) ==
  /\ up[c].open /\ up[c].begun /\ ~up[c].lost
  /\ LET frame == IF up[c].sent = 0 THEN [kind |-> "crypto_init"]
                  ELSE [kind |-> "media", payload |-> Packet(up[c].sent)]
     IN up' = [up EXCEPT ![c].begun = FALSE, ![c].sent = @ + 1, ![c].wire = Append(@, frame)]
  /\ UNCHANGED <<active, main, session, client, log, faults>>

(* It closes the connection, with a close frame or without. *)
UpstreamEnds(c) ==
  /\ up[c].open /\ ~up[c].lost
  /\ Fault
  /\ \E bye \in {<<>>, <<[kind |-> "close"]>>} :
       /\ up[c].begun => bye = <<>>
       /\ up' = [up EXCEPT ![c].lost = TRUE, ![c].begun = FALSE, ![c].wire = @ \o bye]
  /\ UNCHANGED <<active, main, session, client, log>>

-----------------------------------------------------------------------------
(* A TCP client.                                                           *)

ClientConnects(c) ==
  /\ client[c].conn = "none"
  /\ client' = [client EXCEPT ![c].conn = "queued"]
  /\ UNCHANGED <<active, main, session, up, log, faults>>

(* Some other program than gateway_client sends something. *)
ClientTalks(c) ==
  /\ client[c].conn \in {"queued", "open"} /\ ~client[c].left /\ ~client[c].talked
  /\ Fault
  /\ client' = [client EXCEPT ![c].talked = TRUE]
  /\ UNCHANGED <<active, main, session, up, log>>

(* The user quits. *)
ClientLeaves(c) ==
  /\ client[c].conn # "none" /\ ~client[c].left
  /\ client' = [client EXCEPT ![c].left = TRUE, ![c].unread = <<>>]
  /\ UNCHANGED <<active, main, session, up, log, faults>>

(* network_reader uses a payload when decrypt_usb_media_payload accepts it: *)
(* a packet whose stream and number are those of the header.               *)
Accepts(header, p) == Decrypts(p) /\ p.seq = header

(* The init packet, then network_reader: a header, its payload.            *)
ClientReads(c) ==
  /\ ~client[c].left /\ client[c].unread # <<>>
  /\ LET item == Head(client[c].unread)
         got  == item.kind = "payload"
         good == got /\ Accepts(client[c].header, item.payload)
     IN client' = [client EXCEPT ![c].unread = Tail(@),
                                 ![c].header = IF item.kind = "header" THEN item.seq ELSE @,
                                 ![c].shown = IF good THEN @ + 1 ELSE @,
                                 ![c].dropped = IF got /\ ~good THEN @ + 1 ELSE @]
  /\ UNCHANGED <<active, main, session, up, log, faults>>

(* The end of the stream: the reader stops the client. *)
ClientEnds(c) ==
  /\ client[c].conn = "closed" /\ ~client[c].left /\ client[c].unread = <<>>
  /\ client' = [client EXCEPT ![c].left = TRUE]
  /\ UNCHANGED <<active, main, session, up, log, faults>>

-----------------------------------------------------------------------------
Init ==
  /\ active = FALSE
  /\ \E c \in Clients : main = [pc |-> "accept", fd |-> c]
  /\ session = [c \in Clients |-> [pc |-> "none", nonce |-> FALSE, frame |-> [kind |-> "none"]]]
  /\ up = [c \in Clients |-> [open |-> FALSE, started |-> FALSE, begun |-> FALSE, sent |-> 0,
                              wire |-> <<>>, lost |-> FALSE]]
  /\ client = [c \in Clients |-> [conn |-> "none", left |-> FALSE, talked |-> FALSE,
                                  unread |-> <<>>, header |-> 0, shown |-> 0, dropped |-> 0]]
  /\ log = [c \in Clients |-> <<>>]
  /\ faults = 0

MainNext == (\E c \in Clients : MainAccepts(c)) \/ MainSets \/ MainCreates

SessionNext(c) ==
  \/ SessionConnects(c) \/ SessionWritesInit(c) \/ SessionStarts(c) \/ SessionSelects(c)
  \/ SessionReceives(c) \/ SessionWritesHeader(c) \/ SessionWritesPayload(c)
  \/ SessionClosesUpstream(c) \/ SessionClosesClient(c) \/ SessionClears(c)

Outside(c) ==
  \/ UpstreamBegins(c) \/ UpstreamFinishes(c) \/ UpstreamEnds(c)
  \/ ClientConnects(c) \/ ClientTalks(c) \/ ClientLeaves(c) \/ ClientReads(c) \/ ClientEnds(c)

(* All clients have come and gone: main waits in accept. *)
Idle ==
  /\ main.pc = "accept"
  /\ \A c \in Clients : client[c].conn = "closed" /\ client[c].left /\ ~Alive(c)
  /\ UNCHANGED vars

Next == MainNext \/ (\E c \in Clients : SessionNext(c) \/ Outside(c)) \/ Idle

Spec == Init /\ [][Next]_vars

(* The gateway's threads are scheduled, and a frame that has begun to      *)
(* arrive arrives: recv_frame has no timeout.  Clients and wsh264 need not *)
(* do anything else.                                                       *)
FairSpec ==
  /\ Spec
  /\ WF_vars(MainNext)
  /\ \A c \in Clients : WF_vars(SessionNext(c)) /\ WF_vars(UpstreamFinishes(c))

-----------------------------------------------------------------------------
(* Types of the state. *)
TypeOK ==
  /\ active \in BOOLEAN
  /\ main.pc \in {"accept", "set", "create"} /\ main.fd \in Clients
  /\ \A c \in Clients :
       /\ session[c].pc \in {"none", "connect", "init", "start", "startAudio", "select", "recv",
                             "header", "payload", "stop", "closeClient", "clear", "done"}
       /\ client[c].conn \in {"none", "queued", "open", "closed"}
       /\ Len(client[c].unread) \in 0 .. SockBuf
       /\ client[c].header \in 0 .. MaxMedia
       /\ client[c].shown + client[c].dropped \in 0 .. MaxMedia
       /\ up[c].sent \in 0 .. MaxMedia + 1 /\ Len(up[c].wire) <= MaxMedia + 2

(* One client at a time: no session, and no connection to wsh264, exists   *)
(* beside another, not even one that is just being cleaned up.             *)
OneSession ==
  \A c, d \in Clients : (Alive(c) \/ up[c].open) /\ (Alive(d) \/ up[d].open) => c = d

(* The flag is on exactly while a session exists or is being created: a    *)
(* failure path that forgot it would refuse every client from then on.     *)
ActiveTruthful == active <=> (main.pc = "create" \/ \E c \in Clients : Alive(c))

(* Whatever ended a session, it leaves neither socket open. *)
NothingLeft ==
  \A c \in Clients : session[c].pc = "done" => ~up[c].open /\ client[c].conn = "closed"

(* What a client is sent is the init packet, then the packets of wsh264,   *)
(* decrypted, in order and without a gap, header before payload.           *)
RelayInOrder ==
  \A c \in Clients : \A k \in DOMAIN log[c] :
    log[c][k] = IF k = 1 THEN [kind |-> "init"]
                ELSE IF k % 2 = 0 THEN [kind |-> "header", seq |-> k \div 2]
                ELSE [kind |-> "payload", payload |-> Plain(k \div 2)]

(* No failure or slow client makes the relayed stream skip or repeat. *)
Relayed == TypeOK /\ RelayInOrder

(* When its client goes, a session ends, wherever it is: waiting for the   *)
(* rest of a frame, or for room in the client's socket.                    *)
SessionEnds == \A c \in Clients : (Alive(c) /\ client[c].left) ~> session[c].pc = "done"

(* What wsh264 sends and the gateway relays, the client shows: the README  *)
(* describes the demo over TCP as the whole video pipe.                    *)
PipeIsOpen == \A c \in Clients : client[c].dropped = 0
=============================================================================
