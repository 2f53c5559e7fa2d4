------------------------- MODULE HostGatewayProofs -------------------------
(***************************************************************************)
(* The host gateway serves one client at a time and leaves nothing behind, *)
(* and what it relays is the stream of wsh264, in order and without a gap, *)
(* for any number of clients and packets and any failures.                 *)
(***************************************************************************)
EXTENDS HostGateway, SequenceTheorems, TLAPS

(* The states of a session in which it may hold an upstream connection,    *)
(* and all those in which its thread runs.                                 *)
Connected == {"init", "start", "startAudio", "select", "recv", "header", "payload", "stop"}
Working   == Connected \cup {"connect", "closeClient", "clear"}

(* What the proof needs to know of the shape of the state. *)
Shape ==
  /\ DOMAIN main = {"pc", "fd"} /\ main.fd \in Clients
  /\ session = [c \in Clients |-> session[c]]
  /\ \A c \in Clients : DOMAIN session[c] = {"pc", "nonce", "frame"}
  /\ up = [c \in Clients |-> up[c]]
  /\ \A c \in Clients : DOMAIN up[c] = {"open", "started", "begun", "sent", "wire", "lost"}
  /\ client = [c \in Clients |-> client[c]]
  /\ \A c \in Clients :
       DOMAIN client[c] = {"conn", "left", "talked", "unread", "header", "shown", "dropped"}

(* The inductive invariant: main only goes on to a new session while none  *)
(* is left, a connection to wsh264 belongs to a running session, and the   *)
(* flag is the last thing that a session gives up.                         *)
GatewayInv ==
  /\ Shape
  /\ main.pc \in {"accept", "set", "create"}
  /\ active \in BOOLEAN
  /\ ActiveTruthful
  /\ main.pc # "accept" => \A c \in Clients : ~Alive(c)
  /\ \A c, d \in Clients : Alive(c) /\ Alive(d) => c = d
  /\ \A c \in Clients : up[c].open => session[c].pc \in Connected
  /\ \A c \in Clients : session[c].pc \in {"clear", "done"} => client[c].conn = "closed"

(* At the start of main there is no session and the flag is off.           *)
LEMMA InitInv == Init => GatewayInv
  <1>1. SUFFICES ASSUME Init PROVE GatewayInv
    OBVIOUS
  <1>2. \A c \in Clients : session[c].pc = "none" /\ up[c].open = FALSE
    BY <1>1 DEF Init
  <1>3. Shape
    BY <1>1 DEF Init, Shape
  <1>4. main.pc = "accept" /\ active = FALSE
    BY <1>1 DEF Init
  <1>5. QED
    BY <1>2, <1>3, <1>4 DEF GatewayInv, ActiveTruthful, Alive

(* A step of session c that neither begins nor ends it, or of its          *)
(* neighbours.                                                             *)
Moves(c) ==
  /\ active' = active /\ main' = main
  /\ \A d \in Clients \ {c} : session'[d].pc = session[d].pc /\ up'[d].open = up[d].open
  /\ \/ session'[c].pc = session[c].pc /\ up'[c].open = up[c].open
     \/ /\ session[c].pc \in Working /\ session'[c].pc \in Working
        /\ up'[c].open => session'[c].pc \in Connected
  /\ \A d \in Clients : client[d].conn = "closed" => client'[d].conn = "closed"
  /\ session'[c].pc = "clear" => client'[c].conn = "closed"

(* Such a step preserves the invariant.                                    *)
LEMMA MovesInv ==
  ASSUME GatewayInv, NEW c \in Clients, Moves(c), Shape'
  PROVE  GatewayInv'
  <1>1. \A d \in Clients : Alive(d)' <=> Alive(d)
    BY DEF Moves, Alive, Working, Connected
  <1>2. ActiveTruthful'
    BY <1>1 DEF Moves, GatewayInv, ActiveTruthful
  <1>3. /\ main'.pc # "accept" => \A d \in Clients : ~Alive(d)'
        /\ \A d, e \in Clients : Alive(d)' /\ Alive(e)' => d = e
    BY <1>1 DEF Moves, GatewayInv
  <1>4. \A d \in Clients : up'[d].open => session'[d].pc \in Connected
    BY DEF Moves, GatewayInv
  <1>5. \A d \in Clients : session'[d].pc \in {"clear", "done"} => client'[d].conn = "closed"
    BY DEF Moves, GatewayInv, Working, Connected
  <1>6. main'.pc \in {"accept", "set", "create"} /\ active' \in BOOLEAN
    BY DEF Moves, GatewayInv
  <1>7. QED
    BY <1>2, <1>3, <1>4, <1>5, <1>6 DEF GatewayInv

(* Goto changes nothing but the place of one session. *)
LEMMA GotoMoves ==
  ASSUME GatewayInv, NEW c \in Clients, NEW pc, Goto(c, pc),
         session[c].pc \in Working, pc \in Connected \/ (pc \in Working /\ ~up[c].open),
         pc # "clear",
         UNCHANGED <<active, main, up, client>>
  PROVE  Moves(c) /\ Shape'
  <1>1. /\ session'[c].pc = pc
        /\ \A d \in Clients \ {c} : session'[d].pc = session[d].pc
    BY DEF Goto, GatewayInv, Shape
  <1>2. Shape'
    BY DEF Goto, GatewayInv, Shape
  <1>3. QED
    BY <1>1, <1>2 DEF Moves, Working

(* A write to the client, done or failed. *)
LEMMA WritesMoves ==
  ASSUME GatewayInv, NEW c \in Clients, NEW item, NEW next \in Connected, Writes(c, item, next),
         session[c].pc \in Connected,
         UNCHANGED <<active, main, up>>
  PROVE  Moves(c) /\ Shape'
  <1>1. PICK pc \in Connected : Goto(c, pc)
    BY DEF Writes, Connected
  <1>2. /\ session'[c].pc = pc
        /\ \A d \in Clients \ {c} : session'[d].pc = session[d].pc
    BY <1>1 DEF Goto, GatewayInv, Shape
  <1>3. /\ client' = [d \in Clients |-> client'[d]]
        /\ \A d \in Clients : client'[d].conn = client[d].conn
        /\ \A d \in Clients :
             DOMAIN client'[d] = {"conn", "left", "talked", "unread", "header", "shown", "dropped"}
    <2>1. CASE client' = client
      BY <2>1 DEF GatewayInv, Shape
    <2>2. CASE client' = [client EXCEPT ![c].unread = IF client[c].left THEN @ ELSE Append(@, item)]
      <3>1. client' = [d \in Clients |-> client'[d]]
        BY <2>2 DEF GatewayInv, Shape
      <3>2. \A d \in Clients \ {c} : client'[d] = client[d]
        BY <2>2 DEF GatewayInv, Shape
      <3>3. client'[c].conn = client[c].conn /\ DOMAIN client'[c] = DOMAIN client[c]
        BY <2>2 DEF GatewayInv, Shape
      <3>4. QED
        BY <3>1, <3>2, <3>3 DEF GatewayInv, Shape
    <2>3. QED
      BY <2>1, <2>2 DEF Writes
  <1>4. Shape'
    <2>1. session' = [d \in Clients |-> session'[d]]
          /\ \A d \in Clients : DOMAIN session'[d] = {"pc", "nonce", "frame"}
      BY <1>1 DEF Goto, GatewayInv, Shape
    <2>2. QED
      BY <1>3, <2>1 DEF GatewayInv, Shape
  <1>5. QED
    BY <1>1, <1>2, <1>3, <1>4 DEF Moves, Working, Connected

(* Every step of a session but its last. *)
LEMMA SessionMoves ==
  ASSUME GatewayInv, NEW c \in Clients, SessionNext(c), ~SessionClears(c)
  PROVE  Moves(c) /\ Shape'
  <1>1. CASE SessionConnects(c)
    <2>1. CASE Goto(c, "init") /\ up' = [up EXCEPT ![c].open = TRUE]
      <3>1. /\ session'[c].pc = "init" /\ session[c].pc = "connect"
            /\ \A d \in Clients \ {c} : session'[d].pc = session[d].pc /\ up'[d].open = up[d].open
        BY <1>1, <2>1 DEF SessionConnects, At, Goto, GatewayInv, Shape
      <3>2. Shape'
        BY <1>1, <2>1 DEF SessionConnects, Goto, GatewayInv, Shape
      <3>3. QED
        BY <1>1, <3>1, <3>2 DEF SessionConnects, Moves, Working, Connected
    <2>2. CASE Goto(c, "stop") /\ UNCHANGED up
      BY <1>1, <2>2, GotoMoves DEF SessionConnects, At, Working, Connected
    <2>3. QED
      BY <1>1, <2>1, <2>2 DEF SessionConnects
  <1>2. CASE SessionWritesInit(c)
    BY <1>2, WritesMoves DEF SessionWritesInit, At, Connected
  <1>3. CASE SessionStarts(c)
    <2>1. session[c].pc \in Connected
      BY <1>3 DEF SessionStarts, At, Connected
    <2>2. CASE /\ Goto(c, IF At(c, "start") THEN "startAudio" ELSE "select")
               /\ up' = [up EXCEPT ![c].started = TRUE]
      <3>1. /\ session'[c].pc \in Connected \ {"clear"}
            /\ \A d \in Clients \ {c} : session'[d].pc = session[d].pc
            /\ \A d \in Clients : up'[d].open = up[d].open
        BY <2>2 DEF Goto, GatewayInv, Shape, Connected
      <3>2. Shape'
        BY <1>3, <2>2 DEF SessionStarts, Goto, GatewayInv, Shape
      <3>3. QED
        BY <1>3, <2>1, <3>1, <3>2 DEF SessionStarts, Moves, Working, Connected
    <2>3. CASE Goto(c, "stop") /\ UNCHANGED up
      BY <1>3, <2>1, <2>3, GotoMoves DEF SessionStarts, Working, Connected
    <2>4. QED
      BY <1>3, <2>2, <2>3 DEF SessionStarts
  <1>4. CASE SessionSelects(c)
    <2>1. PICK pc \in {"stop", "recv"} : Goto(c, pc)
      BY <1>4 DEF SessionSelects
    <2>2. QED
      BY <1>4, <2>1, GotoMoves DEF SessionSelects, At, Working, Connected
  <1>5. CASE SessionReceives(c)
    <2>1. session[c].pc \in Connected
      BY <1>5 DEF SessionReceives, At, Connected
    <2>2. CASE Goto(c, "stop") /\ UNCHANGED up
      BY <1>5, <2>1, <2>2, GotoMoves DEF SessionReceives, Working, Connected
    <2>3. CASE up' = [up EXCEPT ![c].wire = Tail(@)] /\ ~Goto(c, "stop")
      <3>1. PICK pc \in {"header", "stop", "select"} :
              \E b : \E frame :
                session' = [session EXCEPT ![c].pc = pc, ![c].nonce = b, ![c].frame = frame]
        BY <1>5, <2>3 DEF SessionReceives
      <3>2. /\ session'[c].pc = pc
            /\ \A d \in Clients \ {c} : session'[d].pc = session[d].pc
            /\ \A d \in Clients : up'[d].open = up[d].open
        BY <2>3, <3>1 DEF GatewayInv, Shape
      <3>3. Shape'
        BY <1>5, <2>3, <3>1 DEF SessionReceives, GatewayInv, Shape
      <3>4. QED
        BY <1>5, <2>1, <3>2, <3>3 DEF SessionReceives, Moves, Working, Connected
    <2>4. CASE up' = [up EXCEPT ![c].wire = Tail(@)] /\ Goto(c, "stop")
      <3>1. /\ session'[c].pc = "stop"
            /\ \A d \in Clients \ {c} : session'[d].pc = session[d].pc
            /\ \A d \in Clients : up'[d].open = up[d].open
        BY <2>4 DEF Goto, GatewayInv, Shape
      <3>2. Shape'
        BY <1>5, <2>4 DEF SessionReceives, Goto, GatewayInv, Shape
      <3>3. QED
        BY <1>5, <2>1, <3>1, <3>2 DEF SessionReceives, Moves, Working, Connected
    <2>5. QED
      BY <1>5, <2>2, <2>3, <2>4 DEF SessionReceives
  <1>6. CASE SessionWritesHeader(c)
    BY <1>6, WritesMoves DEF SessionWritesHeader, At, Connected
  <1>7. CASE SessionWritesPayload(c)
    BY <1>7, WritesMoves DEF SessionWritesPayload, At, Connected
  <1>8. CASE SessionClosesUpstream(c)
    <2>1. /\ session'[c].pc = "closeClient" /\ session[c].pc = "stop" /\ up'[c].open = FALSE
          /\ \A d \in Clients \ {c} : session'[d].pc = session[d].pc /\ up'[d].open = up[d].open
      BY <1>8 DEF SessionClosesUpstream, At, Goto, GatewayInv, Shape
    <2>2. Shape'
      BY <1>8 DEF SessionClosesUpstream, Goto, GatewayInv, Shape
    <2>3. QED
      BY <1>8, <2>1, <2>2 DEF SessionClosesUpstream, Moves, Working, Connected
  <1>9. CASE SessionClosesClient(c)
    <2>1. /\ session'[c].pc = "clear" /\ session[c].pc = "closeClient" /\ ~up[c].open
          /\ client'[c].conn = "closed"
          /\ \A d \in Clients \ {c} : session'[d].pc = session[d].pc /\ client'[d].conn = client[d].conn
      BY <1>9 DEF SessionClosesClient, At, Goto, GatewayInv, Shape, Connected
    <2>2. Shape'
      BY <1>9 DEF SessionClosesClient, Goto, GatewayInv, Shape
    <2>3. QED
      BY <1>9, <2>1, <2>2 DEF SessionClosesClient, Moves, Working, Connected
  <1>10. QED
    BY <1>1, <1>2, <1>3, <1>4, <1>5, <1>6, <1>7, <1>8, <1>9 DEF SessionNext

(* wsh264 and the clients move no session, and open no socket again. *)
LEMMA OutsideMoves ==
  ASSUME GatewayInv, NEW c \in Clients, Outside(c)
  PROVE  Moves(c) /\ Shape'
  <1>1. active' = active /\ main' = main /\ session' = session
    BY DEF Outside, UpstreamBegins, UpstreamFinishes, UpstreamEnds, ClientConnects, ClientTalks,
           ClientLeaves, ClientReads, ClientEnds
  <1>2. CASE UpstreamBegins(c) \/ UpstreamFinishes(c) \/ UpstreamEnds(c)
    <2>1. client' = client /\ \A d \in Clients : up'[d].open = up[d].open
      BY <1>2 DEF UpstreamBegins, UpstreamFinishes, UpstreamEnds, GatewayInv, Shape
    <2>2. Shape'
      BY <1>1, <1>2, <2>1 DEF UpstreamBegins, UpstreamFinishes, UpstreamEnds, GatewayInv, Shape
    <2>3. QED
      BY <1>1, <2>1, <2>2 DEF Moves, GatewayInv
  <1>3. CASE \/ ClientConnects(c) \/ ClientTalks(c) \/ ClientLeaves(c) \/ ClientReads(c)
             \/ ClientEnds(c)
    <2>1. up' = up /\ \A d \in Clients : client[d].conn = "closed" => client'[d].conn = "closed"
      BY <1>3 DEF ClientConnects, ClientTalks, ClientLeaves, ClientReads, ClientEnds,
                  GatewayInv, Shape
    <2>2. Shape'
      BY <1>1, <1>3, <2>1 DEF ClientConnects, ClientTalks, ClientLeaves, ClientReads, ClientEnds,
                              GatewayInv, Shape
    <2>3. QED
      BY <1>1, <2>1, <2>2 DEF Moves, GatewayInv
  <1>4. QED
    BY <1>2, <1>3 DEF Outside

(* The end of a session: it was the only one, so the flag is right. *)
LEMMA SessionClearsInv ==
  ASSUME GatewayInv, NEW c \in Clients, SessionClears(c)
  PROVE  GatewayInv'
  <1>1. /\ session[c].pc = "clear" /\ session'[c].pc = "done"
        /\ \A d \in Clients \ {c} : session'[d].pc = session[d].pc
        /\ active' = FALSE /\ main' = main /\ up' = up /\ client' = client
    BY DEF SessionClears, At, Goto, GatewayInv, Shape
  <1>2. Shape'
    BY <1>1 DEF SessionClears, Goto, GatewayInv, Shape
  <1>3. Alive(c)
    BY <1>1 DEF Alive
  <1>4. \A d \in Clients : ~Alive(d)'
    BY <1>1, <1>3 DEF GatewayInv, Alive
  <1>5. main.pc = "accept"
    BY <1>3 DEF GatewayInv
  <1>6. /\ \A d \in Clients : up'[d].open => session'[d].pc \in Connected
        /\ \A d \in Clients : session'[d].pc \in {"clear", "done"} => client'[d].conn = "closed"
    BY <1>1 DEF GatewayInv, Connected
  <1>7. QED
    BY <1>1, <1>2, <1>4, <1>5, <1>6 DEF GatewayInv, ActiveTruthful

(* The accept loop. *)
LEMMA MainInv ==
  ASSUME GatewayInv, MainNext
  PROVE  GatewayInv'
  <1>1. ASSUME NEW c \in Clients, MainAccepts(c) PROVE GatewayInv'
    <2>1. session' = session /\ up' = up /\ active' = active /\ main.pc = "accept"
      BY <1>1 DEF MainAccepts
    <2>2. client[c].conn = "queued" /\ \A d \in Clients \ {c} : client'[d].conn = client[d].conn
      BY <1>1 DEF MainAccepts, GatewayInv, Shape
    <2>3. \/ main' = main
          \/ main'.pc = "set" /\ ~active
      BY <1>1 DEF MainAccepts
    <2>4. Shape'
      <3>1. /\ client' = [d \in Clients |-> client'[d]]
            /\ \A d \in Clients : DOMAIN client'[d] = DOMAIN client[d]
        BY <1>1 DEF MainAccepts, GatewayInv, Shape
      <3>2. main' = main \/ main' = [pc |-> "set", fd |-> c]
        BY <1>1 DEF MainAccepts
      <3>3. /\ DOMAIN main' = {"pc", "fd"} /\ main'.fd \in Clients
        BY <3>2 DEF GatewayInv, Shape
      <3>4. QED
        BY <2>1, <3>1, <3>3 DEF GatewayInv, Shape
    <2>5. \A d \in Clients : Alive(d)' <=> Alive(d)
      BY <2>1 DEF Alive
    <2>6. main'.pc # "accept" => \A d \in Clients : ~Alive(d)'
      BY <2>1, <2>3, <2>5 DEF GatewayInv, ActiveTruthful
    <2>7. ActiveTruthful'
      BY <2>1, <2>3, <2>5 DEF GatewayInv, ActiveTruthful
    <2>8. \A d \in Clients : session'[d].pc \in {"clear", "done"} => client'[d].conn = "closed"
      BY <2>1, <2>2 DEF GatewayInv
    <2>9. QED
      BY <2>1, <2>3, <2>4, <2>5, <2>6, <2>7, <2>8 DEF GatewayInv
  <1>2. CASE MainSets
    <2>1. /\ session' = session /\ up' = up /\ client' = client /\ active' = TRUE
          /\ main.pc = "set" /\ main'.pc = "create"
      BY <1>2 DEF MainSets, GatewayInv, Shape
    <2>2. Shape'
      BY <1>2 DEF MainSets, GatewayInv, Shape
    <2>3. \A d \in Clients : Alive(d)' <=> Alive(d)
      BY <2>1 DEF Alive
    <2>4. QED
      BY <2>1, <2>2, <2>3 DEF GatewayInv, ActiveTruthful
  <1>3. CASE MainCreates
    <2> PICK fd \in Clients : fd = main.fd
      BY DEF GatewayInv, Shape
    <2>1. fd \in Clients /\ up' = up /\ main.pc = "create" /\ main'.pc = "accept"
      BY <1>3 DEF MainCreates, GatewayInv, Shape
    <2>2. \A d \in Clients : ~Alive(d) /\ ~up[d].open
      BY <2>1 DEF GatewayInv, Alive, Connected
    <2>3. Shape'
      BY <1>3 DEF MainCreates, GatewayInv, Shape
    <2>4. active
      BY <2>1 DEF GatewayInv, ActiveTruthful
    <2>5. CASE session' = [session EXCEPT ![fd].pc = "connect"] /\ UNCHANGED <<active, client>>
      <3>1. session'[fd].pc = "connect" /\ \A d \in Clients \ {fd} : session'[d].pc = session[d].pc
        BY <2>1, <2>5 DEF GatewayInv, Shape
      <3>2. Alive(fd)' /\ \A d \in Clients \ {fd} : ~Alive(d)'
        BY <2>2, <3>1 DEF Alive
      <3>3. ActiveTruthful'
        BY <2>1, <2>4, <2>5, <3>2 DEF ActiveTruthful
      <3>4. \A d \in Clients : session'[d].pc \in {"clear", "done"} => client'[d].conn = "closed"
        BY <2>5, <3>1 DEF GatewayInv
      <3>5. \A d \in Clients : ~up'[d].open
        BY <2>1, <2>2
      <3>6. QED
        BY <2>1, <2>3, <2>5, <3>2, <3>3, <3>4, <3>5 DEF GatewayInv
    <2>6. CASE /\ active' = FALSE /\ UNCHANGED session
               /\ client' = [client EXCEPT ![fd].conn = "closed"]
      <3>1. \A d \in Clients : ~Alive(d)'
        BY <2>2, <2>6 DEF Alive
      <3>2. ActiveTruthful'
        BY <2>1, <2>6, <3>1 DEF ActiveTruthful
      <3>3. \A d \in Clients : session'[d].pc \in {"clear", "done"} => client'[d].conn = "closed"
        BY <2>6 DEF GatewayInv, Shape
      <3>4. \A d \in Clients : ~up'[d].open
        BY <2>1, <2>2
      <3>5. QED
        BY <2>1, <2>3, <2>6, <3>1, <3>2, <3>3, <3>4 DEF GatewayInv
    <2>7. QED
      BY <1>3, <2>5, <2>6 DEF MainCreates
  <1>4. QED
    BY <1>1, <1>2, <1>3 DEF MainNext

(* GatewayInv holds in every state: main, the sessions and their neighbours *)
(* each preserve it.                                                       *)
THEOREM GatewayInvariant == Spec => []GatewayInv
  <1>1. GatewayInv /\ [Next]_vars => GatewayInv'
    <2>1. SUFFICES ASSUME GatewayInv, [Next]_vars PROVE GatewayInv'
      OBVIOUS
    <2>2. CASE MainNext
      BY <2>1, <2>2, MainInv
    <2>3. ASSUME NEW c \in Clients, SessionNext(c) PROVE GatewayInv'
      BY <2>1, <2>3, SessionMoves, SessionClearsInv, MovesInv
    <2>4. ASSUME NEW c \in Clients, Outside(c) PROVE GatewayInv'
      BY <2>1, <2>4, OutsideMoves, MovesInv
    <2>5. CASE Idle \/ UNCHANGED vars
      BY <2>1, <2>5 DEF Idle, vars, GatewayInv, Shape, ActiveTruthful, Alive
    <2>6. QED
      BY <2>1, <2>2, <2>3, <2>4, <2>5 DEF Next
  <1>2. QED
    BY InitInv, <1>1, PTL DEF Spec

-----------------------------------------------------------------------------
(* No session and no upstream connection beside another: session_active is *)
(* tested before it is set, and cleared last.                              *)
THEOREM OneSessionAlways == Spec => []OneSession
  <1>1. GatewayInv => OneSession
    BY DEF GatewayInv, OneSession, Alive, Connected
  <1>2. QED
    BY GatewayInvariant, <1>1, PTL

(* session_active is on exactly while a session exists or is created.      *)
THEOREM ActiveTruthfulAlways == Spec => []ActiveTruthful
  <1>1. GatewayInv => ActiveTruthful
    BY DEF GatewayInv
  <1>2. QED
    BY GatewayInvariant, <1>1, PTL

(* The cleanup of gateway_session_main leaves neither socket open.         *)
THEOREM NothingLeftAlways == Spec => []NothingLeft
  <1>1. GatewayInv => NothingLeft
    BY DEF GatewayInv, NothingLeft, Connected
  <1>2. QED
    BY GatewayInvariant, <1>1, PTL

-----------------------------------------------------------------------------
(* What the k-th write to a client is, and the i-th frame of a session of  *)
(* wsh264.                                                                 *)
Item(k) ==
  IF k = 1 THEN [kind |-> "init"]
  ELSE IF k % 2 = 0 THEN [kind |-> "header", seq |-> k \div 2]
  ELSE [kind |-> "payload", payload |-> Plain(k \div 2)]

Frame(i) == IF i = 0 THEN [kind |-> "crypto_init"] ELSE [kind |-> "media", payload |-> Packet(i)]
Close    == [kind |-> "close"]

Items  == [kind : {"init"}] \cup [kind : {"header"}, seq : Nat]
            \cup [kind : {"payload"}, payload : [form : {"plain"}, seq : Nat]]
Frames == [kind : {"crypto_init", "close"}]
            \cup [kind : {"media"}, payload : [form : {"packet"}, seq : Nat]]

(* What wsh264 has sent, of which the session has taken d frames.          *)
Queue(u, d) ==
  /\ d \in 0 .. u.sent
  /\ Len(u.wire) = u.sent - d \/ (Len(u.wire) = u.sent - d + 1 /\ u.lost)
  /\ \A j \in 1 .. Len(u.wire) : u.wire[j] = IF j <= u.sent - d THEN Frame(d + j - 1) ELSE Close

(* How much a session has written when it has taken d frames.              *)
Written(pc, d) ==
  CASE pc \in {"none", "connect", "init"} -> 0
    [] pc \in {"start", "startAudio"}     -> 1
    [] pc \in {"select", "recv"}          -> IF d = 0 THEN 1 ELSE 2 * d - 1
    [] pc = "header"                      -> 2 * d - 3
    [] pc = "payload"                     -> 2 * d - 2

Early     == {"none", "connect", "init", "start", "startAudio"}
Streaming == Early \cup {"select", "recv", "header", "payload"}
Ending    == {"stop", "closeClient", "clear", "done"}

(* A session s that has taken d frames from u and written l. *)
Taken(s, u, l, d) ==
  /\ Queue(u, d) /\ Len(l) = Written(s.pc, d)
  /\ s.nonce <=> d > 0
  /\ s.pc \in Early => d = 0
  /\ s.pc \in {"header", "payload"} => d >= 2 /\ s.frame = Frame(d - 1)

Upstream(u) ==
  /\ u.wire \in Seq(Frames) /\ u.sent \in 0 .. MaxMedia + 1 /\ (u.begun => u.sent <= MaxMedia)
  /\ Len(u.wire) <= u.sent \/ (Len(u.wire) = u.sent + 1 /\ u.lost)

Sent(l) ==
  /\ l \in Seq(Items) /\ Len(l) <= 2 * MaxMedia + 1
  /\ \A j \in 1 .. Len(l) : l[j] = Item(j)

Session(s, u, l) ==
  /\ s.pc \in Streaming \cup Ending
  /\ s.pc \in Streaming => \E d \in Nat : Taken(s, u, l, d)

(* The client has read the first r writes of l, and shown or dropped one   *)
(* payload for each two after the first.                                   *)
ReadUpTo(k, l, r) ==
  /\ r + Len(k.unread) = Len(l)
  /\ \A j \in 1 .. Len(k.unread) : k.unread[j] = l[r + j]
  /\ k.shown + k.dropped = 0 \/ 2 * (k.shown + k.dropped) + 1 <= r

Reader(k, l) ==
  /\ k.conn \in {"none", "queued", "open", "closed"}
  /\ k.unread \in Seq(Items) /\ Len(k.unread) <= SockBuf
  /\ k.header \in 0 .. MaxMedia /\ k.shown \in Nat /\ k.dropped \in Nat
  /\ k.shown + k.dropped <= MaxMedia
  /\ IF k.left THEN k.unread = <<>> ELSE \E r \in Nat : ReadUpTo(k, l, r)

Relay(s, u, k, l) == Upstream(u) /\ Sent(l) /\ Session(s, u, l) /\ Reader(k, l)

(* The inductive invariant of the relayed stream; a client that main has   *)
(* accepted is connected, so it has no session yet.                        *)
RelayInv ==
  /\ log = [c \in Clients |-> log[c]]
  /\ \A c \in Clients : Relay(session[c], up[c], client[c], log[c])
  /\ main.pc # "accept" => client[main.fd].conn = "open"

-----------------------------------------------------------------------------
(* wsh264 sends the next frame. *)
LEMMA QueueGrows ==
  ASSUME NEW u, NEW v, NEW d, Upstream(u), Queue(u, d), ~u.lost, ~v.lost,
         v.sent = u.sent + 1, v.wire = Append(u.wire, Frame(u.sent))
  PROVE  Queue(v, d)
  <1> DEFINE w == u.wire
             x == v.wire
  <1>1. /\ w \in Seq(Frames) /\ u.sent \in Nat /\ d \in 0 .. u.sent /\ Len(w) = u.sent - d
        /\ \A j \in 1 .. Len(w) : w[j] = IF j <= u.sent - d THEN Frame(d + j - 1) ELSE Close
    BY GatewayAssumption DEF Upstream, Queue
  <1>2. /\ Len(x) = Len(w) + 1 /\ x[Len(w) + 1] = Frame(u.sent)
        /\ \A j \in 1 .. Len(w) : x[j] = w[j]
    BY <1>1
  <1> HIDE DEF w, x
  <1>3. \A j \in 1 .. Len(x) : x[j] = IF j <= v.sent - d THEN Frame(d + j - 1) ELSE Close
    <2>1. ASSUME NEW j \in 1 .. Len(w) + 1
          PROVE  x[j] = IF j <= v.sent - d THEN Frame(d + j - 1) ELSE Close
      <3>1. CASE j = Len(w) + 1
        <4>1. d + j - 1 = u.sent /\ j <= v.sent - d
          BY <1>1, <3>1
        <4>2. QED
          BY <1>2, <3>1, <4>1
      <3>2. CASE j # Len(w) + 1
        <4>1. j \in 1 .. Len(w) /\ j <= u.sent - d /\ j <= v.sent - d
          BY <1>1, <3>2, SMTT(30)
        <4>2. QED
          BY <1>1, <1>2, <4>1
      <3>3. QED
        BY <3>1, <3>2
    <2>2. QED
      BY <1>2, <2>1
  <1>4. QED
    BY <1>1, <1>2, <1>3 DEF Queue, w, x

(* It ends the connection, with a close frame or without. *)
LEMMA QueueEnds ==
  ASSUME NEW u, NEW v, NEW d, Upstream(u), Queue(u, d), ~u.lost, v.lost, v.sent = u.sent,
         v.wire = u.wire \/ v.wire = Append(u.wire, Close)
  PROVE  Queue(v, d)
  <1> DEFINE w == u.wire
             x == v.wire
  <1>1. /\ w \in Seq(Frames) /\ u.sent \in Nat /\ d \in 0 .. u.sent /\ Len(w) = u.sent - d
        /\ \A j \in 1 .. Len(w) : w[j] = IF j <= u.sent - d THEN Frame(d + j - 1) ELSE Close
    BY GatewayAssumption DEF Upstream, Queue
  <1>2. CASE x = w
    BY <1>1, <1>2 DEF Queue
  <1>3. CASE x = Append(w, Close)
    <2>1. /\ Len(x) = Len(w) + 1 /\ x[Len(w) + 1] = Close
          /\ \A j \in 1 .. Len(w) : x[j] = w[j]
      BY <1>1, <1>3
    <2> HIDE DEF w, x
    <2>2. ASSUME NEW j \in 1 .. Len(w) + 1
          PROVE  x[j] = IF j <= v.sent - d THEN Frame(d + j - 1) ELSE Close
      BY <1>1, <2>1
    <2>3. QED
      BY <1>1, <2>1, <2>2 DEF Queue, w, x
  <1>4. QED
    BY <1>2, <1>3

(* The session takes a frame. *)
LEMMA QueueTakes ==
  ASSUME NEW u, NEW v, NEW d, Upstream(u), Queue(u, d), u.wire # <<>>,
         v.wire = Tail(u.wire), v.sent = u.sent, v.lost = u.lost
  PROVE  \/ d = u.sent /\ Head(u.wire) = Close
         \/ d < u.sent /\ Head(u.wire) = Frame(d) /\ Queue(v, d + 1)
  <1> DEFINE w == u.wire
             x == v.wire
  <1>1. /\ w \in Seq(Frames) /\ u.sent \in Nat /\ d \in 0 .. u.sent
        /\ Len(w) = u.sent - d \/ (Len(w) = u.sent - d + 1 /\ u.lost)
        /\ \A j \in 1 .. Len(w) : w[j] = IF j <= u.sent - d THEN Frame(d + j - 1) ELSE Close
    BY GatewayAssumption DEF Upstream, Queue
  <1>2. /\ Len(w) \in Nat \ {0} /\ Len(x) = Len(w) - 1 /\ Head(w) = w[1]
        /\ \A j \in 1 .. Len(w) - 1 : x[j] = w[j + 1]
    BY <1>1
  <1> HIDE DEF w, x
  <1>3. CASE d = u.sent
    BY <1>1, <1>2, <1>3 DEF w
  <1>4. CASE d < u.sent
    <2>1. Head(w) = Frame(d)
      <3>1. 1 <= u.sent - d /\ d + 1 - 1 = d /\ 1 \in 1 .. Len(w)
        BY <1>1, <1>2, <1>4
      <3>2. QED
        BY <1>1, <1>2, <3>1
    <2>2. ASSUME NEW j \in 1 .. Len(w) - 1
          PROVE  x[j] = IF j <= u.sent - (d + 1) THEN Frame((d + 1) + j - 1) ELSE Close
      <3>1. /\ j + 1 \in 1 .. Len(w) /\ d + (j + 1) - 1 = (d + 1) + j - 1
            /\ j <= u.sent - (d + 1) <=> j + 1 <= u.sent - d
        BY <1>1, <1>2
      <3>2. w[j + 1] = IF j + 1 <= u.sent - d THEN Frame(d + (j + 1) - 1) ELSE Close
        BY <1>1, <3>1
      <3>3. QED
        BY <1>2, <3>1, <3>2
    <2>3. Queue(v, d + 1)
      BY <1>1, <1>2, <1>4, <2>2, SMTT(30) DEF Queue, w, x
    <2>4. QED
      BY <1>4, <2>1, <2>3 DEF w
  <1>5. QED
    BY <1>1, <1>3, <1>4

(* One more write of what is due. *)
LEMMA SentMore ==
  ASSUME NEW l, Sent(l), Len(l) <= 2 * MaxMedia
  PROVE  /\ Item(Len(l) + 1) \in Items /\ Len(Append(l, Item(Len(l) + 1))) = Len(l) + 1
         /\ Sent(Append(l, Item(Len(l) + 1)))
         /\ \A j \in 1 .. Len(l) : Append(l, Item(Len(l) + 1))[j] = l[j]
         /\ Append(l, Item(Len(l) + 1))[Len(l) + 1] = Item(Len(l) + 1)
  <1> DEFINE len == Len(l)
             item == Item(len + 1)
             m == Append(l, item)
  <1>1. l \in Seq(Items) /\ len \in Nat /\ \A j \in 1 .. len : l[j] = Item(j)
    BY DEF Sent
  <1>2. item \in Items
    <2>1. (len + 1) \div 2 \in Nat
      BY <1>1
    <2>2. QED
      BY <2>1 DEF Item, Items, Plain
  <1>3. /\ m \in Seq(Items) /\ Len(m) = len + 1 /\ m[len + 1] = item
        /\ \A j \in 1 .. len : m[j] = l[j]
    BY <1>1, <1>2, AppendProperties
  <1>4. Sent(m)
    <2>1. ASSUME NEW j \in 1 .. len + 1 PROVE m[j] = Item(j)
      BY <1>1, <1>3
    <2>2. QED
      BY <1>1, <1>3, <2>1, GatewayAssumption DEF Sent
  <1>5. QED
    BY <1>2, <1>3, <1>4

(* The client's queue takes the write, or the client has gone.             *)
LEMMA ReaderWaits ==
  ASSUME NEW k, NEW kk, NEW l, Sent(l), Len(l) <= 2 * MaxMedia, Reader(k, l),
         k.left \/ Len(k.unread) < SockBuf,
         kk.unread = IF k.left THEN k.unread ELSE Append(k.unread, Item(Len(l) + 1)),
         kk.left = k.left, kk.conn = k.conn, kk.header = k.header,
         kk.shown = k.shown, kk.dropped = k.dropped
  PROVE  Reader(kk, Append(l, Item(Len(l) + 1)))
  <1> DEFINE item == Item(Len(l) + 1)
             m == Append(l, item)
             q == k.unread
             qq == kk.unread
  <1>1. /\ item \in Items /\ Len(m) = Len(l) + 1 /\ Len(l) \in Nat
        /\ \A j \in 1 .. Len(l) : m[j] = l[j]
        /\ m[Len(l) + 1] = item
    BY SentMore DEF Sent
  <1> HIDE DEF item, m
  <1>2. CASE k.left
    BY <1>2 DEF Reader
  <1>3. CASE ~k.left
    <2>1. PICK r \in Nat : ReadUpTo(k, l, r)
      BY <1>3 DEF Reader
    <2>2. q \in Seq(Items) /\ Len(q) \in Nat /\ qq = Append(q, item) /\ Len(q) < SockBuf
      BY <1>3 DEF Reader, item
    <2> HIDE DEF q, qq
    <2>3. /\ qq \in Seq(Items) /\ Len(qq) = Len(q) + 1 /\ qq[Len(q) + 1] = item
          /\ \A j \in 1 .. Len(q) : qq[j] = q[j]
      BY <1>1, <2>2
    <2>4. r + Len(q) = Len(l) /\ \A j \in 1 .. Len(q) : q[j] = l[r + j]
      BY <2>1 DEF ReadUpTo, q
    <2>5. ASSUME NEW j \in 1 .. Len(qq) PROVE qq[j] = m[r + j]
      <3>1. CASE j = Len(q) + 1
        BY <1>1, <2>2, <2>3, <2>4, <3>1
      <3>2. CASE j # Len(q) + 1
        <4>1. j \in 1 .. Len(q) /\ r + j \in 1 .. Len(l)
          BY <2>2, <2>3, <2>4, <3>2
        <4>2. QED
          BY <1>1, <2>3, <2>4, <4>1
      <3>3. QED
        BY <3>1, <3>2
    <2>6. r + Len(qq) = Len(m)
      BY <1>1, <2>2, <2>3, <2>4
    <2>7. ReadUpTo(kk, m, r)
      BY <2>1, <2>5, <2>6 DEF ReadUpTo, qq
    <2>8. Len(qq) <= SockBuf
      BY <2>2, <2>3, GatewayAssumption
    <2>9. QED
      BY <1>3, <2>3, <2>7, <2>8 DEF Reader, qq, item, m
  <1>4. QED
    BY <1>2, <1>3 DEF item, m

(* The client reads the next write: a header names a packet, and a payload *)
(* is shown or dropped.                                                    *)
LEMMA ReaderReads ==
  ASSUME NEW k, NEW kk, NEW l, Sent(l), Reader(k, l), ~k.left, k.unread # <<>>,
         kk.unread = Tail(k.unread), kk.left = k.left, kk.conn = k.conn,
         kk.header = IF Head(k.unread).kind = "header" THEN Head(k.unread).seq ELSE k.header,
         IF Head(k.unread).kind = "payload"
           THEN \/ kk.shown = k.shown + 1 /\ kk.dropped = k.dropped
                \/ kk.shown = k.shown /\ kk.dropped = k.dropped + 1
           ELSE kk.shown = k.shown /\ kk.dropped = k.dropped
  PROVE  Reader(kk, l)
  <1> DEFINE q == k.unread
             qq == kk.unread
             n == k.shown + k.dropped
  <1>1. PICK r \in Nat : ReadUpTo(k, l, r)
    BY DEF Reader
  <1>2. /\ q \in Seq(Items) /\ r + Len(q) = Len(l) /\ Len(l) \in Nat /\ Len(l) <= 2 * MaxMedia + 1
        /\ \A j \in 1 .. Len(q) : q[j] = l[r + j]
        /\ \A j \in 1 .. Len(l) : l[j] = Item(j)
        /\ n \in Nat /\ (n = 0 \/ 2 * n + 1 <= r) /\ k.shown \in Nat /\ k.dropped \in Nat
    BY <1>1 DEF Reader, Sent, ReadUpTo
  <1>3. /\ Len(q) \in Nat \ {0} /\ Head(q) = q[1] /\ Len(qq) = Len(q) - 1 /\ qq \in Seq(Items)
        /\ \A j \in 1 .. Len(q) - 1 : qq[j] = q[j + 1]
    BY <1>2
  <1> HIDE DEF q, qq, n
  <1>4. Head(q) = Item(r + 1) /\ r + 1 \in 1 .. 2 * MaxMedia + 1
    <2>1. q[1] = l[r + 1] /\ r + 1 \in 1 .. Len(l)
      BY <1>2, <1>3
    <2>2. QED
      BY <1>2, <1>3, <2>1, GatewayAssumption
  <1>5. kk.header \in 0 .. MaxMedia
    <2>1. CASE Head(q).kind = "header"
      <3>1. (r + 1) % 2 = 0 /\ Head(q).seq = (r + 1) \div 2
        BY <1>4, <2>1 DEF Item
      <3>2. QED
        BY <1>4, <2>1, <3>1, GatewayAssumption DEF q
    <2>2. CASE Head(q).kind # "header"
      BY <2>2 DEF q, Reader
    <2>3. QED
      BY <2>1, <2>2
  <1>6. /\ kk.shown \in Nat /\ kk.dropped \in Nat
        /\ kk.shown + kk.dropped = 0 \/ 2 * (kk.shown + kk.dropped) + 1 <= r + 1
    <2>1. CASE Head(q).kind = "payload"
      <3>1. r + 1 # 1 /\ (r + 1) % 2 # 0
        BY <1>4, <2>1 DEF Item
      <3>2. kk.shown \in Nat /\ kk.dropped \in Nat /\ kk.shown + kk.dropped = n + 1
        BY <1>2, <2>1, SMTT(30) DEF q, n
      <3>3. r >= 1 /\ r # 2 * n + 1
        BY <1>2, <3>1
      <3>4. 2 * (n + 1) + 1 <= r + 1
        BY <1>2, <3>1, <3>3
      <3>5. QED
        BY <3>2, <3>4
    <2>2. CASE Head(q).kind # "payload"
      <3>1. kk.shown = k.shown /\ kk.dropped = k.dropped
        BY <2>2 DEF q
      <3>2. QED
        BY <1>2, <3>1 DEF n
    <2>3. QED
      BY <2>1, <2>2
  <1>7. ReadUpTo(kk, l, r + 1)
    <2>1. ASSUME NEW j \in 1 .. Len(qq) PROVE qq[j] = l[(r + 1) + j]
      <3>1. qq[j] = q[j + 1] /\ j + 1 \in 1 .. Len(q) /\ r + (j + 1) = (r + 1) + j
        BY <1>3
      <3>2. QED
        BY <1>2, <3>1
    <2>2. (r + 1) + Len(qq) = Len(l)
      BY <1>2, <1>3
    <2>3. QED
      BY <1>6, <2>1, <2>2 DEF ReadUpTo, qq
  <1>8. kk.shown + kk.dropped <= MaxMedia
    BY <1>4, <1>6, GatewayAssumption
  <1>9. Len(qq) <= SockBuf
    BY <1>3, GatewayAssumption DEF Reader, q
  <1>10. QED
    BY <1>3, <1>5, <1>6, <1>7, <1>8, <1>9 DEF Reader, qq

-----------------------------------------------------------------------------
(* Only client c, its session and its connections change.                  *)
Alone(c) ==
  /\ log' = [d \in Clients |-> log'[d]]
  /\ \A d \in Clients \ {c} : /\ session'[d] = session[d] /\ up'[d] = up[d]
                              /\ client'[d] = client[d] /\ log'[d] = log[d]

LEMMA AloneRelay ==
  ASSUME RelayInv, NEW c \in Clients, Alone(c), main' = main,
         main.pc # "accept" /\ main.fd = c /\ client[c].conn = "open" => client'[c].conn = "open",
         main.fd \in Clients,
         Relay(session'[c], up'[c], client'[c], log'[c])
  PROVE  RelayInv'
  BY DEF RelayInv, Alone

(* Goto changes nothing but the place. *)
LEMMA GotoRecord ==
  ASSUME Shape, NEW c \in Clients, NEW pc, Goto(c, pc)
  PROVE  /\ session'[c].pc = pc /\ session'[c].nonce = session[c].nonce
         /\ session'[c].frame = session[c].frame
         /\ \A d \in Clients \ {c} : session'[d] = session[d]
  BY DEF Shape, Goto

(* A session that stops may have done anything before. *)
LEMMA Stops ==
  ASSUME NEW s, NEW u, NEW l, s.pc \in Ending
  PROVE  Session(s, u, l)
  BY DEF Session, Ending, Streaming, Early

(* A write: it is what is due, or the session stops. *)
LEMMA WritesRelay ==
  ASSUME GatewayInv, RelayInv, NEW c \in Clients, NEW item, NEW next, Writes(c, item, next),
         Len(log[c]) <= 2 * MaxMedia, item = Item(Len(log[c]) + 1), UNCHANGED up
  PROVE  /\ Alone(c) /\ client'[c].conn = client[c].conn
         /\ Sent(log'[c]) /\ Reader(client'[c], log'[c])
         /\ session'[c].nonce = session[c].nonce /\ session'[c].frame = session[c].frame
         /\ \/ session'[c].pc = next /\ Len(log'[c]) = Len(log[c]) + 1
            \/ session'[c].pc = "stop"
  <1> DEFINE l == log[c]
             k == client[c]
  <1>1. Shape /\ Sent(l) /\ Reader(k, l) /\ log = [d \in Clients |-> log[d]]
    BY DEF GatewayInv, RelayInv, Relay
  <1>2. CASE /\ k.left \/ Len(k.unread) < SockBuf
             /\ client' = [client EXCEPT ![c].unread = IF k.left THEN @ ELSE Append(@, item)]
             /\ log' = [log EXCEPT ![c] = Append(@, item)]
             /\ Goto(c, next)
    <2>1. log'[c] = Append(l, item) /\ \A d \in Clients \ {c} : log'[d] = log[d]
      BY <1>1, <1>2
    <2>2. log' = [d \in Clients |-> log'[d]]
      BY <1>1, <1>2
    <2>3. /\ client'[c].unread = IF k.left THEN k.unread ELSE Append(k.unread, item)
          /\ client'[c].left = k.left /\ client'[c].conn = k.conn /\ client'[c].header = k.header
          /\ client'[c].shown = k.shown /\ client'[c].dropped = k.dropped
          /\ \A d \in Clients \ {c} : client'[d] = client[d]
      BY <1>1, <1>2 DEF Shape
    <2>4. Reader(client'[c], log'[c])
      <3>1. k.left \/ Len(k.unread) < SockBuf
        BY <1>2
      <3>2. Len(l) <= 2 * MaxMedia /\ item = Item(Len(l) + 1)
        OBVIOUS
      <3> DEFINE kk == client'[c]
      <3> HIDE DEF l, k, kk
      <3>3. /\ kk.unread = IF k.left THEN k.unread ELSE Append(k.unread, Item(Len(l) + 1))
            /\ kk.left = k.left /\ kk.conn = k.conn /\ kk.header = k.header
            /\ kk.shown = k.shown /\ kk.dropped = k.dropped
        BY <2>3, <3>2 DEF kk
      <3>4. Reader(kk, Append(l, Item(Len(l) + 1)))
        BY <1>1, <3>1, <3>2, <3>3, ReaderWaits
      <3>5. QED
        BY <2>1, <3>2, <3>4 DEF kk
    <2>5. Sent(log'[c]) /\ Len(log'[c]) = Len(l) + 1
      BY <1>1, <2>1, SentMore
    <2>6. QED
      BY <1>1, <1>2, <2>1, <2>2, <2>3, <2>4, <2>5, GotoRecord DEF Alone
  <1>3. CASE Goto(c, "stop") /\ UNCHANGED <<client, log>>
    BY <1>1, <1>3, GotoRecord DEF Alone
  <1>4. QED
    BY <1>2, <1>3 DEF Writes

(* The queue and the bounds of a connection depend on four of its fields.  *)
LEMMA SameQueue ==
  ASSUME NEW u, NEW v, v.sent = u.sent, v.wire = u.wire, v.lost = u.lost
  PROVE  /\ Upstream(u) /\ (v.begun => v.sent <= MaxMedia) => Upstream(v)
         /\ \A d : Queue(u, d) => Queue(v, d)
  BY DEF Upstream, Queue

(* While a session runs the accept loop waits. *)
LEMMA MainWaits ==
  ASSUME GatewayInv, NEW c \in Clients, SessionNext(c)
  PROVE  main.pc = "accept" /\ main' = main /\ main.fd \in Clients
  <1>1. Alive(c)
    BY DEF SessionNext, SessionConnects, SessionWritesInit, SessionStarts, SessionSelects,
           SessionReceives, SessionWritesHeader, SessionWritesPayload, SessionClosesUpstream,
           SessionClosesClient, SessionClears, At, Alive
  <1>2. main' = main
    BY DEF SessionNext, SessionConnects, SessionWritesInit, SessionStarts, SessionSelects,
           SessionReceives, SessionWritesHeader, SessionWritesPayload, SessionClosesUpstream,
           SessionClosesClient, SessionClears
  <1>3. QED
    BY <1>1, <1>2 DEF GatewayInv, Shape

(* The first steps: nothing has been taken from wsh264 yet. *)
LEMMA EarlyRelay ==
  ASSUME GatewayInv, RelayInv, NEW c \in Clients,
         SessionConnects(c) \/ SessionWritesInit(c) \/ SessionStarts(c)
  PROVE  RelayInv'
  <1> DEFINE s == session[c]
             u == up[c]
             l == log[c]
  <1>1. /\ Shape /\ Upstream(u) /\ Sent(l) /\ Session(s, u, l) /\ Reader(client[c], l)
        /\ log = [d \in Clients |-> log[d]]
    BY DEF GatewayInv, RelayInv, Relay
  <1>2. s.pc \in Early /\ s.pc \in {"connect", "init", "start", "startAudio"}
    BY DEF SessionConnects, SessionWritesInit, SessionStarts, At, Early
  <1>3. Queue(u, 0) /\ Len(l) = Written(s.pc, 0) /\ ~s.nonce
    BY <1>1, <1>2 DEF Session, Streaming, Taken
  <1>4. main.pc = "accept" /\ main' = main /\ main.fd \in Clients
    BY MainWaits DEF SessionNext
  <1>5. CASE SessionWritesInit(c)
    <2>1. /\ s.pc = "init" /\ Writes(c, [kind |-> "init"], "start") /\ up' = up
      BY <1>5 DEF SessionWritesInit, At
    <2>2. Len(l) = 0 /\ [kind |-> "init"] = Item(Len(l) + 1) /\ Len(l) <= 2 * MaxMedia
      BY <1>3, <2>1, GatewayAssumption DEF Written, Item
    <2>3. /\ Alone(c) /\ client'[c].conn = client[c].conn
          /\ Sent(log'[c]) /\ Reader(client'[c], log'[c])
          /\ session'[c].nonce = s.nonce
          /\ \/ session'[c].pc = "start" /\ Len(log'[c]) = Len(l) + 1
             \/ session'[c].pc = "stop"
      BY <2>1, <2>2, WritesRelay
    <2>4. Session(session'[c], up'[c], log'[c])
      <3>1. CASE session'[c].pc = "start" /\ Len(log'[c]) = Len(l) + 1
        <4>1. Taken(session'[c], up'[c], log'[c], 0)
          BY <1>3, <2>1, <2>2, <2>3, <3>1 DEF Taken, Written, Early
        <4>2. QED
          BY <3>1, <4>1 DEF Session, Streaming, Early
      <3>2. CASE session'[c].pc = "stop"
        BY <3>2, Stops DEF Ending
      <3>3. QED
        BY <2>3, <3>1, <3>2
    <2>5. QED
      BY <1>1, <1>4, <2>1, <2>3, <2>4, AloneRelay DEF Relay
  <1>6. CASE SessionConnects(c) \/ SessionStarts(c)
    <2>1. client' = client /\ log' = log
      BY <1>6 DEF SessionConnects, SessionStarts
    <2>2. PICK pc \in {"init", "startAudio", "select", "stop"} :
            /\ Goto(c, pc)
            /\ pc # "stop" => Written(pc, 0) = Written(s.pc, 0)
      BY <1>6 DEF SessionConnects, SessionStarts, At, Written
    <2>3. /\ session'[c].pc = pc /\ session'[c].nonce = s.nonce
          /\ \A d \in Clients \ {c} : session'[d] = session[d]
      BY <1>1, <2>2, GotoRecord
    <2>4. /\ up'[c].sent = u.sent /\ up'[c].wire = u.wire /\ up'[c].lost = u.lost
          /\ up'[c].begun = u.begun /\ \A d \in Clients \ {c} : up'[d] = up[d]
      BY <1>1, <1>6 DEF SessionConnects, SessionStarts, Shape
    <2>5. Upstream(up'[c]) /\ Queue(up'[c], 0)
      <3>1. u.begun => u.sent <= MaxMedia
        BY <1>1 DEF Upstream
      <3>2. QED
        BY <1>1, <1>3, <2>4, <3>1, SameQueue
    <2>6. Session(session'[c], up'[c], l)
      <3>1. CASE pc = "stop"
        BY <2>3, <3>1, Stops DEF Ending
      <3>2. CASE pc # "stop"
        <4>1. Taken(session'[c], up'[c], l, 0)
          BY <1>3, <2>2, <2>3, <2>5, <3>2 DEF Taken
        <4>2. QED
          BY <2>2, <2>3, <3>2, <4>1 DEF Session, Streaming, Early
      <3>3. QED
        BY <3>1, <3>2
    <2>7. Alone(c)
      BY <1>1, <2>1, <2>3, <2>4 DEF Alone
    <2>8. Relay(session'[c], up'[c], client'[c], log'[c])
      BY <1>1, <2>1, <2>5, <2>6 DEF Relay
    <2>9. QED
      BY <1>4, <2>7, <2>8, AloneRelay
  <1>7. QED
    BY <1>5, <1>6

(* The loop: a frame is taken, and its packet written in two parts.        *)
LEMMA LoopRelay ==
  ASSUME GatewayInv, RelayInv, NEW c \in Clients,
         \/ SessionSelects(c) \/ SessionReceives(c)
         \/ SessionWritesHeader(c) \/ SessionWritesPayload(c)
  PROVE  RelayInv'
  <1> DEFINE s == session[c]
             u == up[c]
             l == log[c]
  <1>1. /\ Shape /\ Upstream(u) /\ Sent(l) /\ Session(s, u, l) /\ Reader(client[c], l)
        /\ log = [d \in Clients |-> log[d]] /\ u.sent \in Nat /\ u.sent <= MaxMedia + 1
    BY GatewayAssumption DEF GatewayInv, RelayInv, Relay, Upstream
  <1>2. s.pc \in {"select", "recv", "header", "payload"}
    BY DEF SessionSelects, SessionReceives, SessionWritesHeader, SessionWritesPayload, At
  <1>3. PICK d \in Nat : Taken(s, u, l, d)
    BY <1>1, <1>2 DEF Session, Streaming
  <1>4. main.pc = "accept" /\ main' = main /\ main.fd \in Clients
    BY MainWaits DEF SessionNext
  <1>5. d <= u.sent
    BY <1>1, <1>3 DEF Taken, Queue
  <1>6. ASSUME UNCHANGED <<client, log>>, \A b \in Clients \ {c} : session'[b] = session[b] /\ up'[b] = up[b],
               Upstream(up'[c]), Session(session'[c], up'[c], l)
        PROVE  RelayInv'
    <2>1. Alone(c)
      BY <1>1, <1>6 DEF Alone
    <2>2. Relay(session'[c], up'[c], client'[c], log'[c])
      BY <1>1, <1>6 DEF Relay
    <2>3. QED
      BY <1>4, <2>1, <2>2, AloneRelay
  <1>7. ASSUME Goto(c, "stop"), UNCHANGED <<client, log, up>> PROVE RelayInv'
    <2>1. session'[c].pc = "stop" /\ \A b \in Clients \ {c} : session'[b] = session[b]
      BY <1>1, <1>7, GotoRecord
    <2>2. Session(session'[c], up'[c], l)
      BY <2>1, Stops DEF Ending
    <2>3. QED
      BY <1>1, <1>6, <1>7, <2>1, <2>2
  <1>8. CASE SessionSelects(c)
    <2>1. CASE Goto(c, "stop")
      BY <1>7, <1>8, <2>1 DEF SessionSelects
    <2>2. CASE Goto(c, "recv")
      <3>1. /\ session'[c].pc = "recv" /\ session'[c].nonce = s.nonce /\ s.pc = "select"
            /\ \A b \in Clients \ {c} : session'[b] = session[b]
        BY <1>1, <1>8, <2>2, GotoRecord DEF SessionSelects, At
      <3>2. Taken(session'[c], u, l, d)
        BY <1>3, <3>1 DEF Taken, Written, Early
      <3>3. Session(session'[c], u, l)
        BY <3>1, <3>2 DEF Session, Streaming
      <3>4. QED
        BY <1>1, <1>6, <1>8, <3>1, <3>3 DEF SessionSelects
    <2>3. QED
      BY <1>8, <2>1, <2>2 DEF SessionSelects
  <1>9. CASE SessionReceives(c)
    <2>1. CASE Goto(c, "stop") /\ UNCHANGED up
      BY <1>7, <1>9, <2>1 DEF SessionReceives
    <2>2. CASE ~(Goto(c, "stop") /\ UNCHANGED up)
      <3> DEFINE frame == Head(u.wire)
                 relay == frame.kind = "media" /\ s.nonce
                 next  == IF relay /\ Decrypts(frame.payload) THEN "header"
                          ELSE IF relay \/ frame.kind = "close" THEN "stop" ELSE "select"
      <3>1. /\ s.pc = "recv" /\ u.wire # <<>> /\ up' = [up EXCEPT ![c].wire = Tail(@)]
            /\ session' = [session EXCEPT ![c].pc = next,
                                          ![c].nonce = IF frame.kind = "crypto_init" THEN TRUE ELSE @,
                                          ![c].frame = IF next = "header" THEN frame ELSE @]
            /\ UNCHANGED <<client, log>>
        BY <1>9, <2>2 DEF SessionReceives, At
      <3>2. /\ session'[c].pc = next
            /\ session'[c].nonce = IF frame.kind = "crypto_init" THEN TRUE ELSE s.nonce
            /\ session'[c].frame = IF next = "header" THEN frame ELSE s.frame
            /\ \A b \in Clients \ {c} : session'[b] = session[b]
        BY <1>1, <3>1, ZenonT(30) DEF Shape
      <3>3. /\ up'[c].wire = Tail(u.wire) /\ up'[c].sent = u.sent /\ up'[c].lost = u.lost
            /\ up'[c].begun = u.begun /\ \A b \in Clients \ {c} : up'[b] = up[b]
        BY <1>1, <3>1 DEF Shape
      <3>4. Upstream(up'[c])
        <4> DEFINE w == u.wire
                   x == up'[c].wire
        <4>1. w \in Seq(Frames) /\ w # <<>> /\ x = Tail(w)
          BY <1>1, <3>1, <3>3 DEF Upstream
        <4>2. x \in Seq(Frames) /\ Len(x) = Len(w) - 1 /\ Len(w) \in Nat
          BY <4>1
        <4> HIDE DEF w, x
        <4>3. Len(x) <= u.sent
          BY <1>1, <4>2 DEF Upstream, w
        <4>4. QED
          BY <1>1, <3>3, <4>2, <4>3 DEF Upstream, x
      <3>5. \/ d = u.sent /\ frame = Close
            \/ d < u.sent /\ frame = Frame(d) /\ Queue(up'[c], d + 1)
        BY <1>1, <1>3, <3>1, <3>3, QueueTakes DEF Taken
      <3> HIDE DEF frame
      <3>6. Session(session'[c], up'[c], l)
        <4>1. CASE frame = Close
          <5>1. next = "stop"
            BY <4>1 DEF Close
          <5>2. QED
            BY <3>2, <5>1, Stops DEF Ending
        <4>2. CASE d < u.sent /\ frame = Frame(d) /\ Queue(up'[c], d + 1)
          <5>1. Len(l) = (IF d = 0 THEN 1 ELSE 2 * d - 1) /\ (s.nonce <=> d > 0)
            BY <1>3, <3>1 DEF Taken, Written
          <5>2. CASE d = 0
            <6>1. frame.kind = "crypto_init"
              BY <4>2, <5>2 DEF Frame
            <6>2. session'[c].pc = "select" /\ session'[c].nonce
              BY <3>2, <6>1
            <6>3. Taken(session'[c], up'[c], l, 1)
              BY <4>2, <5>1, <5>2, <6>2 DEF Taken, Written, Early
            <6>4. QED
              BY <6>2, <6>3 DEF Session, Streaming
          <5>3. CASE d > 0
            <6>1. frame.kind = "media" /\ Decrypts(frame.payload) /\ s.nonce
              BY <4>2, <5>1, <5>3 DEF Frame, Decrypts, Packet
            <6>2. session'[c].pc = "header" /\ session'[c].nonce /\ session'[c].frame = Frame(d)
              BY <3>2, <4>2, <6>1
            <6>3. Taken(session'[c], up'[c], l, d + 1)
              <7>1. Len(l) = 2 * (d + 1) - 3 /\ d + 1 >= 2 /\ (d + 1) - 1 = d
                BY <5>1, <5>3
              <7>2. QED
                BY <4>2, <6>2, <7>1 DEF Taken, Written, Early
            <6>4. QED
              BY <6>2, <6>3 DEF Session, Streaming
          <5>4. QED
            BY <5>2, <5>3
        <4>3. QED
          BY <3>5, <4>1, <4>2
      <3>7. QED
        BY <1>6, <3>1, <3>2, <3>3, <3>4, <3>6
    <2>3. QED
      BY <2>1, <2>2
  <1>10. ASSUME NEW item, NEW next \in {"payload", "select"}, Writes(c, item, next),
                item = Item(Len(l) + 1), Len(l) <= 2 * MaxMedia, up' = up,
                Written(next, d) = Len(l) + 1, d >= 2, s.frame = Frame(d - 1)
         PROVE  RelayInv'
    <2>1. /\ Alone(c) /\ client'[c].conn = client[c].conn
          /\ Sent(log'[c]) /\ Reader(client'[c], log'[c])
          /\ session'[c].nonce = s.nonce /\ session'[c].frame = s.frame
          /\ \/ session'[c].pc = next /\ Len(log'[c]) = Len(l) + 1
             \/ session'[c].pc = "stop"
      BY <1>10, WritesRelay
    <2>2. Session(session'[c], up'[c], log'[c])
      <3>1. CASE session'[c].pc = next /\ Len(log'[c]) = Len(l) + 1
        <4>1. Taken(session'[c], up'[c], log'[c], d)
          BY <1>3, <1>10, <2>1, <3>1 DEF Taken, Early
        <4>2. QED
          BY <3>1, <4>1 DEF Session, Streaming
      <3>2. CASE session'[c].pc = "stop"
        BY <3>2, Stops DEF Ending
      <3>3. QED
        BY <2>1, <3>1, <3>2
    <2>3. QED
      BY <1>1, <1>4, <1>10, <2>1, <2>2, AloneRelay DEF Relay
  <1>11. CASE SessionWritesHeader(c)
    <2>1. /\ s.pc = "header" /\ up' = up
          /\ Writes(c, [kind |-> "header", seq |-> s.frame.payload.seq], "payload")
      BY <1>11 DEF SessionWritesHeader, At
    <2>2. d >= 2 /\ s.frame = Frame(d - 1) /\ Len(l) = 2 * d - 3
      BY <1>3, <2>1 DEF Taken, Written
    <2>3. s.frame.payload.seq = d - 1
      BY <2>2 DEF Frame, Packet
    <2>4. /\ (2 * d - 2) % 2 = 0 /\ (2 * d - 2) \div 2 = d - 1 /\ Len(l) + 1 = 2 * d - 2
          /\ Len(l) <= 2 * MaxMedia /\ 2 * d - 2 # 1
      <3>1. PICK e \in Nat : d = e + 1
        BY <2>2
      <3>2. 2 * d - 2 = 2 * e /\ (2 * e) % 2 = 0 /\ (2 * e) \div 2 = e /\ d - 1 = e
        BY <3>1
      <3>3. Len(l) = 2 * e - 1 /\ e <= MaxMedia
        <4>1. Len(l) = 2 * e - 1
          BY <2>2, <3>1
        <4>2. e + 1 <= u.sent /\ u.sent \in Nat /\ u.sent <= MaxMedia + 1
          BY <1>1, <1>5, <3>1
        <4> HIDE DEF u
        <4>3. e <= MaxMedia
          BY <4>2, <3>1, GatewayAssumption
        <4>4. QED
          BY <4>1, <4>3
      <3> HIDE DEF l
      <3>4. QED
        BY <3>1, <3>2, <3>3, GatewayAssumption
    <2>5. [kind |-> "header", seq |-> d - 1] = Item(Len(l) + 1)
      BY <2>4 DEF Item
    <2>6. Written("payload", d) = Len(l) + 1
      BY <2>4 DEF Written
    <2>7. QED
      BY <1>10, <2>1, <2>2, <2>3, <2>4, <2>5, <2>6
  <1>12. CASE SessionWritesPayload(c)
    <2>1. /\ s.pc = "payload" /\ up' = up
          /\ Writes(c, [kind |-> "payload", payload |-> Decrypted(s.frame.payload)], "select")
      BY <1>12 DEF SessionWritesPayload, At
    <2>2. d >= 2 /\ s.frame = Frame(d - 1) /\ Len(l) = 2 * d - 2
      BY <1>3, <2>1 DEF Taken, Written
    <2>3. Decrypted(s.frame.payload) = Plain(d - 1)
      BY <2>2 DEF Frame, Packet, Decrypted
    <2>4. /\ (2 * d - 1) % 2 # 0 /\ (2 * d - 1) \div 2 = d - 1 /\ Len(l) + 1 = 2 * d - 1
          /\ Len(l) <= 2 * MaxMedia /\ 2 * d - 1 # 1
      <3>1. PICK e \in Nat : d = e + 1
        BY <2>2
      <3>2. 2 * d - 1 = 2 * e + 1 /\ (2 * e + 1) % 2 = 1 /\ (2 * e + 1) \div 2 = e /\ d - 1 = e
        BY <3>1
      <3>3. Len(l) = 2 * e /\ e <= MaxMedia
        <4>1. Len(l) = 2 * e
          BY <2>2, <3>1
        <4>2. e + 1 <= u.sent /\ u.sent \in Nat /\ u.sent <= MaxMedia + 1
          BY <1>1, <1>5, <3>1
        <4> HIDE DEF u
        <4>3. e <= MaxMedia
          BY <4>2, <3>1, GatewayAssumption
        <4>4. QED
          BY <4>1, <4>3
      <3> HIDE DEF l
      <3>4. QED
        BY <3>1, <3>2, <3>3, <2>2, GatewayAssumption
    <2>5. [kind |-> "payload", payload |-> Plain(d - 1)] = Item(Len(l) + 1)
      BY <2>4 DEF Item
    <2>6. Written("select", d) = Len(l) + 1
      BY <2>2, <2>4 DEF Written
    <2>7. QED
      BY <1>10, <2>1, <2>2, <2>3, <2>4, <2>5, <2>6
  <1>13. QED
    BY <1>8, <1>9, <1>11, <1>12

(* The cleanup relays nothing. *)
LEMMA EndRelay ==
  ASSUME GatewayInv, RelayInv, NEW c \in Clients,
         SessionClosesUpstream(c) \/ SessionClosesClient(c) \/ SessionClears(c)
  PROVE  RelayInv'
  <1>1. /\ Shape /\ Upstream(up[c]) /\ Sent(log[c]) /\ Reader(client[c], log[c])
        /\ log = [d \in Clients |-> log[d]]
    BY DEF GatewayInv, RelayInv, Relay
  <1>2. main.pc = "accept" /\ main' = main /\ main.fd \in Clients /\ log' = log
    BY MainWaits DEF SessionNext, SessionClosesUpstream, SessionClosesClient, SessionClears
  <1>3. session'[c].pc \in Ending /\ \A d \in Clients \ {c} : session'[d] = session[d]
    BY <1>1, GotoRecord DEF SessionClosesUpstream, SessionClosesClient, SessionClears, Ending
  <1>4. /\ up'[c].sent = up[c].sent /\ up'[c].wire = up[c].wire /\ up'[c].lost = up[c].lost
        /\ up'[c].begun = up[c].begun /\ \A d \in Clients \ {c} : up'[d] = up[d]
    BY <1>1 DEF SessionClosesUpstream, SessionClosesClient, SessionClears, Shape
  <1>5. Upstream(up'[c])
    BY <1>1, <1>4, SameQueue DEF Upstream
  <1>6. Reader(client'[c], log[c]) /\ \A d \in Clients \ {c} : client'[d] = client[d]
    <2>1. CASE client' = client
      BY <1>1, <2>1
    <2>2. CASE client' # client
      <3>1. client' = [client EXCEPT ![c].conn = "closed"]
        BY <2>2 DEF SessionClosesUpstream, SessionClosesClient, SessionClears
      <3>2. /\ client'[c].conn = "closed" /\ client'[c].left = client[c].left
            /\ client'[c].unread = client[c].unread /\ client'[c].header = client[c].header
            /\ client'[c].shown = client[c].shown /\ client'[c].dropped = client[c].dropped
            /\ \A d \in Clients \ {c} : client'[d] = client[d]
        BY <1>1, <3>1 DEF Shape
      <3>3. QED
        BY <1>1, <3>2 DEF Reader, ReadUpTo
    <2>3. QED
      BY <2>1, <2>2
  <1>7. Alone(c)
    BY <1>1, <1>2, <1>3, <1>4, <1>6 DEF Alone
  <1>8. Relay(session'[c], up'[c], client'[c], log'[c])
    BY <1>1, <1>2, <1>3, <1>5, <1>6, Stops DEF Relay
  <1>9. QED
    BY <1>2, <1>7, <1>8, AloneRelay

(* wsh264 sends, and ends the connection. *)
LEMMA UpstreamRelay ==
  ASSUME GatewayInv, RelayInv, NEW c \in Clients,
         UpstreamBegins(c) \/ UpstreamFinishes(c) \/ UpstreamEnds(c)
  PROVE  RelayInv'
  <1> DEFINE s == session[c]
             u == up[c]
             v == up'[c]
             l == log[c]
  <1>1. /\ Shape /\ Upstream(u) /\ Sent(l) /\ Session(s, u, l) /\ Reader(client[c], l)
        /\ log = [d \in Clients |-> log[d]] /\ main.fd \in Clients /\ ~u.lost
    BY DEF GatewayInv, RelayInv, Relay, Shape, UpstreamBegins, UpstreamFinishes, UpstreamEnds
  <1>2. UNCHANGED <<main, session, client, log>>
    BY DEF UpstreamBegins, UpstreamFinishes, UpstreamEnds
  <1>3. /\ u.wire \in Seq(Frames) /\ u.sent \in Nat /\ u.sent <= MaxMedia + 1 /\ Len(u.wire) <= u.sent
        /\ u.begun => u.sent <= MaxMedia
    BY <1>1, GatewayAssumption DEF Upstream
  <1>4. ASSUME Upstream(v), \A d : Queue(u, d) => Queue(v, d),
               \A d \in Clients \ {c} : up'[d] = up[d]
        PROVE  RelayInv'
    <2>1. Session(s, v, l)
      BY <1>1, <1>4 DEF Session, Taken
    <2>2. Alone(c)
      BY <1>1, <1>2, <1>4 DEF Alone
    <2>3. Relay(session'[c], v, client'[c], log'[c])
      BY <1>1, <1>2, <1>4, <2>1 DEF Relay
    <2>4. QED
      BY <1>1, <1>2, <2>2, <2>3, AloneRelay
  <1>5. CASE UpstreamBegins(c)
    <2>1. /\ v.sent = u.sent /\ v.wire = u.wire /\ v.lost = u.lost /\ u.sent <= MaxMedia
          /\ \A d \in Clients \ {c} : up'[d] = up[d]
      BY <1>1, <1>5 DEF UpstreamBegins, Shape
    <2>2. Upstream(v) /\ \A d : Queue(u, d) => Queue(v, d)
      BY <1>1, <2>1, SameQueue
    <2>3. QED
      BY <1>4, <2>1, <2>2
  <1>6. CASE UpstreamFinishes(c)
    <2>1. up' = [up EXCEPT ![c].begun = FALSE, ![c].sent = @ + 1, ![c].wire = Append(@, Frame(u.sent))]
      BY <1>6 DEF UpstreamFinishes, Frame
    <2>2. /\ ~v.begun /\ v.sent = u.sent + 1 /\ v.wire = Append(u.wire, Frame(u.sent))
          /\ ~v.lost /\ u.sent <= MaxMedia
          /\ \A d \in Clients \ {c} : up'[d] = up[d]
      <3>1. u.sent <= MaxMedia
        BY <1>3, <1>6 DEF UpstreamFinishes
      <3>2. /\ ~v.begun /\ v.sent = u.sent + 1 /\ v.wire = Append(u.wire, Frame(u.sent))
            /\ v.lost = u.lost
        BY <1>1, <2>1 DEF Shape
      <3>3. \A d \in Clients \ {c} : up'[d] = up[d]
        BY <1>1, <2>1 DEF Shape
      <3>4. QED
        BY <1>1, <3>1, <3>2, <3>3
    <2>3. Frame(u.sent) \in Frames
      BY <1>3 DEF Frame, Frames, Packet
    <2>4. Upstream(v)
      <3>1. v.wire \in Seq(Frames) /\ Len(v.wire) = Len(u.wire) + 1
        BY <1>3, <2>2, <2>3, AppendProperties
      <3>2. QED
        BY <1>3, <2>2, <3>1, GatewayAssumption DEF Upstream
    <2>5. ASSUME NEW d, Queue(u, d) PROVE Queue(v, d)
      BY <1>1, <2>2, <2>5, QueueGrows
    <2>6. QED
      BY <1>4, <2>2, <2>4, <2>5
  <1>7. CASE UpstreamEnds(c)
    <2>1. PICK bye \in {<<>>, <<[kind |-> "close"]>>} :
            up' = [up EXCEPT ![c].lost = TRUE, ![c].begun = FALSE, ![c].wire = @ \o bye]
      BY <1>7 DEF UpstreamEnds
    <2>2. /\ v.lost /\ ~v.begun /\ v.sent = u.sent /\ v.wire = u.wire \o bye
          /\ \A d \in Clients \ {c} : up'[d] = up[d]
      BY <1>1, <2>1 DEF Shape
    <2>3. Close \in Frames
      BY DEF Close, Frames
    <2>4. v.wire = u.wire \/ v.wire = Append(u.wire, Close)
      <3>1. CASE bye = <<>>
        BY <1>3, <2>2, <3>1, ConcatEmptySeq
      <3>2. CASE bye = <<Close>>
        BY <1>3, <2>2, <2>3, <3>2, AppendIsConcat
      <3>3. QED
        BY <3>1, <3>2 DEF Close
    <2>5. v.wire \in Seq(Frames) /\ Len(v.wire) \in {Len(u.wire), Len(u.wire) + 1}
      <3>1. CASE v.wire = u.wire
        BY <1>3, <3>1
      <3>2. CASE v.wire = Append(u.wire, Close)
        <4>1. /\ Append(u.wire, Close) \in Seq(Frames)
              /\ Len(Append(u.wire, Close)) = Len(u.wire) + 1
          BY <1>3, <2>3, AppendProperties
        <4>2. QED
          BY <3>2, <4>1
      <3>3. QED
        BY <2>4, <3>1, <3>2
    <2>6. Upstream(v)
      <3>1. Len(u.wire) \in Nat
        BY <1>3
      <3>2. v.sent \in 0 .. MaxMedia + 1 /\ (Len(v.wire) <= v.sent \/ Len(v.wire) = v.sent + 1)
        BY <1>3, <2>2, <2>5, <3>1, GatewayAssumption
      <3>3. QED
        BY <2>2, <2>5, <3>2 DEF Upstream
    <2>7. ASSUME NEW d, Queue(u, d) PROVE Queue(v, d)
      BY <1>1, <2>2, <2>4, <2>7, QueueEnds
    <2>8. QED
      BY <1>4, <2>2, <2>6, <2>7
  <1>8. QED
    BY <1>5, <1>6, <1>7

(* The clients. *)
LEMMA ClientRelay ==
  ASSUME GatewayInv, RelayInv, NEW c \in Clients,
         \/ ClientConnects(c) \/ ClientTalks(c) \/ ClientLeaves(c) \/ ClientReads(c)
         \/ ClientEnds(c)
  PROVE  RelayInv'
  <1> DEFINE k == client[c]
             kk == client'[c]
             l == log[c]
  <1>1. /\ Shape /\ Upstream(up[c]) /\ Sent(l) /\ Session(session[c], up[c], l) /\ Reader(k, l)
        /\ log = [d \in Clients |-> log[d]] /\ main.fd \in Clients
    BY DEF GatewayInv, RelayInv, Relay, Shape
  <1>2. UNCHANGED <<main, session, up, log>>
    BY DEF ClientConnects, ClientTalks, ClientLeaves, ClientReads, ClientEnds
  <1>3. ASSUME Reader(kk, l), \A d \in Clients \ {c} : client'[d] = client[d],
               k.conn = "open" => kk.conn = "open"
        PROVE  RelayInv'
    <2>1. Alone(c)
      BY <1>1, <1>2, <1>3 DEF Alone
    <2>2. Relay(session'[c], up'[c], kk, log'[c])
      BY <1>1, <1>2, <1>3 DEF Relay
    <2>3. QED
      BY <1>1, <1>2, <1>3, <2>1, <2>2, AloneRelay
  <1>4. CASE ClientConnects(c) \/ ClientTalks(c)
    <2>1. /\ kk.left = k.left /\ kk.unread = k.unread /\ kk.header = k.header
          /\ kk.shown = k.shown /\ kk.dropped = k.dropped
          /\ kk.conn = k.conn \/ (k.conn = "none" /\ kk.conn = "queued")
          /\ \A d \in Clients \ {c} : client'[d] = client[d]
      BY <1>1, <1>4 DEF ClientConnects, ClientTalks, Shape
    <2>2. Reader(kk, l)
      BY <1>1, <2>1 DEF Reader, ReadUpTo
    <2>3. QED
      BY <1>3, <2>1, <2>2
  <1>5. CASE ClientLeaves(c) \/ ClientEnds(c)
    <2>1. /\ kk.left /\ kk.unread = <<>> /\ kk.header = k.header
          /\ kk.shown = k.shown /\ kk.dropped = k.dropped /\ kk.conn = k.conn
          /\ \A d \in Clients \ {c} : client'[d] = client[d]
      <3>1. CASE ClientLeaves(c)
        BY <1>1, <3>1 DEF ClientLeaves, Shape
      <3>2. CASE ClientEnds(c)
        BY <1>1, <3>2 DEF ClientEnds, Shape
      <3>3. QED
        BY <1>5, <3>1, <3>2
    <2>2. Reader(kk, l)
      BY <1>1, <2>1, GatewayAssumption DEF Reader
    <2>3. QED
      BY <1>3, <2>1, <2>2
  <1>6. CASE ClientReads(c)
    <2> DEFINE item == Head(k.unread)
               got  == item.kind = "payload"
               good == got /\ Accepts(k.header, item.payload)
    <2>1. /\ ~k.left /\ k.unread # <<>>
          /\ client' = [client EXCEPT ![c].unread = Tail(@),
                                      ![c].header = IF item.kind = "header" THEN item.seq ELSE @,
                                      ![c].shown = IF good THEN @ + 1 ELSE @,
                                      ![c].dropped = IF got /\ ~good THEN @ + 1 ELSE @]
      BY <1>6 DEF ClientReads
    <2> HIDE DEF item, good
    <2>2. /\ kk.unread = Tail(k.unread) /\ kk.left = k.left /\ kk.conn = k.conn
          /\ kk.header = IF item.kind = "header" THEN item.seq ELSE k.header
          /\ kk.shown = IF good THEN k.shown + 1 ELSE k.shown
          /\ kk.dropped = IF got /\ ~good THEN k.dropped + 1 ELSE k.dropped
          /\ \A d \in Clients \ {c} : client'[d] = client[d]
      BY <1>1, <2>1 DEF Shape
    <2>3. good => got
      BY DEF good
    <2>4. IF got THEN \/ kk.shown = k.shown + 1 /\ kk.dropped = k.dropped
                      \/ kk.shown = k.shown /\ kk.dropped = k.dropped + 1
          ELSE kk.shown = k.shown /\ kk.dropped = k.dropped
      BY <2>2, <2>3
    <2>5. Reader(kk, l)
      <3> HIDE DEF k, kk, l
      <3>1. QED
        BY <1>1, <2>1, <2>2, <2>4, ReaderReads DEF item
    <2>6. QED
      BY <1>3, <2>2, <2>5
  <1>7. QED
    BY <1>4, <1>5, <1>6

(* The accept loop gives a session a client that is connected and has none *)
(* yet.                                                                    *)
LEMMA MainRelay ==
  ASSUME GatewayInv, RelayInv, MainNext
  PROVE  RelayInv'
  <1>1. Shape /\ main.fd \in Clients /\ UNCHANGED <<up, log>>
    BY DEF GatewayInv, Shape, MainNext, MainAccepts, MainSets, MainCreates
  <1>2. \A d \in Clients : Relay(session[d], up[d], client[d], log[d])
    BY DEF RelayInv
  <1>3. ASSUME NEW c \in Clients, NEW conn \in {"open", "closed"},
               client' = [client EXCEPT ![c].conn = conn]
        PROVE  /\ client'[c].conn = conn
               /\ \A d \in Clients : Reader(client[d], log[d]) => Reader(client'[d], log[d])
    <2>1. /\ client'[c].conn = conn /\ client'[c].left = client[c].left
          /\ client'[c].unread = client[c].unread /\ client'[c].header = client[c].header
          /\ client'[c].shown = client[c].shown /\ client'[c].dropped = client[c].dropped
          /\ \A d \in Clients \ {c} : client'[d] = client[d]
      BY <1>1, <1>3 DEF Shape
    <2>2. Reader(client[c], log[c]) => Reader(client'[c], log[c])
      BY <2>1 DEF Reader, ReadUpTo
    <2>3. QED
      BY <2>1, <2>2
  <1>4. ASSUME NEW c \in Clients, MainAccepts(c) PROVE RelayInv'
    <2>1. PICK conn \in {"open", "closed"} :
            /\ client' = [client EXCEPT ![c].conn = conn]
            /\ main' = main \/ (conn = "open" /\ main' = [pc |-> "set", fd |-> c])
      BY <1>4 DEF MainAccepts
    <2>2. main.pc = "accept" /\ session' = session
      BY <1>4 DEF MainAccepts
    <2>3. \A d \in Clients : Relay(session'[d], up'[d], client'[d], log'[d])
      BY <1>1, <1>2, <1>3, <2>1, <2>2 DEF Relay
    <2>4. main'.pc # "accept" => client'[main'.fd].conn = "open"
      <3>1. client'[c].conn = conn
        BY <1>3, <2>1
      <3>2. CASE main' = main
        BY <2>2, <3>2
      <3>3. CASE conn = "open" /\ main' = [pc |-> "set", fd |-> c]
        BY <3>1, <3>3
      <3>4. QED
        BY <2>1, <3>2, <3>3
    <2>5. QED
      BY <1>1, <2>3, <2>4 DEF RelayInv
  <1>5. CASE MainSets
    <2>1. main.pc = "set" /\ main'.fd = main.fd /\ session' = session /\ client' = client
      BY <1>1, <1>5 DEF MainSets, Shape
    <2>2. QED
      BY <1>1, <1>2, <2>1 DEF RelayInv
  <1>6. CASE MainCreates
    <2>1. PICK c \in Clients : c = main.fd
      BY <1>1
    <2>2. main.pc = "create" /\ main'.pc = "accept" /\ client[c].conn = "open"
      BY <1>1, <1>6, <2>1 DEF MainCreates, Shape, RelayInv
    <2>3. CASE session' = [session EXCEPT ![c].pc = "connect"] /\ client' = client
      <3>1. session[c].pc = "none"
        <4>1. session[c].pc \in {"none", "done"}
          BY <2>2 DEF GatewayInv, Alive
        <4>2. QED
          BY <2>2, <4>1 DEF GatewayInv
      <3>2. /\ session'[c].pc = "connect" /\ session'[c].nonce = session[c].nonce
            /\ \A d \in Clients \ {c} : session'[d] = session[d]
        BY <1>1, <2>3 DEF Shape
      <3>3. Session(session[c], up[c], log[c])
        BY <1>2 DEF Relay
      <3>4. Session(session'[c], up[c], log[c])
        <4>1. PICK d \in Nat : Taken(session[c], up[c], log[c], d)
          BY <3>1, <3>3 DEF Session, Streaming, Early
        <4>2. Taken(session'[c], up[c], log[c], d)
          BY <3>1, <3>2, <4>1 DEF Taken, Written, Early
        <4>3. QED
          BY <3>2, <4>2 DEF Session, Streaming, Early
      <3>5. \A d \in Clients : Relay(session'[d], up'[d], client'[d], log'[d])
        BY <1>1, <1>2, <2>3, <3>2, <3>4 DEF Relay
      <3>6. QED
        BY <1>1, <2>2, <3>5 DEF RelayInv
    <2>4. CASE session' = session /\ client' = [client EXCEPT ![c].conn = "closed"]
      <3>1. \A d \in Clients : Relay(session'[d], up'[d], client'[d], log'[d])
        BY <1>1, <1>2, <1>3, <2>4 DEF Relay
      <3>2. QED
        BY <1>1, <2>2, <3>1 DEF RelayInv
    <2>5. QED
      BY <1>6, <2>1, <2>3, <2>4 DEF MainCreates
  <1>7. QED
    BY <1>4, <1>5, <1>6 DEF MainNext

(* RelayInv holds in every state. *)
THEOREM RelayInvariant == Spec => []RelayInv
  <1>1. Init => RelayInv
    <2>1. SUFFICES ASSUME Init PROVE RelayInv
      OBVIOUS
    <2>2. log = [c \in Clients |-> log[c]] /\ main.pc = "accept"
      BY <2>1 DEF Init
    <2>3. ASSUME NEW c \in Clients PROVE Relay(session[c], up[c], client[c], log[c])
      <3>1. /\ session[c].pc = "none" /\ session[c].nonce = FALSE /\ log[c] = <<>>
            /\ up[c].begun = FALSE /\ up[c].sent = 0 /\ up[c].wire = <<>>
            /\ client[c].conn = "none" /\ client[c].left = FALSE /\ client[c].unread = <<>>
            /\ client[c].header = 0 /\ client[c].shown = 0 /\ client[c].dropped = 0
        BY <2>1 DEF Init
      <3>2. Upstream(up[c]) /\ Sent(log[c])
        BY <3>1, GatewayAssumption DEF Upstream, Sent
      <3>3. Taken(session[c], up[c], log[c], 0)
        BY <3>1 DEF Taken, Queue, Written, Early
      <3>4. Session(session[c], up[c], log[c])
        BY <3>1, <3>3 DEF Session, Streaming, Early
      <3>5. ReadUpTo(client[c], log[c], 0)
        BY <3>1 DEF ReadUpTo
      <3>6. Reader(client[c], log[c])
        BY <3>1, <3>5, GatewayAssumption DEF Reader
      <3>7. QED
        BY <3>2, <3>4, <3>6 DEF Relay
    <2>4. QED
      BY <2>2, <2>3 DEF RelayInv
  <1>2. ASSUME GatewayInv, RelayInv, [Next]_vars PROVE RelayInv'
    <2>1. CASE MainNext
      BY <1>2, <2>1, MainRelay
    <2>2. ASSUME NEW c \in Clients, SessionNext(c) PROVE RelayInv'
      BY <1>2, <2>2, EarlyRelay, LoopRelay, EndRelay DEF SessionNext
    <2>3. ASSUME NEW c \in Clients, Outside(c) PROVE RelayInv'
      BY <1>2, <2>3, UpstreamRelay, ClientRelay DEF Outside
    <2>4. CASE Idle \/ UNCHANGED vars
      BY <1>2, <2>4 DEF Idle, vars, RelayInv
    <2>5. QED
      BY <1>2, <2>1, <2>2, <2>3, <2>4 DEF Next
  <1>3. QED
    BY <1>1, <1>2, GatewayInvariant, PTL DEF Spec

(* Whatever fails, and however slowly a client reads, what it is sent is   *)
(* the init packet, then the packets of wsh264, decrypted, in order and    *)
(* without a gap (the loop of gateway_session_main).                       *)
THEOREM RelayedAlways == Spec => []Relayed
  <1>1. ASSUME GatewayInv, RelayInv PROVE Relayed
    <2>1. \A c \in Clients : Relay(session[c], up[c], client[c], log[c])
      BY <1>1 DEF RelayInv
    <2>2. RelayInOrder
      <3>1. ASSUME NEW c \in Clients, NEW j \in DOMAIN log[c] PROVE log[c][j] = Item(j)
        BY <2>1 DEF Relay, Sent
      <3>2. QED
        BY <3>1 DEF RelayInOrder, Item
    <2>3. active \in BOOLEAN
      BY <1>1, Zenon DEF GatewayInv
    <2>4. main.pc \in {"accept", "set", "create"} /\ main.fd \in Clients
      BY <1>1 DEF GatewayInv, Shape
    <2>5. ASSUME NEW c \in Clients
          PROVE  /\ session[c].pc \in Streaming \cup Ending
                 /\ client[c].conn \in {"none", "queued", "open", "closed"}
                 /\ Len(client[c].unread) \in 0 .. SockBuf
                 /\ client[c].header \in 0 .. MaxMedia
                 /\ client[c].shown + client[c].dropped \in 0 .. MaxMedia
                 /\ up[c].sent \in 0 .. MaxMedia + 1 /\ Len(up[c].wire) <= MaxMedia + 2
      <3>1. Upstream(up[c]) /\ Session(session[c], up[c], log[c]) /\ Reader(client[c], log[c])
        BY <2>1 DEF Relay
      <3>2. up[c].sent \in 0 .. MaxMedia + 1 /\ Len(up[c].wire) <= MaxMedia + 2
        BY <3>1, GatewayAssumption DEF Upstream
      <3>3. Len(client[c].unread) \in 0 .. SockBuf /\ client[c].header \in 0 .. MaxMedia
        BY <3>1, GatewayAssumption DEF Reader
      <3>4. client[c].shown + client[c].dropped \in 0 .. MaxMedia
        BY <3>1, GatewayAssumption DEF Reader
      <3>5. /\ session[c].pc \in Streaming \cup Ending
            /\ client[c].conn \in {"none", "queued", "open", "closed"}
        BY <3>1 DEF Session, Reader
      <3>6. QED
        BY <3>2, <3>3, <3>4, <3>5
    <2>6. TypeOK
      BY <2>3, <2>4, <2>5, Zenon DEF TypeOK, Streaming, Early, Ending
    <2>7. QED
      BY <2>2, <2>6 DEF Relayed
  <1>2. QED
    BY GatewayInvariant, RelayInvariant, <1>1, PTL
=============================================================================
