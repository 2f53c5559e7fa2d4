------------------------------ MODULE WsServer ------------------------------
(***************************************************************************)
(* The threads of the WebSocket server in wsh264/src/ws.c: the accept loop *)
(* and its client slots, one session thread per connection, the close      *)
(* time-out threads, and the application's threads that call               *)
(* ws_close_client and ws_ping at any time.                                *)
(*                                                                         *)
(* The present build of wsh264 takes ws_wsfs_compat.c instead (WsBridge);  *)
(* ws.c is the server that it replaced.                                    *)
(*                                                                         *)
(* Each connection has its number for a socket.  A slot's own mutexes are  *)
(* implicit where they guard one step; mtx_ping and the global mutex are   *)
(* there because threads wait for one while they hold the other.  Locking  *)
(* a mutex that was destroyed, or never initialised, is taken to fail and  *)
(* change nothing, as glibc does it.  Frames are the module WsFrames.      *)
(***************************************************************************)
EXTENDS Naturals, FiniteSetsExt

CONSTANTS MaxClients,  \* MAX_CLIENTS
          MaxConns,    \* bound on the connections accepted
          App,         \* the application's threads
          Ops,         \* what they call: "close", "ping", "pingall"
          Early,       \* may they do so from on_open on, or when it is open?
          Threshold,   \* ws_ping's threshold
          MaxPing,     \* bound on the PING number at which ws_ping is called
          MaxCloses    \* bound on the CLOSE frames after which ws_close_client is

(* What the constants have to be. *)
ServerAssumption ==
  /\ MaxClients \in Nat \ {0} /\ MaxConns \in Nat /\ Early \in BOOLEAN
  /\ Ops \subseteq {"close", "ping", "pingall"}
  /\ Threshold \in Nat \ {0} /\ MaxPing \in Nat /\ MaxCloses \in Nat

Slot == 1 .. MaxClients
Conns == 1 .. MaxConns
None == 0   \* no socket, no thread: -1 and false in the code
Idle == [pc |-> "idle", slot |-> 1, single |-> TRUE]

VARIABLES
  slot,     \* client_socks: sock, state, the time-out thread, PING and PONG counts
  session,  \* ws_establishconnection of a connection, with its slot
  timer,    \* close_timeout of a connection
  app,      \* the application's threads
  mutex,    \* holder of the global mutex when a step ends with it held
  pinging,  \* holder of each slot's mtx_ping, likewise
  net       \* the sockets: is the peer up, has the server closed its side
            \* and how many CLOSE frames were sent

vars == <<slot, session, timer, app, mutex, pinging, net>>

Init ==
  /\ slot = [s \in Slot |-> [sock |-> None, state |-> "CLOSED", timer |-> None,
                             ping |-> 0, pong |-> 0]]
  /\ session = [c \in Conns |-> [pc |-> "none", slot |-> 1, events |-> <<0, 0>>]]
  /\ timer = [c \in Conns |-> "none"]
  /\ app = [a \in App |-> Idle]
  /\ mutex = None
  /\ pinging = [s \in Slot |-> None]
  /\ net = [c \in Conns |-> [up |-> TRUE, shut |-> FALSE, closes |-> 0, asked |-> FALSE]]

At(c, pc) == session[c].pc = pc
Goto(c, pc) == session' = [session EXCEPT ![c].pc = pc]
Mine(c) == slot[session[c].slot]

(* send_all: it fails on a socket that is closed, and may on a dead one.   *)
Sends(c) == {b \in BOOLEAN : /\ b => c # None /\ ~net[c].shut
                             /\ ~b => c = None \/ net[c].shut \/ ~net[c].up}
CountClose(c) == [net EXCEPT ![c].closes = @ + 1]

(* close_client up to the mutex: the state and the socket ... *)
ClosesSocket(s) ==
  /\ slot' = [slot EXCEPT ![s].state = "CLOSED"]
  /\ net' = [c \in Conns |-> [net[c] EXCEPT !.shut = @ \/ slot[s].sock = c]]

(* ... and under the mutex: the slot is free. *)
Releases(s) ==
  /\ slot' = [slot EXCEPT ![s].sock = None]
  /\ UNCHANGED net

-----------------------------------------------------------------------------
(* ws_accept *)

(* Mutant: a slot whose state is CLOSED counts as free. *)
MutFree == {s \in Slot : slot[s].state = "CLOSED"}

Free == {s \in Slot : slot[s].sock = None}

(* The next connection takes the first free slot, or is refused. *)
Accepts(c) ==
  /\ mutex = None
  /\ At(c, "none") /\ \A d \in 1 .. c - 1 : ~At(d, "none")
  /\ IF Free # {}
     THEN LET s == Min(Free)
          IN /\ slot' = [slot EXCEPT ![s] = [sock |-> c, state |-> "CONNECTING",
                                             timer |-> None, ping |-> 0, pong |-> 0]]
             /\ session' = [session EXCEPT ![c].pc = "request", ![c].slot = s]
             /\ UNCHANGED net
     ELSE /\ net' = [net EXCEPT ![c].shut = TRUE]
          /\ Goto(c, "ended")
          /\ UNCHANGED slot
  /\ UNCHANGED <<timer, app, mutex, pinging>>

-----------------------------------------------------------------------------
(* ws_establishconnection *)

(* do_handshake: a request is answered and on_open called, or it fails. *)
Handshakes(c) ==
  /\ At(c, "request")
  /\ \/ /\ TRUE \in Sends(c)
        /\ session' = [session EXCEPT ![c].pc = "onopen", ![c].events[1] = @ + 1]
     \/ Goto(c, "closed")
  /\ UNCHANGED <<slot, timer, app, mutex, pinging, net>>

(* on_open returns; set_client_state. *)
SetsOpen(c) ==
  /\ At(c, "onopen")
  /\ slot' = [slot EXCEPT ![session[c].slot].state = "OPEN"]
  /\ Goto(c, "read")
  /\ UNCHANGED <<timer, app, mutex, pinging, net>>

(* A message goes to on_message and changes nothing here.  A frame that is *)
(* in error, or not a CLOSE while the state is CLOSING, ends the session.  *)
BadFrame(c) ==
  /\ At(c, "read") /\ net[c].up /\ ~net[c].shut
  /\ Goto(c, "onclose")
  /\ UNCHANGED <<slot, timer, app, mutex, pinging, net>>

(* A PONG with a number that was sent. *)
GetsPong(c) ==
  /\ At(c, "read") /\ net[c].up /\ ~net[c].shut
  /\ Mine(c).state # "CLOSING"
  /\ pinging[session[c].slot] = None
  /\ \E n \in 1 .. Mine(c).ping : slot' = [slot EXCEPT ![session[c].slot].pong = n]
  /\ UNCHANGED <<session, timer, app, mutex, pinging, net>>

(* A CLOSE frame: answered unless the state is CLOSING. *)
GetsClose(c) ==
  /\ At(c, "read") /\ net[c].up /\ ~net[c].shut
  /\ Goto(c, IF Mine(c).state = "CLOSING" THEN "onclose" ELSE "answer")
  /\ UNCHANGED <<slot, timer, app, mutex, pinging, net>>

(* set_client_state and do_close, whose failure changes nothing. *)
AnswersClose(c) ==
  /\ At(c, "answer")
  /\ slot' = [slot EXCEPT ![session[c].slot].state = "CLOSING"]
  /\ \E sent \in Sends(Mine(c).sock) : net' = IF sent THEN CountClose(Mine(c).sock) ELSE net
  /\ Goto(c, "onclose")
  /\ UNCHANGED <<timer, app, mutex, pinging>>

(* recv fails: the peer has gone or the socket was closed. *)
ReadFails(c) ==
  /\ At(c, "read") /\ (~net[c].up \/ net[c].shut)
  /\ Goto(c, "onclose")
  /\ UNCHANGED <<slot, timer, app, mutex, pinging, net>>

(* on_close *)
CallsOnclose(c) ==
  /\ At(c, "onclose")
  /\ session' = [session EXCEPT ![c].pc = "closed", ![c].events[2] = @ + 1]
  /\ UNCHANGED <<slot, timer, app, mutex, pinging, net>>

(* The label closed: is there a time-out thread to wait for? *)
LooksForTimer(c) ==
  /\ At(c, "closed")
  /\ Goto(c, IF Mine(c).timer # None THEN "join" ELSE "check")
  /\ UNCHANGED <<slot, timer, app, mutex, pinging, net>>

(* The signal only makes that thread look at the state and wait on. *)
JoinsTimer(c) ==
  /\ At(c, "join")
  /\ Mine(c).timer # None => timer[Mine(c).timer] = "ended"
  /\ Goto(c, "check")
  /\ UNCHANGED <<slot, timer, app, mutex, pinging, net>>

(* "Close connectin properly": unless somebody else did. *)
ClosesSession(c) ==
  /\ At(c, "check")
  /\ IF Mine(c).state # "CLOSED"
     THEN ClosesSocket(session[c].slot) /\ Goto(c, "release")
     ELSE Goto(c, "ended") /\ UNCHANGED <<slot, net>>
  /\ UNCHANGED <<timer, app, mutex, pinging>>

ReleasesSession(c) ==
  /\ At(c, "release") /\ mutex = None
  /\ Releases(session[c].slot)
  /\ Goto(c, "ended")
  /\ UNCHANGED <<timer, app, mutex, pinging>>

-----------------------------------------------------------------------------
(* close_timeout *)

(* The time has passed; nothing is to be done for a closed connection. *)
TimerExpires(c) ==
  /\ timer[c] = "waits"
  /\ timer' = [timer EXCEPT ![c] = IF Mine(c).state = "CLOSED" THEN "ended" ELSE "closes"]
  /\ UNCHANGED <<slot, session, app, mutex, pinging, net>>

TimerCloses(c) ==
  /\ timer[c] = "closes"
  /\ ClosesSocket(session[c].slot)
  /\ timer' = [timer EXCEPT ![c] = "release"]
  /\ UNCHANGED <<session, app, mutex, pinging>>

TimerReleases(c) ==
  /\ timer[c] = "release" /\ mutex = None
  /\ Releases(session[c].slot)
  /\ timer' = [timer EXCEPT ![c] = "ended"]
  /\ UNCHANGED <<session, app, mutex, pinging>>

-----------------------------------------------------------------------------
(* ws_close_client, called by one of the application's threads             *)

Step(a, pc) == app' = [app EXCEPT ![a].pc = pc]
Done(a) == app' = [app EXCEPT ![a] = Idle]

(* A thread calls op for a connection that on_open told it of and on_close *)
(* has not taken back.                                                     *)
Known(c) == session[c].pc \in {"read", "answer", "onclose"} \cup IF Early THEN {"onopen"} ELSE {}

CloseCalled(a, c) ==
  /\ "close" \in Ops /\ app[a] = Idle /\ Known(c)
  /\ Mine(c).sock # None
  /\ net[c].closes < MaxCloses
  /\ app' = [app EXCEPT ![a] = [pc |-> "sendclose", slot |-> session[c].slot, single |-> TRUE]]
  /\ UNCHANGED <<slot, session, timer, mutex, pinging, net>>

SendsClose(a) ==
  /\ app[a].pc = "sendclose"
  /\ LET c == slot[app[a].slot].sock
     IN \E sent \in Sends(c) :
          IF sent THEN net' = CountClose(c) /\ Step(a, "starttimer")
                  ELSE Done(a) /\ UNCHANGED net
  /\ UNCHANGED <<slot, session, timer, mutex, pinging>>

(* Mutant: the state changes, but no thread is started. *)
MutStartsTimeout(a) ==
  /\ app[a].pc = "starttimer"
  /\ slot' = [slot EXCEPT ![app[a].slot].state = IF @ = "OPEN" THEN "CLOSING" ELSE @]
  /\ net' = [net EXCEPT ![slot[app[a].slot].sock].asked = TRUE]
  /\ Done(a)
  /\ UNCHANGED <<session, timer, mutex, pinging>>

(* start_close_timeout, and ws_close_client returns 0. *)
StartsTimeout(a) ==
  /\ app[a].pc = "starttimer"
  /\ LET s == app[a].slot
         c == slot[s].sock
     IN /\ IF slot[s].state = "OPEN"
           THEN /\ slot' = [slot EXCEPT ![s].state = "CLOSING", ![s].timer = c]
                /\ timer' = [timer EXCEPT ![c] = "waits"]
           ELSE UNCHANGED <<slot, timer>>
        /\ net' = [d \in Conns |-> [net[d] EXCEPT !.asked = @ \/ c = d]]
  /\ Done(a)
  /\ UNCHANGED <<session, mutex, pinging>>

-----------------------------------------------------------------------------
(* ws_ping, of one connection or of all                                    *)

PingCalled(a, c) ==
  /\ "ping" \in Ops /\ app[a] = Idle /\ Known(c)
  /\ Mine(c).state = "OPEN" /\ Mine(c).ping < MaxPing
  /\ app' = [app EXCEPT ![a] = [pc |-> "ping", slot |-> session[c].slot, single |-> TRUE]]
  /\ UNCHANGED <<slot, session, timer, mutex, pinging, net>>

PingAllCalled(a) ==
  /\ "pingall" \in Ops /\ app[a] = Idle
  /\ \A s \in Slot : slot[s].ping < MaxPing
  /\ mutex = None /\ mutex' = a
  /\ app' = [app EXCEPT ![a] = [pc |-> "look", slot |-> 1, single |-> FALSE]]
  /\ UNCHANGED <<slot, session, timer, pinging, net>>

(* What follows a slot: the next one, or the end and the unlock. *)
Onwards(a) ==
  IF app[a].single \/ app[a].slot = MaxClients
  THEN Done(a) /\ mutex' = (IF app[a].single THEN mutex ELSE None)
  ELSE /\ app' = [app EXCEPT ![a].pc = "look", ![a].slot = @ + 1]
       /\ UNCHANGED mutex

(* The broadcast passes over what is not open. *)
LooksAt(a) ==
  /\ app[a].pc = "look"
  /\ IF slot[app[a].slot].state = "OPEN" THEN Step(a, "ping") /\ UNCHANGED mutex
                                         ELSE Onwards(a)
  /\ UNCHANGED <<slot, session, timer, pinging, net>>

(* The PING is sent, and mtx_ping kept if too many were not answered. *)
Pings(a) ==
  /\ app[a].pc = "ping"
  /\ LET s == app[a].slot
     IN /\ pinging[s] = None
        /\ slot' = [slot EXCEPT ![s].ping = @ + 1]
        /\ IF slot'[s].ping - slot[s].pong > Threshold
           THEN pinging' = [pinging EXCEPT ![s] = a] /\ Step(a, "pingclose") /\ UNCHANGED mutex
           ELSE Onwards(a) /\ UNCHANGED pinging
  /\ UNCHANGED <<session, timer, net>>

PingCloses(a) ==
  /\ app[a].pc = "pingclose"
  /\ ClosesSocket(app[a].slot)
  /\ Step(a, "pingrelease")
  /\ UNCHANGED <<session, timer, mutex, pinging>>

(* A single ping has to take the mutex, the broadcast has it. *)
PingReleases(a) ==
  /\ app[a].pc = "pingrelease"
  /\ app[a].single => mutex = None
  /\ Releases(app[a].slot)
  /\ pinging' = [pinging EXCEPT ![app[a].slot] = None]
  /\ Onwards(a)
  /\ UNCHANGED <<session, timer>>

-----------------------------------------------------------------------------
(* The peer goes away. *)
PeerGoes(c) ==
  /\ net[c].up /\ ~At(c, "none")
  /\ net' = [net EXCEPT ![c].up = FALSE]
  /\ UNCHANGED <<slot, session, timer, app, mutex, pinging>>

-----------------------------------------------------------------------------
(* What a session does by itself, once there is something to do. *)
SessionRuns(c) ==
  \/ Handshakes(c) \/ SetsOpen(c) \/ AnswersClose(c) \/ ReadFails(c) \/ CallsOnclose(c)
  \/ LooksForTimer(c) \/ JoinsTimer(c) \/ ClosesSession(c) \/ ReleasesSession(c)

TimerRuns(c) == TimerExpires(c) \/ TimerCloses(c) \/ TimerReleases(c)

Receives(c) == BadFrame(c) \/ GetsPong(c) \/ GetsClose(c)

AppRuns(a) ==
  \/ SendsClose(a) \/ StartsTimeout(a)
  \/ LooksAt(a) \/ Pings(a) \/ PingCloses(a) \/ PingReleases(a)

Next ==
  \/ \E c \in Conns : Accepts(c) \/ SessionRuns(c) \/ TimerRuns(c) \/ Receives(c) \/ PeerGoes(c)
  \/ \E a \in App : \/ AppRuns(a) \/ PingAllCalled(a)
                    \/ \E c \in Conns : CloseCalled(a, c) \/ PingCalled(a, c)

Spec == Init /\ [][Next]_vars

-----------------------------------------------------------------------------
(* Types of the state; no PONG is counted for a PING that was not sent.    *)
TypeOK ==
  /\ slot \in [Slot -> {s \in [sock : 0 .. MaxConns, timer : 0 .. MaxConns,
                               state : {"CONNECTING", "OPEN", "CLOSING", "CLOSED"},
                               ping : Nat, pong : Nat] : s.pong <= s.ping}]
  /\ session \in [Conns -> [pc : {"none", "request", "onopen", "read", "answer", "onclose",
                                  "closed", "join", "check", "release", "ended"},
                           slot : Slot, events : (0 .. 1) \X (0 .. 1)]]
  /\ timer \in [Conns -> {"none", "waits", "closes", "release", "ended"}]
  /\ app \in [App -> [pc : {"idle", "sendclose", "starttimer", "look", "ping", "pingclose",
                            "pingrelease"}, slot : Slot, single : BOOLEAN]]
  /\ mutex \in App \cup {None}
  /\ pinging \in [Slot -> App \cup {None}]
  /\ net \in [Conns -> [up : BOOLEAN, shut : BOOLEAN, asked : BOOLEAN, closes : Nat]]

(* A slot belongs to one session, and is not given away before the session *)
(* is through with it.                                                     *)
SlotOwned ==
  \A c, d \in Conns : LET alive(e) == session[e].pc \notin {"none", "ended"}
                     IN alive(c) => /\ Mine(c).sock = c
                                    /\ alive(d) /\ session[d].slot = session[c].slot => c = d

(* "on_close events always occur" (ws.c:1506): once for each on_open, and  *)
(* before the session ends.                                                *)
EventsPaired ==
  \A c \in Conns : LET e == session[c].events
                  IN /\ e[2] <= e[1] /\ e[1] <= 1
                     /\ At(c, "ended") => e[2] = e[1]

(* No socket stays open behind a session that has ended, whichever of the  *)
(* session, its time-out thread and ws_ping had to close it.               *)
EndedIsClosed == \A c \in Conns : At(c, "ended") => net[c].shut
=============================================================================
