------------------------------ MODULE WsBridge ------------------------------
(***************************************************************************)
(* The bridge between wsh264 and the wsfs WebSocket library                *)
(* (wsh264/src/ws_wsfs_compat.c): the list of ws_cli_conn_t handles, the   *)
(* callbacks that the library's connection threads run, and the handle's   *)
(* use by wsh264's streaming threads.                                      *)
(*                                                                         *)
(* The list is only touched under g_wsfs_bridge_lock, but what a look-up   *)
(* found is used after the unlock.  A handle's memory is reused once it is *)
(* freed, and the library reuses a connection's address once its on_close  *)
(* has returned.                                                           *)
(*                                                                         *)
(* wsfs is not under src/.  Assumed of it: the callbacks of one connection *)
(* come one after the other, on_open first and on_close last; those of     *)
(* different connections run concurrently; the server runs as long as a    *)
(* connection does.                                                        *)
(***************************************************************************)
EXTENDS Naturals, Sequences, SequencesExt

CONSTANTS Conn,      \* addresses of wsfs connections
          Handle,    \* addresses that calloc may return
          NoHandle,  \* NULL
          MaxOpens   \* bound on the connections opened

ASSUME BridgeAssumption == NoHandle \notin Handle /\ MaxOpens \in Nat

VARIABLES
  registered,  \* g_wsfs_servers holds the bridge
  clients,     \* g_wsfs_clients, from its head on
  mem,         \* the handles' memory
  thread,      \* the library's thread of a connection
  stream,      \* wsh264's streaming threads of a handle
  opens        \* connections opened so far

vars == <<registered, clients, mem, thread, stream, opens>>

(* mem[h]: is it allocated, client->conn, client->state, and which         *)
(* connection of all that were ever opened it was made for.                *)
(* thread[c]: where the callback is, the handle it works with, and the     *)
(* number of the connection that has the address c.  stream[h]: is there   *)
(* a streaming thread, was it asked to stop, is it inside ws_sendframe.    *)
NoStream == [on |-> FALSE, stop |-> FALSE, sending |-> FALSE]

Init ==
  /\ registered = FALSE
  /\ clients = <<>>
  /\ mem \in [Handle -> {[live |-> FALSE, conn |-> c, state |-> "closed", id |-> 0] : c \in Conn}]
  /\ thread = [c \in Conn |-> [pc |-> "none", handle |-> NoHandle, id |-> 0]]
  /\ stream = [h \in Handle |-> NoStream]
  /\ opens = 0

At(c, pc) == thread[c].pc = pc
Goto(c, pc) == thread' = [thread EXCEPT ![c].pc = pc]

-----------------------------------------------------------------------------
(* ws_socket: the bridge is registered before the server runs and          *)
(* unregistered when it has stopped, with no connection left.              *)
Registers ==
  /\ ~registered
  /\ registered' = TRUE
  /\ UNCHANGED <<clients, mem, thread, stream, opens>>

Unregisters ==
  /\ registered
  /\ \A c \in Conn : At(c, "none")
  /\ registered' = FALSE
  /\ UNCHANGED <<clients, mem, thread, stream, opens>>

-----------------------------------------------------------------------------
(* wsfs_bridge_on_open                                                     *)

(* The library accepts a connection; the callback finds the bridge. *)
Opens(c) ==
  /\ registered
  /\ At(c, "none")
  /\ opens < MaxOpens /\ opens' = opens + 1
  /\ thread' = [thread EXCEPT ![c] = [pc |-> "alloc", handle |-> NoHandle, id |-> opens + 1]]
  /\ UNCHANGED <<registered, clients, mem, stream>>

(* calloc and the assignments; without memory the connection goes on       *)
(* without a handle.                                                       *)
Allocates(c) ==
  /\ At(c, "alloc")
  /\ \/ \E h \in Handle :
          /\ ~mem[h].live
          /\ mem' = [mem EXCEPT ![h] = [live |-> TRUE, conn |-> c, state |-> "open",
                                        id |-> thread[c].id]]
          /\ thread' = [thread EXCEPT ![c].pc = "register", ![c].handle = h]
     \/ Goto(c, "ready") /\ UNCHANGED mem
  /\ UNCHANGED <<registered, clients, stream, opens>>

(* wsfs_bridge_register_client *)
RegistersClient(c) ==
  /\ At(c, "register")
  /\ clients' = <<thread[c].handle>> \o clients
  /\ Goto(c, "onopen")
  /\ UNCHANGED <<registered, mem, stream, opens>>

(* events.onopen; the thread forgets the handle when the callback returns. *)
CallsOnopen(c) ==
  /\ At(c, "onopen")
  /\ thread' = [thread EXCEPT ![c].pc = "ready", ![c].handle = NoHandle]
  /\ UNCHANGED <<registered, clients, mem, stream, opens>>

-----------------------------------------------------------------------------
(* wsfs_bridge_on_message                                                  *)

(* The loops over the list stop at the first position that fits. *)
First(fits) == CHOOSE i \in fits : \A j \in fits : i <= j

(* Mutant: the newest handle is taken. *)
MutFound(c) == IF clients = <<>> THEN NoHandle ELSE Head(clients)

(* wsfs_bridge_find_client: the first handle with this connection. *)
Found(c) ==
  LET mine == {i \in DOMAIN clients : mem[clients[i]].conn = c}
  IN IF mine = {} THEN NoHandle ELSE clients[First(mine)]

LooksUp(c, pc) ==
  /\ At(c, "ready")
  /\ thread' = [thread EXCEPT ![c].handle = Found(c),
                              ![c].pc = IF Found(c) # NoHandle THEN pc
                                        ELSE IF pc = "onclose" THEN "none" ELSE "ready"]
  /\ UNCHANGED <<registered, clients, mem, stream, opens>>

Message(c) == LooksUp(c, "onmessage")

(* stop_video_stream, stop_audio_stream: the thread is asked to end, and   *)
(* the caller waits until it has.                                          *)
AsksToStop(h) == [stream EXCEPT ![h].stop = stream[h].on]

(* events.onmessage: the command starts a stream, stops it, or does        *)
(* something else.                                                         *)
CallsOnmessage(c) ==
  /\ At(c, "onmessage")
  /\ LET h == thread[c].handle
         done == thread' = [thread EXCEPT ![c].pc = "ready", ![c].handle = NoHandle]
     IN \/ ~stream[h].stop /\ stream' = [stream EXCEPT ![h].on = TRUE] /\ done
        \/ stream[h].on /\ stream' = AsksToStop(h) /\ UNCHANGED thread
        \/ ~stream[h].stop /\ UNCHANGED stream /\ done
  /\ UNCHANGED <<registered, clients, mem, opens>>

-----------------------------------------------------------------------------
(* wsfs_bridge_on_close                                                    *)

Close(c) == LooksUp(c, "onclose")

(* The state is set, and events.onclose stops what is streaming. *)
CallsOnclose(c) ==
  /\ At(c, "onclose")
  /\ LET h == thread[c].handle
     IN /\ mem' = [mem EXCEPT ![h].state = "closed"]
        /\ stream' = AsksToStop(h)
        /\ Goto(c, IF stream[h].on THEN "onclose" ELSE "unregister")
  /\ UNCHANGED <<registered, clients, opens>>

(* wsfs_bridge_unregister_client: the first link to the handle goes. *)
UnregistersClient(c) ==
  /\ At(c, "unregister")
  /\ LET mine == {i \in DOMAIN clients : clients[i] = thread[c].handle}
     IN clients' = IF mine = {} THEN clients ELSE RemoveAt(clients, First(mine))
  /\ Goto(c, "free")
  /\ UNCHANGED <<registered, mem, stream, opens>>

(* free(client) and the end of the callback. *)
Frees(c) ==
  /\ At(c, "free")
  /\ mem' = [mem EXCEPT ![thread[c].handle].live = FALSE]
  /\ thread' = [thread EXCEPT ![c].pc = "none", ![c].handle = NoHandle]
  /\ UNCHANGED <<registered, clients, stream, opens>>

-----------------------------------------------------------------------------
(* A streaming thread: ws_sendframe, and the test of its closing flag.     *)

(* ws_sendframe reads client->conn and enters the library ... *)
StreamSends(h) ==
  /\ stream[h].on /\ ~stream[h].sending
  /\ stream' = [stream EXCEPT ![h].sending = TRUE]
  /\ UNCHANGED <<registered, clients, mem, thread, opens>>

(* ... and is back. *)
StreamSent(h) ==
  /\ stream[h].sending
  /\ stream' = [stream EXCEPT ![h].sending = FALSE]
  /\ UNCHANGED <<registered, clients, mem, thread, opens>>

(* The thread found its closing flag set: it clears both flags and ends.   *)
StreamEnds(h) ==
  /\ stream[h].stop /\ ~stream[h].sending
  /\ stream' = [stream EXCEPT ![h] = NoStream]
  /\ UNCHANGED <<registered, clients, mem, thread, opens>>

-----------------------------------------------------------------------------
Callback(c) == \/ Opens(c) \/ Allocates(c) \/ RegistersClient(c) \/ CallsOnopen(c)
               \/ Message(c) \/ CallsOnmessage(c)
               \/ Close(c) \/ CallsOnclose(c) \/ UnregistersClient(c) \/ Frees(c)

Streams(h) == StreamSends(h) \/ StreamSent(h) \/ StreamEnds(h)

Next == Registers \/ Unregisters \/ (\E c \in Conn : Callback(c)) \/ (\E h \in Handle : Streams(h))

Spec == Init /\ [][Next]_vars

-----------------------------------------------------------------------------
(* Types of the state; a stream's flags are only set while it has a thread. *)
TypeOK ==
  /\ registered \in BOOLEAN
  /\ clients \in Seq(Handle)
  /\ mem \in [Handle -> [live : BOOLEAN, conn : Conn, state : {"open", "closed"}, id : 0 .. MaxOpens]]
  /\ thread \in [Conn -> [pc : {"none", "alloc", "register", "onopen", "ready", "onmessage",
                                "onclose", "unregister", "free"},
                          handle : Handle \cup {NoHandle}, id : 0 .. MaxOpens]]
  /\ stream \in [Handle -> {s \in [on : BOOLEAN, stop : BOOLEAN, sending : BOOLEAN] :
                             s.stop \/ s.sending => s.on}]
  /\ opens \in 0 .. MaxOpens

(* h is the handle of the connection that has the address c now. *)
Belongs(h, c) == mem[h].live /\ mem[h].conn = c /\ mem[h].id = thread[c].id

(* The handle that a callback works with after the unlock is alive and was *)
(* made for this very connection, not for one that had its address before. *)
RightHandle ==
  \A c \in Conn : thread[c].handle # NoHandle => Belongs(thread[c].handle, c)

(* A streaming thread sends on a handle that is alive and on a connection  *)
(* that is still open: on_close ends the thread before it frees.           *)
SendsOnOpen ==
  \A h \in Handle : stream[h].on => Belongs(h, mem[h].conn) /\ ~At(mem[h].conn, "none")

(* The list holds exactly the living handles, once, but for the two short  *)
(* times in which the callback that makes or unmakes a handle has it alone; *)
(* none outlives its connection.                                           *)
ListSound ==
  /\ IsInjective(clients)
  /\ \A h \in Handle :
       LET own == At(mem[h].conn, "register") \/ At(mem[h].conn, "free")
       IN /\ h \in ToSet(clients) => mem[h].live
          /\ mem[h].live => /\ Belongs(h, mem[h].conn) /\ ~At(mem[h].conn, "none")
                            /\ h \in ToSet(clients) \/ own

(* The handle that a callback or a streaming thread works with after the   *)
(* unlock is alive and its own connection's, whatever addresses are reused. *)
BridgeSound == TypeOK /\ RightHandle /\ SendsOnOpen /\ ListSound
=============================================================================
