---------------------------- MODULE ServerProofs ----------------------------
(***************************************************************************)
(* wsh264's connections under either library.  WsBridge, the present       *)
(* build's, for any number of connection addresses, handle addresses and   *)
(* connections: what a callback or a streaming thread works with after the *)
(* unlock is alive and its own connection's.  WsServer, the library it     *)
(* replaced, for any number of slots, connections and application threads: *)
(* each on_open has its on_close, and no session leaves a socket behind.   *)
(* NalScan, for every file: it is cut at its start codes.                  *)
(***************************************************************************)
EXTENDS ServerParts, Integers, WellFoundedInduction, SequenceTheorems, TLAPS

-----------------------------------------------------------------------------
(* Where a callback has a handle, and where that is in the list.           *)
Works  == {"register", "onopen", "onmessage", "onclose", "unregister", "free"}
Linked == {"onopen", "onmessage", "onclose", "unregister"}

Listed(h) == \E i \in DOMAIN clients : clients[i] = h

(* A callback has the handle that was made for its connection, in the list *)
(* but before it was registered and after it was unregistered.             *)
ThreadOK(c) ==
  /\ thread[c].pc \in Works <=> thread[c].handle # NoHandle
  /\ thread[c].pc \in Works  => Belongs(thread[c].handle, c)
  /\ thread[c].pc \in Linked => Listed(thread[c].handle)
  /\ thread[c].pc \in {"register", "free"} => ~Listed(thread[c].handle)

(* A living handle is in the list or in the hands of its own callback, and *)
(* has a stream only when that callback neither makes nor unmakes it.      *)
HandleOK(h) ==
  LET c == mem[h].conn
  IN /\ Listed(h) => mem[h].live
     /\ mem[h].live => /\ Belongs(h, c) /\ thread[c].pc \notin {"none", "alloc"}
                       /\ Listed(h) \/ (thread[c].pc \in {"register", "free"} /\ thread[c].handle = h)
     /\ stream[h].on => mem[h].live /\ thread[c].pc \in {"ready", "onmessage", "onclose"}

(* A connection has one handle. *)
OneHandle == \A g, h \in Handle : mem[g].live /\ mem[h].live /\ mem[g].conn = mem[h].conn => g = h

(* The inductive invariant. *)
BridgeInv ==
  /\ TypeOK /\ OneHandle /\ IsInjective(clients)
  /\ \A c \in Conn : ThreadOK(c)
  /\ \A h \in Handle : HandleOK(h)

-----------------------------------------------------------------------------
(* Types                                                                   *)
Place == {"none", "alloc", "register", "onopen", "ready", "onmessage", "onclose", "unregister", "free"}

ThreadRec == [pc : Place, handle : Handle \cup {NoHandle}, id : 0 .. MaxOpens]
HandleRec == [live : BOOLEAN, conn : Conn, state : {"open", "closed"}, id : 0 .. MaxOpens]
StreamRec == {s \in [on : BOOLEAN, stop : BOOLEAN, sending : BOOLEAN] : s.stop \/ s.sending => s.on}

Types == /\ registered \in BOOLEAN /\ clients \in Seq(Handle) /\ opens \in 0 .. MaxOpens
         /\ mem \in [Handle -> HandleRec] /\ thread \in [Conn -> ThreadRec]
         /\ stream \in [Handle -> StreamRec]

LEMMA Typed == (TypeOK <=> Types) /\ (TypeOK' <=> Types')
  BY Zenon DEF TypeOK, Types, ThreadRec, HandleRec, StreamRec, Place

(* The thread of c changes, and nobody else's. *)
Moves(c, p, h) ==
  /\ thread' \in [Conn -> ThreadRec]
  /\ thread'[c].pc = p /\ thread'[c].handle = h
  /\ \A d \in Conn \ {c} : thread'[d] = thread[d]

LEMMA MovesOK ==
  ASSUME thread \in [Conn -> ThreadRec], NEW c \in Conn, NEW p \in Place, NEW h \in Handle \cup {NoHandle},
         thread' = [thread EXCEPT ![c].pc = p, ![c].handle = h]
  PROVE  Moves(c, p, h) /\ thread'[c].id = thread[c].id
  <1>1. thread' \in [Conn -> ThreadRec]
    BY DEF ThreadRec
  <1>2. thread'[c].pc = p /\ thread'[c].handle = h /\ thread'[c].id = thread[c].id
    BY DEF ThreadRec
  <1>3. \A d \in Conn \ {c} : thread'[d] = thread[d]
    OBVIOUS
  <1>4. QED
    BY <1>1, <1>2, <1>3 DEF Moves

LEMMA GotoOK ==
  ASSUME thread \in [Conn -> ThreadRec], NEW c \in Conn, NEW p \in Place, Goto(c, p)
  PROVE  Moves(c, p, thread[c].handle) /\ thread'[c].id = thread[c].id
  <1>1. thread' \in [Conn -> ThreadRec]
    BY DEF ThreadRec, Goto
  <1>2. thread'[c].pc = p /\ thread'[c].handle = thread[c].handle /\ thread'[c].id = thread[c].id
    BY DEF ThreadRec, Goto
  <1>3. \A d \in Conn \ {c} : thread'[d] = thread[d]
    BY DEF Goto
  <1>4. QED
    BY <1>1, <1>2, <1>3 DEF Moves

-----------------------------------------------------------------------------
(* The list                                                                *)

(* A handle in front. *)
LEMMA Prepended ==
  ASSUME clients \in Seq(Handle), NEW h \in Handle, clients' = <<h>> \o clients,
         IsInjective(clients), ~Listed(h)
  PROVE  /\ clients' \in Seq(Handle) /\ IsInjective(clients')
         /\ \A g : Listed(g)' <=> Listed(g) \/ g = h
  <1>1. PICK n \in Nat : n = Len(clients) /\ DOMAIN clients = 1 .. n
    OBVIOUS
  <1>0. \A i, j \in 1 .. n : clients[i] = clients[j] => i = j
    BY <1>1 DEF IsInjective
  <1>2. /\ clients' \in Seq(Handle) /\ DOMAIN clients' = 1 .. n + 1 /\ clients'[1] = h
        /\ \A i \in 1 .. n : clients'[i + 1] = clients[i]
    BY <1>1
  <1>3. \A i \in 2 .. n + 1 : i - 1 \in 1 .. n /\ clients'[i] = clients[i - 1]
    <2>1. ASSUME NEW i \in 2 .. n + 1 PROVE i - 1 \in 1 .. n /\ clients'[i] = clients[i - 1]
      <3>1. i - 1 \in 1 .. n /\ (i - 1) + 1 = i
        OBVIOUS
      <3>2. QED
        BY <1>2, <3>1
    <2>2. QED
      BY <2>1
  <1>4. \A i \in 1 .. n : clients[i] # h
    BY <1>1 DEF Listed
  <1>5. IsInjective(clients')
    <2>1. ASSUME NEW i \in 1 .. n + 1, NEW j \in 1 .. n + 1, clients'[i] = clients'[j] PROVE i = j
      <3>1. CASE i = 1 \/ j = 1
        BY <1>2, <1>3, <1>4, <2>1, <3>1
      <3>2. CASE i # 1 /\ j # 1
        <4>1. i - 1 \in 1 .. n /\ j - 1 \in 1 .. n /\ clients[i - 1] = clients[j - 1]
          <5>1. i \in 2 .. n + 1 /\ j \in 2 .. n + 1
            BY <2>1, <3>2
          <5>2. QED
            BY <1>3, <2>1, <5>1
        <4>2. i - 1 = j - 1
          BY <1>0, <4>1
        <4>3. QED
          BY <2>1, <4>2
      <3>3. QED
        BY <3>1, <3>2
    <2>2. QED
      BY <1>2, <2>1 DEF IsInjective
  <1>6. ASSUME NEW g PROVE Listed(g)' <=> Listed(g) \/ g = h
    <2>1. ASSUME Listed(g)' PROVE Listed(g) \/ g = h
      <3>1. PICK i \in 1 .. n + 1 : clients'[i] = g
        BY <1>2, <2>1 DEF Listed
      <3>2. QED
        BY <1>1, <1>2, <1>3, <3>1 DEF Listed
    <2>2. ASSUME Listed(g) PROVE Listed(g)'
      <3>1. PICK i \in 1 .. n : clients[i] = g
        BY <1>1, <2>2 DEF Listed
      <3>2. i + 1 \in 1 .. n + 1 /\ clients'[i + 1] = g
        BY <1>2, <3>1
      <3>3. QED
        BY <1>2, <3>2 DEF Listed
    <2>3. ASSUME g = h PROVE Listed(g)'
      <3>1. 1 \in 1 .. n + 1
        OBVIOUS
      <3>2. QED
        BY <1>2, <2>3, <3>1 DEF Listed
    <2>4. QED
      BY <2>1, <2>2, <2>3
  <1>7. QED
    BY <1>2, <1>5, <1>6

(* The first of one position. *)
LEMMA FirstOfOne ==
  ASSUME NEW i \in Nat
  PROVE  First({i}) = i
  BY DEF First

(* The parts of two sequences that are joined. *)
LEMMA Joined ==
  ASSUME NEW S, NEW a \in Seq(S), NEW b \in Seq(S), NEW p \in Nat, p = Len(a), NEW q \in Nat, q = Len(b)
  PROVE  /\ a \o b \in Seq(S) /\ DOMAIN (a \o b) = 1 .. p + q
         /\ \A i \in 1 .. p : (a \o b)[i] = a[i]
         /\ \A i \in p + 1 .. p + q : (a \o b)[i] = b[i - p]
  OBVIOUS

(* A handle out of the middle. *)
LEMMA Removed ==
  ASSUME clients \in Seq(Handle), IsInjective(clients), NEW h, Listed(h),
         LET mine == {i \in DOMAIN clients : clients[i] = h}
         IN clients' = IF mine = {} THEN clients ELSE RemoveAt(clients, First(mine))
  PROVE  /\ clients' \in Seq(Handle) /\ IsInjective(clients')
         /\ \A g : Listed(g)' <=> Listed(g) /\ g # h
  <1>1. PICK n \in Nat : n = Len(clients) /\ DOMAIN clients = 1 .. n
    OBVIOUS
  <1>2. \A i, j \in 1 .. n : clients[i] = clients[j] => i = j
    BY <1>1 DEF IsInjective
  <1>3. PICK k \in 1 .. n : clients[k] = h
    BY <1>1 DEF Listed
  <1>4. clients' = SubSeq(clients, 1, k - 1) \o SubSeq(clients, k + 1, n)
    <2>1. {i \in DOMAIN clients : clients[i] = h} = {k}
      BY <1>1, <1>2, <1>3
    <2>2. First({k}) = k
      BY <1>3, FirstOfOne
    <2>3. QED
      BY <1>1, <2>1, <2>2 DEF RemoveAt
  <1>5. PICK a \in Seq(Handle), b \in Seq(Handle) :
                   /\ Len(a) = k - 1 /\ \A i \in 1 .. k - 1 : a[i] = clients[i]
                   /\ Len(b) = n - k /\ \A i \in 1 .. n - k : b[i] = clients[k + i]
                   /\ clients' = a \o b
    <2>1. /\ SubSeq(clients, 1, k - 1) \in Seq(Handle) /\ Len(SubSeq(clients, 1, k - 1)) = k - 1
          /\ \A i \in 1 .. k - 1 : SubSeq(clients, 1, k - 1)[i] = clients[i]
      BY <1>1, <1>3
    <2>2. /\ SubSeq(clients, k + 1, n) \in Seq(Handle) /\ Len(SubSeq(clients, k + 1, n)) = n - k
          /\ \A i \in 1 .. n - k : SubSeq(clients, k + 1, n)[i] = clients[k + i]
      BY <1>1, <1>3
    <2> DEFINE x == SubSeq(clients, 1, k - 1)
               y == SubSeq(clients, k + 1, n)
    <2>3. /\ x \in Seq(Handle) /\ y \in Seq(Handle) /\ clients' = x \o y
          /\ Len(x) = k - 1 /\ \A i \in 1 .. k - 1 : x[i] = clients[i]
          /\ Len(y) = n - k /\ \A i \in 1 .. n - k : y[i] = clients[k + i]
      BY <1>4, <2>1, <2>2
    <2> HIDE DEF x, y
    <2>4. QED
      BY <2>3
  <1>6. /\ clients' \in Seq(Handle) /\ DOMAIN clients' = 1 .. n - 1
        /\ \A i \in 1 .. n - 1 : clients'[i] = clients[IF i < k THEN i ELSE i + 1]
    <2>1. PICK p \in Nat, q \in Nat : p = k - 1 /\ q = n - k
      <3>1. k - 1 \in Nat /\ n - k \in Nat
        BY <1>1, <1>3
      <3>2. QED
        BY <3>1
    <2>2. p = Len(a) /\ q = Len(b)
      BY <1>5, <2>1
    <2>3. /\ clients' \in Seq(Handle) /\ DOMAIN clients' = 1 .. p + q
          /\ \A i \in 1 .. p : clients'[i] = a[i]
          /\ \A i \in p + 1 .. p + q : clients'[i] = b[i - p]
      <3>1. clients' = a \o b
        BY <1>5
      <3>2. a \in Seq(Handle) /\ b \in Seq(Handle) /\ p \in Nat /\ q \in Nat
        BY <1>5, <2>1
      <3>3. /\ a \o b \in Seq(Handle) /\ DOMAIN (a \o b) = 1 .. p + q
            /\ \A i \in 1 .. p : (a \o b)[i] = a[i]
            /\ \A i \in p + 1 .. p + q : (a \o b)[i] = b[i - p]
        BY <2>2, <3>2, Joined
      <3>4. QED
        BY <3>1, <3>3
    <2>4. p + q = n - 1
      BY <1>1, <1>3, <2>1
    <2>5. ASSUME NEW i \in 1 .. n - 1 PROVE clients'[i] = clients[IF i < k THEN i ELSE i + 1]
      <3>1. CASE i < k
        <4>1. i \in 1 .. k - 1 /\ i \in 1 .. p
          BY <1>1, <1>3, <2>1, <3>1
        <4>2. QED
          BY <1>5, <2>3, <3>1, <4>1
      <3>2. CASE ~(i < k)
        <4>1. i - p \in 1 .. n - k /\ k + (i - p) = i + 1 /\ i \in p + 1 .. p + q
          BY <1>1, <1>3, <2>1, <3>2
        <4>2. clients'[i] = b[i - p] /\ b[i - p] = clients[k + (i - p)]
          BY <1>5, <2>3, <4>1
        <4>3. QED
          BY <3>2, <4>1, <4>2
      <3>3. QED
        BY <3>1, <3>2
    <2>6. QED
      BY <2>3, <2>4, <2>5
  <1>7. \A i \in 1 .. n - 1 : (IF i < k THEN i ELSE i + 1) \in 1 .. n /\ (IF i < k THEN i ELSE i + 1) # k
    BY <1>1, <1>3
  <1>8. IsInjective(clients')
    <2>1. ASSUME NEW i \in 1 .. n - 1, NEW j \in 1 .. n - 1, clients'[i] = clients'[j] PROVE i = j
      <3>1. (IF i < k THEN i ELSE i + 1) = (IF j < k THEN j ELSE j + 1)
        <4>1. PICK x, y : x = (IF i < k THEN i ELSE i + 1) /\ y = (IF j < k THEN j ELSE j + 1)
          OBVIOUS
        <4>2. x \in 1 .. n /\ y \in 1 .. n /\ clients[x] = clients[y]
          BY <1>6, <1>7, <2>1, <4>1
        <4>3. QED
          BY <1>2, <4>1, <4>2
      <3>2. QED
        BY <1>1, <1>3, <2>1, <3>1
    <2>2. QED
      BY <1>1, <1>6, <2>1 DEF IsInjective
  <1>9. ASSUME NEW g PROVE Listed(g)' <=> Listed(g) /\ g # h
    <2>1. ASSUME Listed(g)' PROVE Listed(g) /\ g # h
      <3>1. PICK i \in 1 .. n - 1 : clients'[i] = g
        BY <1>6, <2>1 DEF Listed
      <3>2. PICK j \in 1 .. n : j # k /\ clients[j] = g
        BY <1>6, <1>7, <3>1
      <3>3. QED
        BY <1>1, <1>2, <1>3, <3>2 DEF Listed
    <2>2. ASSUME Listed(g), g # h PROVE Listed(g)'
      <3>1. PICK j \in 1 .. n : clients[j] = g
        BY <1>1, <2>2 DEF Listed
      <3>2. PICK i \in 1 .. n - 1 : j = IF i < k THEN i ELSE i + 1
        <4>1. CASE j < k
          BY <1>1, <1>3, <3>1, <4>1
        <4>2. CASE j > k
          <5>1. j - 1 \in 1 .. n - 1 /\ ~(j - 1 < k) /\ j = (j - 1) + 1
            BY <1>1, <1>3, <3>1, <4>2
          <5>2. QED
            BY <5>1
        <4>3. QED
          BY <1>1, <1>3, <2>2, <3>1, <4>1, <4>2
      <3>3. QED
        BY <1>1, <1>6, <3>1, <3>2 DEF Listed
    <2>3. QED
      BY <2>1, <2>2
  <1>10. QED
    BY <1>6, <1>8, <1>9

(* What wsfs_bridge_find_client finds. *)
LEMMA FoundOK ==
  ASSUME BridgeInv, NEW c \in Conn
  PROVE  \/ Found(c) = NoHandle /\ \A h \in Handle : Listed(h) => mem[h].conn # c
         \/ Found(c) \in Handle /\ Listed(Found(c)) /\ mem[Found(c)].conn = c
  <1> DEFINE mine == {i \in DOMAIN clients : mem[clients[i]].conn = c}
  <1>1. PICK n \in Nat : n = Len(clients) /\ DOMAIN clients = 1 .. n /\ \A i \in 1 .. n : clients[i] \in Handle
    BY DEF BridgeInv, TypeOK
  <1>2. CASE mine = {}
    BY <1>1, <1>2 DEF Found, Listed
  <1>3. CASE mine # {}
    <2>1. PICK i \in 1 .. n : mem[clients[i]].conn = c
      BY <1>1, <1>3
    <2>2. ASSUME NEW j \in 1 .. n, mem[clients[j]].conn = c PROVE j = i
      <3>1. mem[clients[i]].live /\ mem[clients[j]].live
        BY <1>1 DEF BridgeInv, HandleOK, Listed
      <3>2. clients[i] = clients[j]
        BY <1>1, <2>1, <2>2, <3>1 DEF BridgeInv, OneHandle
      <3>3. QED
        BY <1>1, <3>2 DEF BridgeInv, IsInjective
    <2>3. mine = {i}
      BY <1>1, <2>1, <2>2
    <2>4. Found(c) = clients[i]
      <3>1. First({i}) = i
        BY FirstOfOne
      <3>2. QED
        BY <2>3, <3>1 DEF Found
    <2>5. QED
      BY <1>1, <2>1, <2>4 DEF Listed
  <1>4. QED
    BY <1>2, <1>3

-----------------------------------------------------------------------------
(* The callbacks                                                           *)

(* What is known of a thread. *)
LEMMA ThreadParts ==
  ASSUME BridgeInv, NEW c \in Conn
  PROVE  thread[c].pc \in Place /\ thread[c].handle \in Handle \cup {NoHandle} /\ ThreadOK(c)
  BY Typed DEF BridgeInv, Types, ThreadRec

LEMMA OpensInv ==
  ASSUME BridgeInv, NEW c \in Conn, Opens(c)
  PROVE  BridgeInv'
  <1>1. /\ registered \in BOOLEAN /\ clients \in Seq(Handle) /\ opens \in 0 .. MaxOpens
        /\ mem \in [Handle -> HandleRec] /\ thread \in [Conn -> ThreadRec]
        /\ stream \in [Handle -> StreamRec]
    BY Typed DEF BridgeInv, Types
  <1>2. opens + 1 \in 0 .. MaxOpens
    BY <1>1, BridgeAssumption DEF Opens
  <1>3. /\ thread' \in [Conn -> ThreadRec]
        /\ thread'[c].pc = "alloc" /\ thread'[c].handle = NoHandle
        /\ \A d \in Conn \ {c} : thread'[d] = thread[d]
    BY <1>1, <1>2 DEF Opens, ThreadRec, Place
  <1>4. UNCHANGED <<registered, clients, mem, stream>> /\ opens' \in 0 .. MaxOpens /\ thread[c].pc = "none"
    BY <1>2 DEF Opens, At
  <1>5. TypeOK'
    <2>1. registered' \in BOOLEAN
      BY <1>1, <1>4, Zenon
    <2>2. QED
      BY <1>1, <1>3, <1>4, <2>1, Typed DEF Types
  <1>6. \A d \in Conn : ThreadOK(d)'
    BY <1>3, <1>4, ThreadParts DEF BridgeInv, ThreadOK, Belongs, Listed, Works, Linked
  <1>7. ASSUME NEW h \in Handle PROVE HandleOK(h)'
    <2>1. mem[h].conn \in Conn /\ HandleOK(h)
      BY <1>1 DEF BridgeInv, HandleRec
    <2>2. ~mem[h].live \/ mem[h].conn # c
      BY <1>4, <2>1 DEF HandleOK
    <2>3. QED
      BY <1>3, <1>4, <2>1, <2>2 DEF HandleOK, Belongs, Listed
  <1>8. OneHandle' /\ IsInjective(clients)'
    BY <1>4 DEF BridgeInv, OneHandle
  <1>9. QED
    BY <1>5, <1>6, <1>7, <1>8 DEF BridgeInv

(* A step of c's callback that keeps the list, and which handles live for  *)
(* which connections.                                                      *)
LEMMA KeepsList ==
  ASSUME BridgeInv, Types', NEW c \in Conn, clients' = clients,
         \A h \in Handle : /\ mem'[h].live <=> mem[h].live
                           /\ mem'[h].conn = mem[h].conn /\ mem'[h].id = mem[h].id,
         \A d \in Conn \ {c} : thread'[d] = thread[d],
         thread'[c].id = thread[c].id,
         ThreadOK(c)',
         \A h \in Handle : stream'[h].on => stream[h].on \/ (mem[h].live /\ mem[h].conn = c),
         \A h \in Handle : mem[h].live /\ mem[h].conn = c => HandleOK(h)'
  PROVE  BridgeInv'
  <1>1. TypeOK' /\ Types
    BY Typed DEF BridgeInv
  <1>2. OneHandle' /\ IsInjective(clients)'
    BY DEF BridgeInv, OneHandle
  <1>3. ASSUME NEW d \in Conn \ {c} PROVE ThreadOK(d)'
    <2>1. ThreadOK(d) /\ thread[d].handle \in Handle \cup {NoHandle}
      BY <1>3, ThreadParts
    <2>2. thread'[d] = thread[d]
      BY <1>3
    <2>3. thread[d].pc \in Works => thread[d].handle \in Handle
      BY <2>1 DEF ThreadOK
    <2>4. QED
      BY <2>1, <2>2, <2>3 DEF ThreadOK, Belongs, Listed
  <1>4. ASSUME NEW h \in Handle PROVE HandleOK(h)'
    <2>1. HandleOK(h) /\ mem[h].conn \in Conn
      BY <1>1 DEF BridgeInv, Types, HandleRec
    <2>2. CASE mem[h].live /\ mem[h].conn = c
      BY <2>2
    <2>3. CASE ~mem[h].live
      BY <2>1, <2>3 DEF HandleOK, Listed
    <2>4. CASE mem[h].conn # c
      <3>1. thread'[mem[h].conn] = thread[mem[h].conn]
        BY <2>1, <2>4
      <3>2. QED
        BY <2>1, <2>4, <3>1 DEF HandleOK, Belongs, Listed
    <2>5. QED
      BY <2>2, <2>3, <2>4
  <1>5. QED
    BY <1>1, <1>2, <1>3, <1>4 DEF BridgeInv

(* A step outside the callbacks. *)
LEMMA KeepsThreads ==
  ASSUME BridgeInv, Types', UNCHANGED <<clients, mem, thread>>,
         \A h \in Handle : stream'[h].on => stream[h].on
  PROVE  BridgeInv'
  <1>1. TypeOK'
    BY Typed
  <1>2. OneHandle' /\ IsInjective(clients)'
    BY DEF BridgeInv, OneHandle
  <1>3. ASSUME NEW d \in Conn PROVE ThreadOK(d)'
    BY <1>3 DEF BridgeInv, ThreadOK, Belongs, Listed
  <1>4. ASSUME NEW h \in Handle PROVE HandleOK(h)'
    BY <1>4 DEF BridgeInv, HandleOK, Belongs, Listed
  <1>5. QED
    BY <1>1, <1>2, <1>3, <1>4 DEF BridgeInv

(* ws_socket, a streaming thread, and nothing. *)
LEMMA OthersInv ==
  ASSUME BridgeInv, Registers \/ Unregisters \/ (\E h \in Handle : Streams(h)) \/ UNCHANGED vars
  PROVE  BridgeInv'
  <1>1. Types
    BY Typed DEF BridgeInv
  <1>2. CASE Registers \/ Unregisters \/ UNCHANGED vars
    <2>1. UNCHANGED <<clients, mem, thread, stream, opens>>
      BY <1>2 DEF Registers, Unregisters, vars
    <2>2. registered' \in BOOLEAN
      BY <1>1, <1>2, Zenon DEF Types, Registers, Unregisters, vars
    <2>3. Types'
      BY <1>1, <2>1, <2>2 DEF Types
    <2>4. QED
      BY <2>1, <2>3, KeepsThreads
  <1>3. ASSUME NEW h \in Handle, Streams(h) PROVE BridgeInv'
    <2>1. UNCHANGED <<registered, clients, mem, thread, opens>>
      BY <1>3 DEF Streams, StreamSends, StreamSent, StreamEnds
    <2>2. /\ stream' \in [Handle -> StreamRec]
          /\ \A g \in Handle : stream'[g].on => stream[g].on
      <3>1. stream \in [Handle -> StreamRec]
        BY <1>1 DEF Types
      <3>2. CASE StreamSends(h)
        BY <3>1, <3>2 DEF StreamSends, StreamRec
      <3>3. CASE StreamSent(h)
        BY <3>1, <3>3 DEF StreamSent, StreamRec
      <3>4. CASE StreamEnds(h)
        BY <3>1, <3>4 DEF StreamEnds, StreamRec, NoStream
      <3>5. QED
        BY <1>3, <3>2, <3>3, <3>4 DEF Streams
    <2>3. registered' \in BOOLEAN
      BY <1>1, <2>1, Zenon DEF Types
    <2>4. Types'
      BY <1>1, <2>1, <2>2, <2>3 DEF Types
    <2>5. QED
      BY <2>1, <2>2, <2>4, KeepsThreads
  <1>4. QED
    BY <1>2, <1>3

(* events.onopen has returned. *)
LEMMA CallsOnopenInv ==
  ASSUME BridgeInv, NEW c \in Conn, CallsOnopen(c)
  PROVE  BridgeInv'
  <1>1. Types /\ ThreadOK(c)
    BY Typed, ThreadParts DEF BridgeInv
  <1>2. /\ thread[c].pc = "onopen" /\ UNCHANGED <<registered, clients, mem, stream, opens>>
        /\ Moves(c, "ready", NoHandle) /\ thread'[c].id = thread[c].id
    BY <1>1, MovesOK DEF CallsOnopen, At, Types, Place
  <1>3. Types'
    <2>1. registered' \in BOOLEAN
      BY <1>1, <1>2, Zenon DEF Types
    <2>2. QED
      BY <1>1, <1>2, <2>1 DEF Types, Moves
  <1>4. ThreadOK(c)'
    BY <1>2 DEF ThreadOK, Moves, Works, Linked
  <1>5. ASSUME NEW h \in Handle, mem[h].live, mem[h].conn = c PROVE HandleOK(h)'
    BY <1>2, <1>5 DEF BridgeInv, HandleOK, Moves, Belongs, Listed
  <1>6. QED
    BY <1>2, <1>3, <1>4, <1>5, KeepsList DEF Moves

(* on_message and on_close look for the handle, and leave without one. *)
LEMMA LooksUpInv ==
  ASSUME BridgeInv, NEW c \in Conn, NEW p \in {"onmessage", "onclose"}, LooksUp(c, p)
  PROVE  BridgeInv'
  <1> DEFINE q == IF Found(c) # NoHandle THEN p ELSE IF p = "onclose" THEN "none" ELSE "ready"
  <1>1. Types /\ ThreadOK(c)
    BY Typed, ThreadParts DEF BridgeInv
  <1>2. PICK f \in Handle \cup {NoHandle} : f = Found(c)
    BY FoundOK
  <1>3. PICK r \in Place : r = IF f # NoHandle THEN p ELSE IF p = "onclose" THEN "none" ELSE "ready"
    BY DEF Place
  <1>4. thread[c].pc = "ready" /\ UNCHANGED <<registered, clients, mem, stream, opens>>
    BY DEF LooksUp, At
  <1>5. Moves(c, r, f) /\ thread'[c].id = thread[c].id
    <2>1. thread' = [thread EXCEPT ![c].handle = f, ![c].pc = r]
      BY <1>2, <1>3 DEF LooksUp
    <2>2. thread' \in [Conn -> ThreadRec]
      BY <1>1, <2>1 DEF Types, ThreadRec
    <2>3. thread'[c].pc = r /\ thread'[c].handle = f /\ thread'[c].id = thread[c].id
      BY <1>1, <2>1 DEF Types, ThreadRec
    <2>4. \A d \in Conn \ {c} : thread'[d] = thread[d]
      BY <1>1, <2>1 DEF Types
    <2>5. QED
      BY <2>2, <2>3, <2>4 DEF Moves
  <1>6. Types'
    <2>1. registered' \in BOOLEAN
      BY <1>1, <1>4, Zenon DEF Types
    <2>2. QED
      BY <1>1, <1>4, <1>5, <2>1 DEF Types, Moves
  <1>7. \A h \in Handle : mem[h].live /\ mem[h].conn = c => Belongs(h, c) /\ Listed(h)
    BY <1>4 DEF BridgeInv, HandleOK
  <1>8. \/ f = NoHandle /\ \A h \in Handle : ~(mem[h].live /\ mem[h].conn = c)
        \/ f \in Handle /\ Listed(f) /\ Belongs(f, c)
    <2>1. \A h \in Handle : Listed(h) => mem[h].live
      BY DEF BridgeInv, HandleOK
    <2>2. QED
      BY <1>2, <1>7, <2>1, FoundOK
  <1>9. ThreadOK(c)'
    BY <1>3, <1>4, <1>5, <1>8, BridgeAssumption DEF ThreadOK, Moves, Belongs, Listed, Works, Linked
  <1>10. ASSUME NEW h \in Handle, mem[h].live, mem[h].conn = c PROVE HandleOK(h)'
    <2>1. f # NoHandle /\ r = p
      BY <1>3, <1>8, <1>10, BridgeAssumption
    <2>2. QED
      BY <1>4, <1>5, <1>7, <1>10, <2>1 DEF HandleOK, Moves, Belongs, Listed
  <1>11. QED
    BY <1>4, <1>5, <1>6, <1>9, <1>10, KeepsList DEF Moves, BridgeInv

(* A stream is asked to stop. *)
LEMMA AsksToStopOK ==
  ASSUME stream \in [Handle -> StreamRec], NEW h \in Handle
  PROVE  /\ AsksToStop(h) \in [Handle -> StreamRec]
         /\ \A g \in Handle : AsksToStop(h)[g].on <=> stream[g].on
  <1>1. [stream[h] EXCEPT !.stop = stream[h].on] \in StreamRec
    BY DEF StreamRec
  <1>2. QED
    BY <1>1 DEF AsksToStop, StreamRec

(* events.onmessage starts a stream, or stops it. *)
LEMMA CallsOnmessageInv ==
  ASSUME BridgeInv, NEW c \in Conn, CallsOnmessage(c)
  PROVE  BridgeInv'
  <1>1. Types /\ ThreadOK(c) /\ thread[c].pc = "onmessage" /\ UNCHANGED <<registered, clients, mem, opens>>
    BY Typed, ThreadParts DEF BridgeInv, CallsOnmessage, At
  <1>2. PICK h \in Handle : h = thread[c].handle /\ Belongs(h, c) /\ Listed(h)
    BY <1>1, ThreadParts DEF ThreadOK, Works, Linked
  <1>3. \/ Moves(c, "ready", NoHandle) /\ thread'[c].id = thread[c].id
        \/ thread' = thread
    BY <1>1, MovesOK DEF CallsOnmessage, Types, Place
  <1>4. /\ stream' \in [Handle -> StreamRec]
        /\ \A g \in Handle : stream'[g].on => stream[g].on \/ g = h
    <2>1. stream \in [Handle -> StreamRec]
      BY <1>1 DEF Types
    <2>2. CASE stream' = [stream EXCEPT ![h].on = TRUE]
      BY <2>1, <2>2 DEF StreamRec
    <2>3. CASE stream' = AsksToStop(h)
      BY <2>1, <2>3, AsksToStopOK
    <2>4. CASE stream' = stream
      BY <2>1, <2>4
    <2>5. QED
      BY <1>2, <2>2, <2>3, <2>4 DEF CallsOnmessage
  <1>5. Types'
    <2>1. registered' \in BOOLEAN
      BY <1>1, Zenon DEF Types
    <2>2. QED
      BY <1>1, <1>3, <1>4, <2>1 DEF Types, Moves
  <1>6. ThreadOK(c)'
    BY <1>1, <1>3 DEF ThreadOK, Moves, Belongs, Listed, Works, Linked
  <1>7. ASSUME NEW g \in Handle, mem[g].live, mem[g].conn = c PROVE HandleOK(g)'
    <2>1. HandleOK(g) /\ thread'[c].pc \in {"ready", "onmessage"}
      BY <1>1, <1>3 DEF BridgeInv, Moves
    <2>2. thread'[c].id = thread[c].id
      BY <1>3
    <2>3. QED
      BY <1>1, <1>7, <2>1, <2>2 DEF HandleOK, Belongs, Listed
  <1>8. QED
    BY <1>1, <1>2, <1>3, <1>4, <1>5, <1>6, <1>7, KeepsList DEF Moves, Belongs

(* events.onclose stops what streams, and waits for it. *)
LEMMA CallsOncloseInv ==
  ASSUME BridgeInv, NEW c \in Conn, CallsOnclose(c)
  PROVE  BridgeInv'
  <1>1. Types /\ ThreadOK(c) /\ thread[c].pc = "onclose" /\ UNCHANGED <<registered, clients, opens>>
    BY Typed, ThreadParts DEF BridgeInv, CallsOnclose, At
  <1>2. PICK h \in Handle : h = thread[c].handle /\ Belongs(h, c) /\ Listed(h)
    BY <1>1, ThreadParts DEF ThreadOK, Works, Linked
  <1>3. PICK r \in Place : r = IF stream[h].on THEN "onclose" ELSE "unregister"
    BY DEF Place
  <1>4. Moves(c, r, h) /\ thread'[c].id = thread[c].id
    BY <1>1, <1>2, <1>3, GotoOK DEF CallsOnclose, Types
  <1>5. /\ stream' \in [Handle -> StreamRec]
        /\ \A g \in Handle : stream'[g].on <=> stream[g].on
    BY <1>1, <1>2, AsksToStopOK DEF CallsOnclose, Types
  <1>6. /\ mem' \in [Handle -> HandleRec]
        /\ \A g \in Handle : /\ mem'[g].live <=> mem[g].live
                             /\ mem'[g].conn = mem[g].conn /\ mem'[g].id = mem[g].id
    <2>1. mem' = [mem EXCEPT ![h].state = "closed"] /\ mem \in [Handle -> HandleRec]
      BY <1>1, <1>2 DEF CallsOnclose, Types
    <2>2. QED
      BY <2>1 DEF HandleRec
  <1>7. Types'
    <2>1. registered' \in BOOLEAN
      BY <1>1, Zenon DEF Types
    <2>2. QED
      BY <1>1, <1>4, <1>5, <1>6, <2>1 DEF Types, Moves
  <1>8. ThreadOK(c)'
    BY <1>1, <1>2, <1>3, <1>4, <1>6, BridgeAssumption DEF ThreadOK, Moves, Belongs, Listed, Works, Linked
  <1>9. ASSUME NEW g \in Handle, mem[g].live, mem[g].conn = c PROVE HandleOK(g)'
    <2>1. HandleOK(g) /\ g = h
      BY <1>2, <1>9 DEF BridgeInv, OneHandle, Belongs
    <2>2. QED
      BY <1>1, <1>2, <1>3, <1>4, <1>5, <1>6, <1>9, <2>1 DEF HandleOK, Moves, Belongs, Listed
  <1>10. QED
    BY <1>1, <1>4, <1>5, <1>6, <1>7, <1>8, <1>9, KeepsList DEF Moves

-----------------------------------------------------------------------------
(* Steps that make, list, unlist and free a handle.                        *)

(* A step of c's callback that changes one handle of c, and the list only  *)
(* where this handle is.                                                   *)
LEMMA OneChanges ==
  ASSUME BridgeInv, Types', NEW c \in Conn, NEW h \in Handle, stream' = stream,
         mem[h].live => mem[h].conn = c,
         mem'[h].live => mem'[h].conn = c,
         \A g \in Handle \ {h} : mem'[g] = mem[g] /\ (Listed(g)' <=> Listed(g)),
         \A d \in Conn \ {c} : thread'[d] = thread[d],
         IsInjective(clients'),
         ThreadOK(c)', HandleOK(h)',
         \A g \in Handle \ {h} : mem[g].live => mem[g].conn # c
  PROVE  BridgeInv'
  <1>1. TypeOK' /\ Types
    BY Typed DEF BridgeInv
  <1>2. OneHandle'
    BY DEF BridgeInv, OneHandle
  <1>3. ASSUME NEW d \in Conn \ {c} PROVE ThreadOK(d)'
    <2>1. ThreadOK(d) /\ thread[d].handle \in Handle \cup {NoHandle} /\ thread'[d] = thread[d]
      BY <1>3, ThreadParts
    <2>2. CASE thread[d].pc \in Works
      <3>1. thread[d].handle \in Handle /\ Belongs(thread[d].handle, d)
        BY <2>1, <2>2 DEF ThreadOK
      <3>2. thread[d].handle \in Handle \ {h}
        BY <1>3, <3>1 DEF Belongs
      <3>3. QED
        BY <2>1, <3>1, <3>2 DEF ThreadOK, Belongs
    <2>3. CASE thread[d].pc \notin Works
      BY <2>1, <2>3 DEF ThreadOK, Works, Linked
    <2>4. QED
      BY <2>2, <2>3
  <1>4. ASSUME NEW g \in Handle \ {h} PROVE HandleOK(g)'
    <2>1. HandleOK(g) /\ mem[g].conn \in Conn /\ mem'[g] = mem[g] /\ (Listed(g)' <=> Listed(g))
      BY <1>1, <1>4 DEF BridgeInv, Types, HandleRec
    <2>2. CASE mem[g].live
      <3>1. thread'[mem[g].conn] = thread[mem[g].conn]
        BY <1>4, <2>1, <2>2
      <3>2. QED
        BY <2>1, <2>2, <3>1 DEF HandleOK, Belongs
    <2>3. CASE ~mem[g].live
      BY <2>1, <2>3 DEF HandleOK
    <2>4. QED
      BY <2>2, <2>3
  <1>5. QED
    BY <1>1, <1>2, <1>3, <1>4 DEF BridgeInv

(* The handle of a callback is the only one of its connection. *)
LEMMA OwnHandle ==
  ASSUME BridgeInv, NEW c \in Conn, thread[c].pc \in Works
  PROVE  /\ thread[c].handle \in Handle /\ Belongs(thread[c].handle, c)
         /\ \A g \in Handle \ {thread[c].handle} : mem[g].live => mem[g].conn # c
  <1>1. thread[c].handle \in Handle /\ Belongs(thread[c].handle, c)
    BY ThreadParts DEF ThreadOK
  <1>2. QED
    BY <1>1 DEF BridgeInv, OneHandle, Belongs

LEMMA AllocatesInv ==
  ASSUME BridgeInv, NEW c \in Conn, Allocates(c)
  PROVE  BridgeInv'
  <1>1. Types /\ ThreadOK(c) /\ thread[c].pc = "alloc" /\ UNCHANGED <<registered, clients, stream, opens>>
    BY Typed, ThreadParts DEF BridgeInv, Allocates, At
  <1>2. registered' \in BOOLEAN
    BY <1>1, Zenon DEF Types
  <1>3. \A g \in Handle : mem[g].live => mem[g].conn # c
    BY <1>1 DEF BridgeInv, HandleOK
  <1>4. thread[c].handle = NoHandle
    BY <1>1 DEF ThreadOK, Works
  <1>5. CASE Goto(c, "ready") /\ UNCHANGED mem
    <2>1. Moves(c, "ready", NoHandle) /\ thread'[c].id = thread[c].id
      BY <1>1, <1>4, <1>5, GotoOK DEF Types, Place
    <2>2. Types'
      BY <1>1, <1>2, <1>5, <2>1 DEF Types, Moves
    <2>3. ThreadOK(c)'
      BY <2>1 DEF ThreadOK, Moves, Works, Linked
    <2>4. QED
      BY <1>1, <1>3, <1>5, <2>1, <2>2, <2>3, KeepsList DEF Moves
  <1>6. ASSUME NEW h \in Handle, ~mem[h].live,
               mem' = [mem EXCEPT ![h] = [live |-> TRUE, conn |-> c, state |-> "open", id |-> thread[c].id]],
               thread' = [thread EXCEPT ![c].pc = "register", ![c].handle = h]
        PROVE  BridgeInv'
    <2>1. Moves(c, "register", h) /\ thread'[c].id = thread[c].id /\ thread[c].id \in 0 .. MaxOpens
      <3>1. Moves(c, "register", h) /\ thread'[c].id = thread[c].id
        BY <1>1, <1>6, MovesOK DEF Types, Place
      <3>2. QED
        BY <1>1, <3>1 DEF Types, ThreadRec
    <2>2. mem' \in [Handle -> HandleRec]
      <3>1. mem \in [Handle -> HandleRec]
        BY <1>1 DEF Types
      <3>2. [live |-> TRUE, conn |-> c, state |-> "open", id |-> thread[c].id] \in HandleRec
        BY <2>1 DEF HandleRec
      <3>3. QED
        BY <1>6, <3>1, <3>2
    <2>3. /\ mem'[h].live /\ mem'[h].conn = c /\ mem'[h].id = thread[c].id
          /\ \A g \in Handle \ {h} : mem'[g] = mem[g]
      BY <1>1, <1>6 DEF Types
    <2>4. Types'
      BY <1>1, <1>2, <2>1, <2>2 DEF Types, Moves
    <2>5. ~Listed(h) /\ ~stream[h].on
      BY <1>6 DEF BridgeInv, HandleOK
    <2>6. ThreadOK(c)'
      BY <1>1, <2>1, <2>3, <2>5, BridgeAssumption DEF ThreadOK, Moves, Belongs, Listed, Works, Linked
    <2>7. HandleOK(h)'
      BY <1>1, <2>1, <2>3, <2>5 DEF HandleOK, Moves, Belongs, Listed
    <2>8. IsInjective(clients') /\ \A g \in Handle \ {h} : Listed(g)' <=> Listed(g)
      BY <1>1 DEF BridgeInv, Listed
    <2>9. QED
      BY <1>1, <1>3, <1>6, <2>1, <2>3, <2>4, <2>6, <2>7, <2>8, OneChanges DEF Moves
  <1>7. QED
    BY <1>5, <1>6 DEF Allocates

LEMMA RegistersClientInv ==
  ASSUME BridgeInv, NEW c \in Conn, RegistersClient(c)
  PROVE  BridgeInv'
  <1>1. /\ Types /\ ThreadOK(c) /\ thread[c].pc = "register"
        /\ UNCHANGED <<registered, mem, stream, opens>>
    BY Typed, ThreadParts DEF BridgeInv, RegistersClient, At
  <1>2. PICK h \in Handle : h = thread[c].handle
    BY <1>1, OwnHandle DEF Works
  <1>3. Belongs(h, c) /\ ~Listed(h) /\ \A g \in Handle \ {h} : mem[g].live => mem[g].conn # c
    BY <1>1, <1>2, OwnHandle DEF ThreadOK, Works
  <1>4. Moves(c, "onopen", h) /\ thread'[c].id = thread[c].id
    BY <1>1, <1>2, GotoOK DEF RegistersClient, Types, Place
  <1>5. /\ clients' \in Seq(Handle) /\ IsInjective(clients')
        /\ \A g : Listed(g)' <=> Listed(g) \/ g = h
    BY <1>1, <1>2, <1>3, Prepended DEF RegistersClient, BridgeInv, Types
  <1>6. Types'
    <2>1. registered' \in BOOLEAN
      BY <1>1, Zenon DEF Types
    <2>2. QED
      BY <1>1, <1>4, <1>5, <2>1 DEF Types, Moves
  <1>7. ThreadOK(c)'
    BY <1>1, <1>3, <1>4, <1>5, BridgeAssumption DEF ThreadOK, Moves, Belongs, Works, Linked
  <1>8. HandleOK(h)'
    <2>1. HandleOK(h)
      BY DEF BridgeInv
    <2>2. ~stream[h].on
      BY <1>1, <1>3, <2>1 DEF HandleOK, Belongs
    <2>3. QED
      BY <1>1, <1>3, <1>4, <1>5, <2>2 DEF HandleOK, Moves, Belongs
  <1>9. QED
    BY <1>1, <1>3, <1>4, <1>5, <1>6, <1>7, <1>8, OneChanges DEF Moves, Belongs

LEMMA UnregistersClientInv ==
  ASSUME BridgeInv, NEW c \in Conn, UnregistersClient(c)
  PROVE  BridgeInv'
  <1>1. /\ Types /\ ThreadOK(c) /\ thread[c].pc = "unregister"
        /\ UNCHANGED <<registered, mem, stream, opens>>
    BY Typed, ThreadParts DEF BridgeInv, UnregistersClient, At
  <1>2. PICK h \in Handle : h = thread[c].handle
    BY <1>1, OwnHandle DEF Works
  <1>3. Belongs(h, c) /\ Listed(h) /\ \A g \in Handle \ {h} : mem[g].live => mem[g].conn # c
    BY <1>1, <1>2, OwnHandle DEF ThreadOK, Works, Linked
  <1>4. Moves(c, "free", h) /\ thread'[c].id = thread[c].id
    BY <1>1, <1>2, GotoOK DEF UnregistersClient, Types, Place
  <1>5. /\ clients' \in Seq(Handle) /\ IsInjective(clients')
        /\ \A g : Listed(g)' <=> Listed(g) /\ g # h
    BY <1>1, <1>2, <1>3, Removed DEF UnregistersClient, BridgeInv, Types
  <1>6. Types'
    <2>1. registered' \in BOOLEAN
      BY <1>1, Zenon DEF Types
    <2>2. QED
      BY <1>1, <1>4, <1>5, <2>1 DEF Types, Moves
  <1>7. ThreadOK(c)'
    BY <1>1, <1>3, <1>4, <1>5, BridgeAssumption DEF ThreadOK, Moves, Belongs, Works, Linked
  <1>8. HandleOK(h)'
    <2>1. HandleOK(h)
      BY DEF BridgeInv
    <2>2. ~stream[h].on
      BY <1>1, <1>3, <2>1 DEF HandleOK, Belongs
    <2>3. QED
      BY <1>1, <1>3, <1>4, <1>5, <2>2 DEF HandleOK, Moves, Belongs
  <1>9. QED
    BY <1>1, <1>3, <1>4, <1>5, <1>6, <1>7, <1>8, OneChanges DEF Moves, Belongs

LEMMA FreesInv ==
  ASSUME BridgeInv, NEW c \in Conn, Frees(c)
  PROVE  BridgeInv'
  <1>1. /\ Types /\ ThreadOK(c) /\ thread[c].pc = "free"
        /\ UNCHANGED <<registered, clients, stream, opens>>
    BY Typed, ThreadParts DEF BridgeInv, Frees, At
  <1>2. PICK h \in Handle : h = thread[c].handle
    BY <1>1, OwnHandle DEF Works
  <1>3. Belongs(h, c) /\ ~Listed(h) /\ \A g \in Handle \ {h} : mem[g].live => mem[g].conn # c
    BY <1>1, <1>2, OwnHandle DEF ThreadOK, Works
  <1>4. Moves(c, "none", NoHandle)
    BY <1>1, MovesOK DEF Frees, Types, Place
  <1>5. /\ mem' \in [Handle -> HandleRec] /\ ~mem'[h].live
        /\ \A g \in Handle \ {h} : mem'[g] = mem[g]
    <2>1. mem' = [mem EXCEPT ![h].live = FALSE] /\ mem \in [Handle -> HandleRec]
      BY <1>1, <1>2 DEF Frees, Types
    <2>2. QED
      BY <2>1 DEF HandleRec
  <1>6. Types'
    <2>1. registered' \in BOOLEAN
      BY <1>1, Zenon DEF Types
    <2>2. QED
      BY <1>1, <1>4, <1>5, <2>1 DEF Types, Moves
  <1>7. ThreadOK(c)'
    BY <1>4 DEF ThreadOK, Moves, Works, Linked
  <1>8. HandleOK(h)'
    <2>1. ~stream[h].on
      BY <1>1, <1>3 DEF BridgeInv, HandleOK, Belongs
    <2>2. QED
      BY <1>1, <1>3, <1>5, <2>1 DEF HandleOK, Listed
  <1>9. IsInjective(clients') /\ \A g \in Handle \ {h} : Listed(g)' <=> Listed(g)
    BY <1>1 DEF BridgeInv, Listed
  <1>10. QED
    BY <1>1, <1>3, <1>4, <1>5, <1>6, <1>7, <1>8, <1>9, OneChanges DEF Moves, Belongs

-----------------------------------------------------------------------------
(* No connection yet. *)
LEMMA InitInv == Init => BridgeInv
  <1>1. SUFFICES ASSUME Init PROVE BridgeInv
    OBVIOUS
  <1>2. Types
    <2>1. registered \in BOOLEAN
      BY <1>1, Zenon DEF Init
    <2>2. clients \in Seq(Handle) /\ opens \in 0 .. MaxOpens
      BY <1>1, BridgeAssumption DEF Init
    <2>3. thread \in [Conn -> ThreadRec] /\ stream \in [Handle -> StreamRec]
      BY <1>1, BridgeAssumption DEF Init, ThreadRec, StreamRec, NoStream, Place
    <2>4. mem \in [Handle -> HandleRec]
      <3>1. ASSUME NEW c \in Conn
            PROVE  [live |-> FALSE, conn |-> c, state |-> "closed", id |-> 0] \in HandleRec
        BY BridgeAssumption DEF HandleRec
      <3>2. {[live |-> FALSE, conn |-> c, state |-> "closed", id |-> 0] : c \in Conn} \subseteq HandleRec
        BY <3>1
      <3>3. QED
        BY <1>1, <3>2 DEF Init
    <2>5. QED
      BY <2>1, <2>2, <2>3, <2>4 DEF Types
  <1>3. clients = <<>> /\ \A h : ~Listed(h)
    BY <1>1 DEF Init, Listed
  <1>4. \A h \in Handle : ~mem[h].live /\ ~stream[h].on
    BY <1>1 DEF Init, NoStream
  <1>5. IsInjective(clients) /\ OneHandle
    BY <1>3, <1>4 DEF IsInjective, OneHandle
  <1>6. \A c \in Conn : ThreadOK(c)
    BY <1>1 DEF Init, ThreadOK, Works, Linked
  <1>7. \A h \in Handle : HandleOK(h)
    BY <1>3, <1>4 DEF HandleOK
  <1>8. QED
    BY <1>2, <1>5, <1>6, <1>7, Typed DEF BridgeInv

(* BridgeInv holds in every state of the bridge. *)
THEOREM BridgeInvariant == Spec => []BridgeInv
  <1>1. ASSUME BridgeInv, [Next]_vars PROVE BridgeInv'
    <2>1. ASSUME NEW c \in Conn, Callback(c) PROVE BridgeInv'
      BY <1>1, <2>1, OpensInv, AllocatesInv, RegistersClientInv, CallsOnopenInv, LooksUpInv,
         CallsOnmessageInv, CallsOncloseInv, UnregistersClientInv, FreesInv
      DEF Callback, Message, Close
    <2>2. QED
      BY <1>1, <2>1, OthersInv DEF Next
  <1>2. QED
    BY InitInv, <1>1, PTL DEF Spec

(* What a callback or a streaming thread uses after it has released        *)
(* g_wsfs_bridge_lock is alive and its own connection's, and the list has  *)
(* every living handle once, however many connections come at how many     *)
(* addresses (wsfs_bridge_client_for_conn, wsfs_bridge_on_close).          *)
THEOREM BridgeSoundAlways == Spec => []BridgeSound
  <1>1. ASSUME BridgeInv PROVE BridgeSound
    <2>1. \A h : Listed(h) <=> h \in ToSet(clients)
      BY DEF Listed, ToSet
    <2>2. RightHandle
      BY <1>1 DEF BridgeInv, ThreadOK, RightHandle
    <2>3. SendsOnOpen
      BY <1>1 DEF BridgeInv, HandleOK, SendsOnOpen, At
    <2>4. ListSound
      BY <1>1, <2>1 DEF BridgeInv, HandleOK, ListSound, At
    <2>5. QED
      BY <1>1, <2>2, <2>3, <2>4 DEF BridgeInv, BridgeSound
  <1>2. QED
    BY BridgeInvariant, <1>1, PTL

-----------------------------------------------------------------------------
(* The server's types, each a set of its own.                              *)
SlotRec == {s \in [sock : 0 .. MaxConns, timer : 0 .. MaxConns,
                   state : {"CONNECTING", "OPEN", "CLOSING", "CLOSED"},
                   ping : Nat, pong : Nat] : s.pong <= s.ping}

SessionPlace == {"none", "request", "onopen", "read", "answer", "onclose",
                 "closed", "join", "check", "release", "ended"}

SessionRec == [pc : SessionPlace, slot : Server!Slot, events : (0 .. 1) \X (0 .. 1)]

TimerPlace == {"none", "waits", "closes", "release", "ended"}

AppRec == [pc : {"idle", "sendclose", "starttimer", "look", "ping", "pingclose", "pingrelease"},
           slot : Server!Slot, single : BOOLEAN]

NetRec == [up : BOOLEAN, shut : BOOLEAN, asked : BOOLEAN, closes : Nat]

ServerTypes ==
  /\ slot \in [Server!Slot -> SlotRec] /\ session \in [Server!Conns -> SessionRec]
  /\ timer \in [Server!Conns -> TimerPlace] /\ app \in [App -> AppRec]
  /\ mutex \in App \cup {Server!None} /\ pinging \in [Server!Slot -> App \cup {Server!None}]
  /\ net \in [Server!Conns -> NetRec]

LEMMA ServerTyped == Server!TypeOK <=> ServerTypes
  BY Zenon DEF Server!TypeOK, ServerTypes, SlotRec, SessionRec, SessionPlace, TimerPlace, AppRec, NetRec

(* Where a session is and which events it has had. *)
Waiting == {"none", "request"}
Opened  == {"onopen", "read", "answer", "onclose"}
Over    == {"closed", "join", "check", "release", "ended"}

Events ==
  \A c \in Server!Conns :
    LET e == session[c].events
    IN /\ session[c].pc \in Waiting => e[1] = 0 /\ e[2] = 0
       /\ session[c].pc \in Opened => e[1] = 1 /\ e[2] = 0
       /\ session[c].pc \in Over => e[1] = e[2]

(* What a step may do to a session: it stays, or it goes on. *)
LEMMA SlotsAre ==
  ASSUME Server!ServerAssumption
  PROVE  /\ 1 \in Server!Slot /\ 0 \in 0 .. MaxConns /\ MaxConns \in Nat
         /\ \A c \in Server!Conns : c \in 0 .. MaxConns /\ c # 0 /\ c \in Nat
         /\ \A c \in 0 .. MaxConns : c # Server!None => c \in Server!Conns
         /\ Server!None = 0
  BY DEF Server!ServerAssumption, Server!Slot, Server!Conns, Server!None

LEMMA FirstFree ==
  ASSUME Server!ServerAssumption, Server!Free # {} PROVE Server!Min(Server!Free) \in Server!Free
  <1>1. Server!Free \subseteq Nat
    BY DEF Server!Free, Server!Slot
  <1>2. PICK x \in Server!Free : \A y \in Server!Free : ~(<<y, x>> \in OpToRel(<, Nat))
    BY <1>1, NatLessThanWellFounded, WFMin
  <1>3. ASSUME NEW y \in Server!Free, y < x PROVE FALSE
    BY <1>1, <1>2, <1>3 DEF OpToRel
  <1>4. \A y \in Server!Free : x <= y
    BY <1>1, <1>3
  <1>5. QED
    BY <1>4 DEF Server!Min

-----------------------------------------------------------------------------
(* Closing and releasing a slot keep the types, and touch nothing else.    *)
LEMMA ClosesTyped ==
  ASSUME Server!ServerAssumption, ServerTypes, NEW s \in Server!Slot, Server!ClosesSocket(s)
  PROVE  /\ slot' \in [Server!Slot -> SlotRec] /\ net' \in [Server!Conns -> NetRec]
         /\ \A r \in Server!Slot : /\ slot'[r].sock = slot[r].sock /\ slot'[r].timer = slot[r].timer
                                   /\ slot'[r].state = (IF r = s THEN "CLOSED" ELSE slot[r].state)
         /\ \A c \in Server!Conns : net'[c].shut <=> net[c].shut \/ slot[s].sock = c
  <1>1. slot' = [slot EXCEPT ![s].state = "CLOSED"]
        /\ net' = [c \in Server!Conns |-> [net[c] EXCEPT !.shut = @ \/ slot[s].sock = c]]
    BY DEF Server!ClosesSocket
  <1>2. slot \in [Server!Slot -> SlotRec] /\ net \in [Server!Conns -> NetRec]
    BY DEF ServerTypes
  <1>3. slot' \in [Server!Slot -> SlotRec]
        /\ \A r \in Server!Slot : /\ slot'[r].sock = slot[r].sock /\ slot'[r].timer = slot[r].timer
                                  /\ slot'[r].state = (IF r = s THEN "CLOSED" ELSE slot[r].state)
    BY <1>1, <1>2 DEF SlotRec
  <1>4. ASSUME NEW c \in Server!Conns
        PROVE  net'[c] \in NetRec /\ (net'[c].shut <=> net[c].shut \/ slot[s].sock = c)
    <2>1. net'[c] = [net[c] EXCEPT !.shut = net[c].shut \/ slot[s].sock = c]
      BY <1>1
    <2>2. net[c] \in NetRec
      BY <1>2
    <2>3. (net[c].shut \/ slot[s].sock = c) \in BOOLEAN
      OBVIOUS
    <2>4. QED
      BY Zenon, <2>1, <2>2, <2>3 DEF NetRec
  <1>5. net' \in [Server!Conns -> NetRec]
    BY <1>1, <1>4
  <1>6. QED
    BY <1>3, <1>4, <1>5

LEMMA ReleasesTyped ==
  ASSUME Server!ServerAssumption, ServerTypes, NEW s \in Server!Slot, Server!Releases(s)
  PROVE  /\ slot' \in [Server!Slot -> SlotRec] /\ net' = net
         /\ \A r \in Server!Slot : /\ slot'[r].sock = (IF r = s THEN Server!None ELSE slot[r].sock)
                                   /\ slot'[r].timer = slot[r].timer /\ slot'[r].state = slot[r].state
  BY SlotsAre DEF Server!Releases, ServerTypes, SlotRec

(* A session goes to another place. *)
LEMMA Goes ==
  ASSUME ServerTypes, NEW c \in Server!Conns, NEW p \in SessionPlace, Server!Goto(c, p)
  PROVE  /\ session' \in [Server!Conns -> SessionRec]
         /\ session'[c].pc = p /\ session'[c].slot = session[c].slot /\ session'[c].events = session[c].events
         /\ \A d \in Server!Conns : d # c => session'[d] = session[d]
  BY DEF Server!Goto, ServerTypes, SessionRec

(* on_open or on_close is called, and counted. *)
LEMMA CallsBack ==
  ASSUME ServerTypes, NEW c \in Server!Conns, Server!Handshakes(c) \/ Server!CallsOnclose(c)
  PROVE  /\ session'[c].pc \in {"onopen", "closed"} /\ session'[c].slot = session[c].slot
         /\ \A d \in Server!Conns : d # c => session'[d] = session[d]
  <1>1. session \in [Server!Conns -> SessionRec]
    BY DEF ServerTypes
  <1>2. CASE session' = [session EXCEPT ![c].pc = "onopen", ![c].events[1] = @ + 1]
    <2> DEFINE e == [session[c].events EXCEPT ![1] = session[c].events[1] + 1]
    <2>1. session' = [session EXCEPT ![c] = [session[c] EXCEPT !.pc = "onopen", !.events = e]]
      BY Zenon, <1>1, <1>2
    <2> HIDE DEF e
    <2>2. QED
      BY <1>1, <2>1 DEF SessionRec
  <1>3. CASE session' = [session EXCEPT ![c].pc = "closed", ![c].events[2] = @ + 1]
    <2> DEFINE e == [session[c].events EXCEPT ![2] = session[c].events[2] + 1]
    <2>1. session' = [session EXCEPT ![c] = [session[c] EXCEPT !.pc = "closed", !.events = e]]
      BY Zenon, <1>1, <1>3
    <2> HIDE DEF e
    <2>2. QED
      BY <1>1, <2>1 DEF SessionRec
  <1>4. CASE Server!Goto(c, "closed")
    BY <1>4, Goes DEF SessionPlace
  <1>5. QED
    BY <1>2, <1>3, <1>4 DEF Server!Handshakes, Server!CallsOnclose

(* A thread of the application goes on, or is done. *)
LEMMA AppGoes ==
  ASSUME Server!ServerAssumption, ServerTypes, NEW a \in App
  PROVE  /\ \A p \in {"starttimer", "ping", "pingclose", "pingrelease"} :
              Server!Step(a, p) => app' \in [App -> AppRec]
         /\ Server!Done(a) => app' \in [App -> AppRec]
         /\ \A q \in {"sendclose", "ping", "look"}, s \in Server!Slot, b \in BOOLEAN :
              app' = [app EXCEPT ![a] = [pc |-> q, slot |-> s, single |-> b]] => app' \in [App -> AppRec]
  <1>1. Server!Idle \in AppRec
    BY SlotsAre DEF Server!Idle, AppRec
  <1>2. app \in [App -> AppRec]
    BY DEF ServerTypes
  <1>3. \A p \in {"starttimer", "ping", "pingclose", "pingrelease"} : Server!Step(a, p) => app' \in [App -> AppRec]
    BY <1>2 DEF Server!Step, AppRec
  <1>4. Server!Done(a) => app' \in [App -> AppRec]
    BY <1>1, <1>2 DEF Server!Done
  <1>5. \A q \in {"sendclose", "ping", "look"}, s \in Server!Slot, b \in BOOLEAN :
          app' = [app EXCEPT ![a] = [pc |-> q, slot |-> s, single |-> b]] => app' \in [App -> AppRec]
    BY <1>2 DEF AppRec
  <1>6. QED
    BY <1>3, <1>4, <1>5

LEMMA GoesOnwards ==
  ASSUME Server!ServerAssumption, ServerTypes, NEW a \in App, Server!Onwards(a)
  PROVE  app' \in [App -> AppRec] /\ mutex' \in App \cup {Server!None}
  <1>1. CASE app[a].single \/ app[a].slot = MaxClients
    <2>1. Server!Done(a) /\ mutex' = (IF app[a].single THEN mutex ELSE Server!None)
      BY <1>1 DEF Server!Onwards
    <2>2. QED
      BY <2>1, AppGoes DEF ServerTypes
  <1>2. CASE ~(app[a].single \/ app[a].slot = MaxClients)
    <2>1. app' = [app EXCEPT ![a].pc = "look", ![a].slot = @ + 1] /\ mutex' = mutex
      BY <1>2 DEF Server!Onwards
    <2>2. app[a].slot + 1 \in Server!Slot
      BY <1>2 DEF ServerTypes, AppRec, Server!Slot, Server!ServerAssumption
    <2>3. QED
      BY <2>1, <2>2 DEF ServerTypes, AppRec
  <1>3. QED
    BY <1>1, <1>2

(* A CLOSE frame is counted. *)
LEMMA Counts ==
  ASSUME ServerTypes, NEW c \in Server!Conns, net' = Server!CountClose(c)
  PROVE  /\ net' \in [Server!Conns -> NetRec]
         /\ \A d \in Server!Conns : net'[d].shut = net[d].shut
  BY DEF Server!CountClose, ServerTypes, NetRec

-----------------------------------------------------------------------------
(* Every step keeps the types, and gives each on_open one on_close.        *)
TypedEvents == ServerTypes /\ Events

(* What is left of a session's step: where it goes. *)
LEMMA SessionEvents ==
  ASSUME TypedEvents, NEW c \in Server!Conns, session' \in [Server!Conns -> SessionRec],
         \A d \in Server!Conns : d # c => session'[d] = session[d],
         session'[c].events = session[c].events,
         \/ session[c].pc \in Waiting /\ session'[c].pc \in Waiting \cup Over
         \/ session[c].pc \in Opened /\ session'[c].pc \in Opened
         \/ session[c].pc \in Over /\ session'[c].pc \in Over
  PROVE  Events'
  <1>1. ASSUME NEW d \in Server!Conns
        PROVE  LET e == session'[d].events
               IN /\ session'[d].pc \in Waiting => e[1] = 0 /\ e[2] = 0
                  /\ session'[d].pc \in Opened => e[1] = 1 /\ e[2] = 0
                  /\ session'[d].pc \in Over => e[1] = e[2]
    <2>1. CASE d # c
      BY <2>1 DEF TypedEvents, Events
    <2>2. CASE d = c
      BY <2>2 DEF TypedEvents, Events, Waiting, Opened, Over
    <2>3. QED
      BY <2>1, <2>2
  <1>2. QED
    BY <1>1 DEF Events

LEMMA SessionTyped ==
  ASSUME Server!ServerAssumption, TypedEvents, NEW c \in Server!Conns,
         Server!Accepts(c) \/ Server!SessionRuns(c) \/ Server!Receives(c)
  PROVE  TypedEvents'
  <1> USE DEF TypedEvents, Server!At
  <1>0. /\ slot \in [Server!Slot -> SlotRec] /\ session \in [Server!Conns -> SessionRec]
        /\ timer \in [Server!Conns -> TimerPlace] /\ app \in [App -> AppRec]
        /\ mutex \in App \cup {Server!None} /\ pinging \in [Server!Slot -> App \cup {Server!None}]
        /\ net \in [Server!Conns -> NetRec] /\ session[c].slot \in Server!Slot
    BY DEF ServerTypes, SessionRec
  <1>1. CASE Server!Accepts(c)
    <2>1. session[c].pc = "none" /\ UNCHANGED <<timer, app, mutex, pinging>>
      BY <1>1 DEF Server!Accepts
    <2>2. CASE Server!Free # {}
      <3> DEFINE s == Server!Min(Server!Free)
      <3>1. /\ slot' = [slot EXCEPT ![s] = [sock |-> c, state |-> "CONNECTING", timer |-> Server!None,
                                           ping |-> 0, pong |-> 0]]
            /\ session' = [session EXCEPT ![c].pc = "request", ![c].slot = s] /\ UNCHANGED net
        BY <1>1, <2>2 DEF Server!Accepts
      <3>2. s \in Server!Slot
        BY <2>2, FirstFree DEF Server!Free
      <3> HIDE DEF s
      <3>3. slot' \in [Server!Slot -> SlotRec]
        <4>1. [sock |-> c, state |-> "CONNECTING", timer |-> Server!None, ping |-> 0, pong |-> 0] \in SlotRec
          BY SlotsAre DEF SlotRec
        <4>2. QED
          BY <1>0, <3>1, <4>1
      <3>4. session' \in [Server!Conns -> SessionRec] /\ session'[c].pc = "request" /\ session'[c].events = session[c].events
            /\ \A d \in Server!Conns : d # c => session'[d] = session[d]
        <4> DEFINE now == [session[c] EXCEPT !.pc = "request", !.slot = s]
        <4>1. session' = [session EXCEPT ![c] = now]
          BY Zenon, <1>0, <3>1
        <4>2. session[c] \in SessionRec
          BY <1>0
        <4>3. now \in SessionRec /\ now.pc = "request" /\ now.events = session[c].events
          BY <3>2, <4>2 DEF SessionRec, SessionPlace
        <4> HIDE DEF now
        <4>4. QED
          BY <1>0, <4>1, <4>3
      <3>5. Events'
        BY <2>1, <3>4, SessionEvents DEF Waiting
      <3>6. QED
        BY <1>0, <2>1, <3>1, <3>3, <3>4, <3>5 DEF ServerTypes
    <2>3. CASE Server!Free = {}
      <3>1. net' = [net EXCEPT ![c].shut = TRUE] /\ Server!Goto(c, "ended") /\ UNCHANGED slot
        BY <1>1, <2>3 DEF Server!Accepts
      <3>2. net' \in [Server!Conns -> NetRec]
        BY <1>0, <3>1 DEF NetRec
      <3>3. session' \in [Server!Conns -> SessionRec] /\ session'[c].pc = "ended" /\ session'[c].events = session[c].events
            /\ \A d \in Server!Conns : d # c => session'[d] = session[d]
        BY <3>1, Goes DEF SessionPlace
      <3>4. Events'
        BY <2>1, <3>3, SessionEvents DEF Waiting, Over
      <3>5. QED
        BY <1>0, <2>1, <3>1, <3>2, <3>3, <3>4 DEF ServerTypes
    <2>4. QED
      BY <2>2, <2>3
  <1>2. CASE Server!Handshakes(c)
    <2>1. session[c].pc = "request" /\ UNCHANGED <<slot, timer, app, mutex, pinging, net>>
      BY <1>2 DEF Server!Handshakes
    <2>2. CASE session' = [session EXCEPT ![c].pc = "onopen", ![c].events[1] = @ + 1]
      <3>1. session[c].events[1] = 0 /\ session[c].events[2] = 0 /\ session[c].events \in (0 .. 1) \X (0 .. 1)
        BY <1>0, <2>1 DEF Events, Waiting, SessionRec
      <3> DEFINE e == [session[c].events EXCEPT ![1] = session[c].events[1] + 1]
      <3>2. e \in (0 .. 1) \X (0 .. 1) /\ e[1] = 1 /\ e[2] = 0
        BY <3>1
      <3>3. session' = [session EXCEPT ![c] = [session[c] EXCEPT !.pc = "onopen", !.events = e]]
        BY Zenon, <1>0, <2>2
      <3> HIDE DEF e
      <3>4. session' \in [Server!Conns -> SessionRec] /\ session'[c].pc = "onopen" /\ session'[c].events = e
            /\ \A d \in Server!Conns : d # c => session'[d] = session[d]
        BY <1>0, <3>2, <3>3 DEF SessionRec, SessionPlace
      <3>5. Events'
        BY <3>2, <3>4 DEF Events, Waiting, Opened, Over
      <3>6. QED
        BY <1>0, <2>1, <3>4, <3>5 DEF ServerTypes
    <2>3. CASE Server!Goto(c, "closed")
      <3>1. session' \in [Server!Conns -> SessionRec] /\ session'[c].pc = "closed" /\ session'[c].events = session[c].events
            /\ \A d \in Server!Conns : d # c => session'[d] = session[d]
        BY <2>3, Goes DEF SessionPlace
      <3>2. Events'
        BY <2>1, <3>1, SessionEvents DEF Waiting, Over
      <3>3. QED
        BY <1>0, <2>1, <3>1, <3>2 DEF ServerTypes
    <2>4. QED
      BY <1>2, <2>2, <2>3 DEF Server!Handshakes
  <1>3. ASSUME NEW p \in SessionPlace, Server!Goto(c, p),
               \/ session[c].pc \in Opened /\ p \in Opened
               \/ session[c].pc \in Over /\ p \in Over
        PROVE  session' \in [Server!Conns -> SessionRec] /\ Events'
    <2>1. session' \in [Server!Conns -> SessionRec] /\ session'[c].pc = p /\ session'[c].events = session[c].events
          /\ \A d \in Server!Conns : d # c => session'[d] = session[d]
      BY <1>3, Goes
    <2>2. QED
      BY <1>3, <2>1, SessionEvents
  <1>4. CASE Server!SetsOpen(c)
    <2>1. slot' \in [Server!Slot -> SlotRec]
      BY <1>0, <1>4 DEF Server!SetsOpen, SlotRec
    <2>2. session' \in [Server!Conns -> SessionRec] /\ Events'
      BY <1>4, <1>3 DEF Server!SetsOpen, Opened, SessionPlace
    <2>3. QED
      BY <1>0, <1>4, <2>1, <2>2 DEF Server!SetsOpen, ServerTypes
  <1>5. CASE Server!BadFrame(c) \/ Server!GetsClose(c) \/ Server!ReadFails(c)
    <2>1. session[c].pc = "read" /\ UNCHANGED <<slot, timer, app, mutex, pinging, net>>
          /\ \E p \in {"onclose", "answer"} : Server!Goto(c, p)
      BY <1>5 DEF Server!BadFrame, Server!GetsClose, Server!ReadFails
    <2>2. session' \in [Server!Conns -> SessionRec] /\ Events'
      BY <2>1, <1>3 DEF Opened, SessionPlace
    <2>3. QED
      BY <1>0, <2>1, <2>2 DEF ServerTypes
  <1>6. CASE Server!GetsPong(c)
    <2>1. PICK n \in 1 .. slot[session[c].slot].ping : slot' = [slot EXCEPT ![session[c].slot].pong = n]
      BY <1>6 DEF Server!GetsPong, Server!Mine
    <2>2. slot[session[c].slot].ping \in Nat
      BY <1>0 DEF SlotRec
    <2>3. slot' \in [Server!Slot -> SlotRec]
      BY <1>0, <2>1, <2>2 DEF SlotRec
    <2>4. QED
      BY <1>0, <1>6, <2>3 DEF Server!GetsPong, ServerTypes, Events
  <1>7. CASE Server!AnswersClose(c)
    <2>1. slot' \in [Server!Slot -> SlotRec]
      BY <1>0, <1>7 DEF Server!AnswersClose, SlotRec
    <2>2. session' \in [Server!Conns -> SessionRec] /\ Events'
      BY <1>7, <1>3 DEF Server!AnswersClose, Opened, SessionPlace
    <2>3. net' \in [Server!Conns -> NetRec]
      <3>1. PICK sent \in Server!Sends(slot[session[c].slot].sock) :
                net' = IF sent THEN Server!CountClose(slot[session[c].slot].sock) ELSE net
        BY <1>7 DEF Server!AnswersClose, Server!Mine
      <3>2. CASE sent
        <4>1. slot[session[c].slot].sock \in Server!Conns
          <5>1. slot[session[c].slot].sock \in 0 .. MaxConns
            BY <1>0 DEF SlotRec
          <5>2. slot[session[c].slot].sock # Server!None
            BY <3>2 DEF Server!Sends
          <5>3. QED
            BY <5>1, <5>2, SlotsAre
        <4>2. QED
          BY <3>1, <3>2, <4>1, Counts
      <3>3. CASE ~sent
        BY <1>0, <3>1, <3>3
      <3>4. QED
        BY <3>2, <3>3
    <2>4. QED
      BY <1>0, <1>7, <2>1, <2>2, <2>3 DEF Server!AnswersClose, ServerTypes
  <1>8. CASE Server!CallsOnclose(c)
    <2>1. session[c].pc = "onclose" /\ UNCHANGED <<slot, timer, app, mutex, pinging, net>>
          /\ session' = [session EXCEPT ![c].pc = "closed", ![c].events[2] = @ + 1]
      BY <1>8 DEF Server!CallsOnclose
    <2>2. session[c].events[1] = 1 /\ session[c].events[2] = 0 /\ session[c].events \in (0 .. 1) \X (0 .. 1)
      BY <1>0, <2>1 DEF Events, Opened, SessionRec
    <2> DEFINE e == [session[c].events EXCEPT ![2] = session[c].events[2] + 1]
    <2>3. e \in (0 .. 1) \X (0 .. 1) /\ e[1] = e[2]
      BY <2>2
    <2>4. session' = [session EXCEPT ![c] = [session[c] EXCEPT !.pc = "closed", !.events = e]]
      BY Zenon, <1>0, <2>1
    <2> HIDE DEF e
    <2>5. session' \in [Server!Conns -> SessionRec] /\ session'[c].pc = "closed" /\ session'[c].events = e
          /\ \A d \in Server!Conns : d # c => session'[d] = session[d]
      BY <1>0, <2>3, <2>4 DEF SessionRec, SessionPlace
    <2>6. Events'
      BY <2>3, <2>5 DEF Events, Waiting, Opened, Over
    <2>7. QED
      BY <1>0, <2>1, <2>5, <2>6 DEF ServerTypes
  <1>9. CASE Server!LooksForTimer(c) \/ Server!JoinsTimer(c)
    <2>1. session[c].pc \in {"closed", "join"} /\ UNCHANGED <<slot, timer, app, mutex, pinging, net>>
          /\ \E p \in {"join", "check"} : Server!Goto(c, p)
      BY <1>9 DEF Server!LooksForTimer, Server!JoinsTimer
    <2>2. session' \in [Server!Conns -> SessionRec] /\ Events'
      BY <2>1, <1>3 DEF Over, SessionPlace
    <2>3. QED
      BY <1>0, <2>1, <2>2 DEF ServerTypes
  <1>10. CASE Server!ClosesSession(c)
    <2>1. session[c].pc = "check" /\ UNCHANGED <<timer, app, mutex, pinging>>
          /\ \/ Server!ClosesSocket(session[c].slot) /\ Server!Goto(c, "release")
             \/ Server!Goto(c, "ended") /\ UNCHANGED <<slot, net>>
      BY <1>10 DEF Server!ClosesSession
    <2>2. session' \in [Server!Conns -> SessionRec] /\ Events'
      BY <2>1, <1>3 DEF Over, SessionPlace
    <2>3. slot' \in [Server!Slot -> SlotRec] /\ net' \in [Server!Conns -> NetRec]
      BY <1>0, <2>1, ClosesTyped
    <2>4. QED
      BY <1>0, <2>1, <2>2, <2>3 DEF ServerTypes
  <1>11. CASE Server!ReleasesSession(c)
    <2>1. session[c].pc = "release" /\ UNCHANGED <<timer, app, mutex, pinging>>
          /\ Server!Releases(session[c].slot) /\ Server!Goto(c, "ended")
      BY <1>11 DEF Server!ReleasesSession
    <2>2. session' \in [Server!Conns -> SessionRec] /\ Events'
      BY <2>1, <1>3 DEF Over, SessionPlace
    <2>3. slot' \in [Server!Slot -> SlotRec] /\ net' \in [Server!Conns -> NetRec]
      BY <1>0, <2>1, ReleasesTyped
    <2>4. QED
      BY <1>0, <2>1, <2>2, <2>3 DEF ServerTypes
  <1>12. QED
    BY <1>1, <1>2, <1>4, <1>5, <1>6, <1>7, <1>8, <1>9, <1>10, <1>11 DEF Server!SessionRuns, Server!Receives

LEMMA TimerTyped ==
  ASSUME Server!ServerAssumption, TypedEvents, NEW c \in Server!Conns, Server!TimerRuns(c)
  PROVE  TypedEvents'
  <1> USE DEF TypedEvents
  <1>0. /\ timer \in [Server!Conns -> TimerPlace] /\ session \in [Server!Conns -> SessionRec]
        /\ session[c].slot \in Server!Slot
    BY DEF ServerTypes, SessionRec
  <1>1. UNCHANGED <<session, app, mutex, pinging>> /\ \E p \in TimerPlace : timer' = [timer EXCEPT ![c] = p]
    BY DEF Server!TimerRuns, Server!TimerExpires, Server!TimerCloses, Server!TimerReleases, TimerPlace
  <1>2. slot' \in [Server!Slot -> SlotRec] /\ net' \in [Server!Conns -> NetRec]
    <2>1. \/ UNCHANGED <<slot, net>> \/ Server!ClosesSocket(session[c].slot) \/ Server!Releases(session[c].slot)
      BY DEF Server!TimerRuns, Server!TimerExpires, Server!TimerCloses, Server!TimerReleases
    <2>2. QED
      BY <1>0, <2>1, ClosesTyped, ReleasesTyped DEF ServerTypes
  <1>3. timer' \in [Server!Conns -> TimerPlace]
    BY <1>0, <1>1
  <1>4. QED
    BY <1>1, <1>2, <1>3 DEF ServerTypes, Events

LEMMA AppTyped ==
  ASSUME Server!ServerAssumption, TypedEvents, NEW a \in App,
         \/ Server!AppRuns(a) \/ Server!PingAllCalled(a)
         \/ \E c \in Server!Conns : Server!CloseCalled(a, c) \/ Server!PingCalled(a, c)
  PROVE  TypedEvents' /\ session' = session
  <1> USE DEF TypedEvents
  <1>0. /\ slot \in [Server!Slot -> SlotRec] /\ session \in [Server!Conns -> SessionRec]
        /\ timer \in [Server!Conns -> TimerPlace] /\ app \in [App -> AppRec]
        /\ mutex \in App \cup {Server!None} /\ pinging \in [Server!Slot -> App \cup {Server!None}]
        /\ net \in [Server!Conns -> NetRec] /\ app[a].slot \in Server!Slot
    BY DEF ServerTypes, AppRec
  <1>1. session' = session
    BY DEF Server!AppRuns, Server!PingAllCalled, Server!CloseCalled, Server!PingCalled, Server!SendsClose,
           Server!StartsTimeout, Server!LooksAt, Server!Pings, Server!PingCloses, Server!PingReleases
  <1>2. SUFFICES ServerTypes'
    BY <1>1 DEF Events
  <1>3. ASSUME NEW c \in Server!Conns, Server!CloseCalled(a, c) \/ Server!PingCalled(a, c) PROVE ServerTypes'
    <2>1. UNCHANGED <<slot, session, timer, mutex, pinging, net>>
          /\ \E q \in {"sendclose", "ping"} : app' = [app EXCEPT ![a] = [pc |-> q, slot |-> session[c].slot, single |-> TRUE]]
      BY <1>3 DEF Server!CloseCalled, Server!PingCalled
    <2>2. session[c].slot \in Server!Slot
      BY <1>0 DEF SessionRec
    <2>3. app' \in [App -> AppRec]
      BY <2>1, <2>2, AppGoes
    <2>4. QED
      BY <1>0, <2>1, <2>3 DEF ServerTypes
  <1>4. CASE Server!PingAllCalled(a)
    <2>1. UNCHANGED <<slot, session, timer, pinging, net>> /\ mutex' = a
          /\ app' = [app EXCEPT ![a] = [pc |-> "look", slot |-> 1, single |-> FALSE]]
      BY <1>4 DEF Server!PingAllCalled
    <2>2. app' \in [App -> AppRec]
      BY <2>1, AppGoes, SlotsAre
    <2>3. QED
      BY <1>0, <2>1, <2>2 DEF ServerTypes
  <1>5. CASE Server!SendsClose(a)
    <2>1. PICK sent \in Server!Sends(slot[app[a].slot].sock) :
            IF sent THEN net' = Server!CountClose(slot[app[a].slot].sock) /\ Server!Step(a, "starttimer")
                    ELSE Server!Done(a) /\ UNCHANGED net
      BY <1>5 DEF Server!SendsClose
    <2>2. app' \in [App -> AppRec]
      BY <2>1, AppGoes
    <2>3. net' \in [Server!Conns -> NetRec]
      <3>1. CASE sent
        <4>1. slot[app[a].slot].sock \in Server!Conns
          <5>1. slot[app[a].slot].sock \in 0 .. MaxConns
            BY <1>0 DEF SlotRec
          <5>2. slot[app[a].slot].sock # Server!None
            BY <3>1 DEF Server!Sends
          <5>3. QED
            BY <5>1, <5>2, SlotsAre
        <4>2. QED
          BY <2>1, <3>1, <4>1, Counts
      <3>2. CASE ~sent
        BY <1>0, <2>1, <3>2
      <3>3. QED
        BY <3>1, <3>2
    <2>4. QED
      BY <1>0, <1>5, <2>2, <2>3 DEF ServerTypes, Server!SendsClose
  <1>6. CASE Server!StartsTimeout(a)
    <2> DEFINE s == app[a].slot
               c == slot[s].sock
    <2>1. /\ IF slot[s].state = "OPEN"
             THEN /\ slot' = [slot EXCEPT ![s].state = "CLOSING", ![s].timer = c]
                  /\ timer' = [timer EXCEPT ![c] = "waits"]
             ELSE UNCHANGED <<slot, timer>>
          /\ net' = [d \in Server!Conns |-> [net[d] EXCEPT !.asked = @ \/ c = d]]
          /\ Server!Done(a) /\ UNCHANGED <<session, mutex, pinging>>
      BY <1>6 DEF Server!StartsTimeout
    <2>2. s \in Server!Slot /\ c \in 0 .. MaxConns
      BY <1>0 DEF SlotRec
    <2> HIDE DEF s, c
    <2>3. slot' \in [Server!Slot -> SlotRec]
      BY <1>0, <2>1, <2>2 DEF SlotRec
    <2>4. timer' \in [Server!Conns -> TimerPlace]
      BY <1>0, <2>1 DEF TimerPlace
    <2>5. net' \in [Server!Conns -> NetRec]
      <3>1. ASSUME NEW d \in Server!Conns PROVE net'[d] \in NetRec
        <4>1. net'[d] = [net[d] EXCEPT !.asked = net[d].asked \/ c = d]
          BY <2>1
        <4>2. (net[d].asked \/ c = d) \in BOOLEAN /\ net[d] \in NetRec
          BY <1>0
        <4>3. QED
          BY Zenon, <4>1, <4>2 DEF NetRec
      <3>2. QED
        BY <2>1, <3>1
    <2>6. QED
      BY <1>0, <2>1, <2>3, <2>4, <2>5, AppGoes DEF ServerTypes
  <1>7. CASE Server!LooksAt(a)
    <2>1. UNCHANGED <<slot, session, timer, pinging, net>>
      BY <1>7 DEF Server!LooksAt
    <2>2. (Server!Step(a, "ping") /\ UNCHANGED mutex) \/ Server!Onwards(a)
      BY <1>7 DEF Server!LooksAt
    <2>3. app' \in [App -> AppRec] /\ mutex' \in App \cup {Server!None}
      BY <1>0, <2>2, AppGoes, GoesOnwards
    <2>4. QED
      BY <1>0, <2>1, <2>3 DEF ServerTypes
  <1>8. CASE Server!Pings(a)
    <2> DEFINE s == app[a].slot
    <2>1. /\ slot' = [slot EXCEPT ![s].ping = @ + 1] /\ UNCHANGED <<session, timer, net>>
          /\ \/ pinging' = [pinging EXCEPT ![s] = a] /\ Server!Step(a, "pingclose") /\ UNCHANGED mutex
             \/ Server!Onwards(a) /\ UNCHANGED pinging
      BY <1>8 DEF Server!Pings
    <2>2. slot' \in [Server!Slot -> SlotRec]
      BY <1>0, <2>1 DEF SlotRec
    <2>3. pinging' \in [Server!Slot -> App \cup {Server!None}]
      BY <1>0, <2>1
    <2>4. app' \in [App -> AppRec] /\ mutex' \in App \cup {Server!None}
      BY <1>0, <2>1, AppGoes, GoesOnwards
    <2>5. QED
      BY <1>0, <2>1, <2>2, <2>3, <2>4 DEF ServerTypes
  <1>9. CASE Server!PingCloses(a)
    <2>1. Server!ClosesSocket(app[a].slot) /\ Server!Step(a, "pingrelease") /\ UNCHANGED <<session, timer, mutex, pinging>>
      BY <1>9 DEF Server!PingCloses
    <2>2. app' \in [App -> AppRec]
      BY <2>1, AppGoes
    <2>3. QED
      BY <1>0, <2>1, <2>2, ClosesTyped DEF ServerTypes
  <1>10. CASE Server!PingReleases(a)
    <2>1. Server!Releases(app[a].slot) /\ Server!Onwards(a) /\ UNCHANGED <<session, timer>>
          /\ pinging' = [pinging EXCEPT ![app[a].slot] = Server!None]
      BY <1>10 DEF Server!PingReleases
    <2>2. app' \in [App -> AppRec] /\ mutex' \in App \cup {Server!None}
      BY <2>1, GoesOnwards
    <2>3. pinging' \in [Server!Slot -> App \cup {Server!None}]
      BY <1>0, <2>1
    <2>4. QED
      BY <1>0, <2>1, <2>2, <2>3, ReleasesTyped DEF ServerTypes
  <1>11. QED
    BY <1>3, <1>4, <1>5, <1>6, <1>7, <1>8, <1>9, <1>10 DEF Server!AppRuns

LEMMA PeerTyped ==
  ASSUME TypedEvents, NEW c \in Server!Conns, Server!PeerGoes(c)
  PROVE  TypedEvents' /\ UNCHANGED <<slot, session, timer, app, mutex, pinging>>
         /\ \A d \in Server!Conns : net'[d].shut = net[d].shut
  <1>1. net' = [net EXCEPT ![c].up = FALSE] /\ UNCHANGED <<slot, session, timer, app, mutex, pinging>>
    BY DEF Server!PeerGoes
  <1>2. net \in [Server!Conns -> NetRec]
    BY DEF TypedEvents, ServerTypes
  <1>3. net' \in [Server!Conns -> NetRec] /\ \A d \in Server!Conns : net'[d].shut = net[d].shut
    BY <1>1, <1>2 DEF NetRec
  <1>4. QED
    BY <1>1, <1>3 DEF TypedEvents, ServerTypes, Events

LEMMA StartsTyped == ASSUME Server!ServerAssumption, Server!Init PROVE TypedEvents
  <1> USE DEF Server!Init
  <1>1. slot \in [Server!Slot -> SlotRec]
    BY SlotsAre DEF SlotRec
  <1>2. session \in [Server!Conns -> SessionRec] /\ \A c \in Server!Conns : session[c].pc = "none" /\ session[c].events = <<0, 0>>
    BY SlotsAre DEF SessionRec, SessionPlace
  <1>3. timer \in [Server!Conns -> TimerPlace]
    BY DEF TimerPlace
  <1>4. app \in [App -> AppRec]
    BY SlotsAre DEF AppRec, Server!Idle
  <1>5. net \in [Server!Conns -> NetRec]
    BY DEF NetRec
  <1>6. Events
    BY <1>2 DEF Events, Waiting, Opened, Over
  <1>7. QED
    BY <1>1, <1>2, <1>3, <1>4, <1>5, <1>6 DEF TypedEvents, ServerTypes

-----------------------------------------------------------------------------
(* Without calls of the application there are no time-out threads, and a   *)
(* session that is alive has its slot, which is open until it closes it.   *)
Quiet ==
  /\ \A c \in Server!Conns : timer[c] = "none"
  /\ \A s \in Server!Slot : slot[s].timer = Server!None
  /\ \A c \in Server!Conns :
       /\ session[c].pc \notin {"none", "ended"} => slot[session[c].slot].sock = c
       /\ session[c].pc \notin {"none", "ended", "release"} => slot[session[c].slot].state # "CLOSED"
       /\ session[c].pc \in {"ended", "release"} => net[c].shut

(* The one connection there may be.  Before it, all slots are closed and   *)
(* nobody works on one ...                                                 *)
Awaited(c) ==
  /\ session[c].pc = "none" /\ timer[c] = "none"
  /\ \A r \in Server!Slot : slot[r].sock = Server!None /\ slot[r].state = "CLOSED"
  /\ \A a \in App : app[a].pc \in {"idle", "look"}

(* ... then its slot is open and its own, or its socket is shut, which it  *)
(* is wherever that slot is about to be released.                          *)
Served(c) ==
  LET s == session[c].slot
  IN /\ session[c].pc # "none"
     /\ net[c].shut \/ (slot[s].sock = c /\ slot[s].state # "CLOSED")
     /\ session[c].pc \in {"release", "ended"} \/ timer[c] = "release" => net[c].shut
     /\ \A a \in App : app[a].pc = "pingrelease" /\ app[a].slot = s => net[c].shut

Alone ==
  /\ \A d \in Server!Conns : d > 1 => session[d].pc = "none" /\ timer[d] = "none"
  /\ \A r \in Server!Slot : slot[r].sock \in {Server!None, 1}
  /\ 1 \in Server!Conns => Awaited(1) \/ Served(1)

ServerInv ==
  /\ TypedEvents
  /\ part = "reuse" => NoCalls /\ Quiet
  /\ part = "close" => Alone

LEMMA ServerInvSound == ASSUME ServerInv PROVE ServerSound
  <1>1. Server!TypeOK /\ Server!EventsPaired
    <2>1. Server!TypeOK
      BY ServerTyped DEF ServerInv, TypedEvents
    <2>2. ASSUME NEW c \in Server!Conns
          PROVE LET e == session[c].events
                IN e[2] <= e[1] /\ e[1] <= 1 /\ (Server!At(c, "ended") => e[2] = e[1])
      <3>1. session[c].pc \in SessionPlace /\ session[c].events \in (0 .. 1) \X (0 .. 1)
        BY DEF ServerInv, TypedEvents, ServerTypes, SessionRec
      <3>2. session[c].events[1] \in 0 .. 1 /\ session[c].events[2] \in 0 .. 1
        BY <3>1
      <3>3. QED
        BY <3>1, <3>2 DEF ServerInv, TypedEvents, Events, SessionPlace, Waiting, Opened, Over, Server!At
    <2>3. QED
      BY <2>1, <2>2 DEF Server!EventsPaired
  <1>2. part = "reuse" => Server!SlotOwned /\ Server!EndedIsClosed
    BY DEF ServerInv, Quiet, Server!SlotOwned, Server!Mine, Server!EndedIsClosed, Server!At
  <1>3. part = "close" => Server!EndedIsClosed
    <2>1. SUFFICES ASSUME part = "close", NEW c \in Server!Conns, session[c].pc = "ended" PROVE net[c].shut
      BY DEF Server!EndedIsClosed, Server!At
    <2>2. c = 1
      BY <2>1, SlotsAre, PartsAssumption DEF ServerInv, Alone
    <2>3. QED
      BY <2>1, <2>2 DEF ServerInv, Alone, Awaited, Served
  <1>4. QED
    BY <1>1, <1>2, <1>3 DEF ServerSound

LEMMA ServerStarts == ASSUME Server!ServerAssumption, Server!Init PROVE ServerInv
  <1>1. TypedEvents
    BY StartsTyped
  <1>2. NoCalls /\ Quiet
    BY DEF Server!Init, NoCalls, Quiet
  <1>3. Alone
    <2>1. \A a \in App : app[a].pc = "idle"
      BY DEF Server!Init, Server!Idle
    <2>2. QED
      BY <2>1, SlotsAre DEF Server!Init, Alone, Awaited
  <1>4. QED
    BY <1>1, <1>2, <1>3 DEF ServerInv

(* A session that works on its own slot disturbs no other session. *)
LEMMA QuietMoves ==
  ASSUME Quiet, TypedEvents, TypedEvents', NEW c \in Server!Conns, timer' = timer,
         session[c].pc \notin {"none", "ended"},
         session'[c].slot = session[c].slot,
         \A d \in Server!Conns : d # c => session'[d] = session[d],
         \A r \in Server!Slot : slot'[r].timer = slot[r].timer,
         \A r \in Server!Slot : r # session[c].slot => slot'[r].sock = slot[r].sock /\ slot'[r].state = slot[r].state,
         \A d \in Server!Conns : net[d].shut => net'[d].shut,
         session'[c].pc \notin {"none", "ended"} => slot'[session[c].slot].sock = c,
         session'[c].pc \notin {"none", "ended", "release"} => slot'[session[c].slot].state # "CLOSED",
         session'[c].pc \in {"ended", "release"} => net'[c].shut
  PROVE  Quiet'
  <1>1. \A d \in Server!Conns : session[d].slot \in Server!Slot /\ session'[d].slot \in Server!Slot
    BY DEF TypedEvents, ServerTypes, SessionRec
  <1>2. ASSUME NEW d \in Server!Conns, d # c
        PROVE  /\ session'[d].pc \notin {"none", "ended"} => slot'[session'[d].slot].sock = d
               /\ session'[d].pc \notin {"none", "ended", "release"} => slot'[session'[d].slot].state # "CLOSED"
               /\ session'[d].pc \in {"ended", "release"} => net'[d].shut
    <2>1. session'[d] = session[d] /\ session[d].slot \in Server!Slot
      BY <1>1, <1>2
    <2>2. session[d].pc \notin {"none", "ended"} => session[d].slot # session[c].slot
      BY <1>2 DEF Quiet
    <2>3. QED
      BY <2>1, <2>2 DEF Quiet
  <1>3. \A r \in Server!Slot : slot'[r].timer = Server!None
    BY DEF Quiet
  <1>4. \A d \in Server!Conns : timer'[d] = "none"
    BY DEF Quiet
  <1>5. QED
    BY <1>2, <1>3, <1>4 DEF Quiet

LEMMA QuietAccepts ==
  ASSUME Server!ServerAssumption, Quiet, TypedEvents, TypedEvents', NEW c \in Server!Conns, Server!Accepts(c)
  PROVE  Quiet'
  <1>0. /\ slot \in [Server!Slot -> SlotRec] /\ session \in [Server!Conns -> SessionRec]
        /\ net \in [Server!Conns -> NetRec] /\ \A d \in Server!Conns : session[d].slot \in Server!Slot
    BY DEF TypedEvents, ServerTypes, SessionRec
  <1>1. session[c].pc = "none" /\ UNCHANGED <<timer, app, mutex, pinging>>
    BY DEF Server!Accepts, Server!At
  <1>2. CASE Server!Free # {}
    <2> DEFINE s == Server!Min(Server!Free)
               new == [sock |-> c, state |-> "CONNECTING", timer |-> Server!None, ping |-> 0, pong |-> 0]
    <2>1. slot' = [slot EXCEPT ![s] = new] /\ UNCHANGED net
          /\ session' = [session EXCEPT ![c].pc = "request", ![c].slot = s]
      BY <1>2 DEF Server!Accepts
    <2>2. s \in Server!Slot /\ slot[s].sock = Server!None
      BY <1>2, FirstFree DEF Server!Free
    <2> HIDE DEF s
    <2>3. session'[c].pc = "request" /\ session'[c].slot = s /\ \A d \in Server!Conns : d # c => session'[d] = session[d]
      BY <1>0, <2>1 DEF SessionRec
    <2>4. slot'[s] = new /\ \A r \in Server!Slot : r # s => slot'[r] = slot[r]
      BY <1>0, <2>1, <2>2
    <2>5. new.sock = c /\ new.state = "CONNECTING" /\ new.timer = Server!None
      OBVIOUS
    <2> HIDE DEF new
    <2>6. ASSUME NEW d \in Server!Conns
          PROVE  /\ session'[d].pc \notin {"none", "ended"} => slot'[session'[d].slot].sock = d
                 /\ session'[d].pc \notin {"none", "ended", "release"} => slot'[session'[d].slot].state # "CLOSED"
                 /\ session'[d].pc \in {"ended", "release"} => net'[d].shut
      <3>1. CASE d = c
        BY <2>3, <2>4, <2>5, <3>1
      <3>2. CASE d # c
        <4>1. session'[d] = session[d] /\ session[d].slot \in Server!Slot
          BY <1>0, <2>3, <3>2
        <4>2. session[d].pc \notin {"none", "ended"} => session[d].slot # s
          BY <2>2, SlotsAre DEF Quiet
        <4>3. session[d].pc \notin {"none", "ended"} => slot'[session[d].slot] = slot[session[d].slot]
          BY <2>4, <4>1, <4>2
        <4>4. net' = net
          BY <2>1
        <4>5. QED
          BY <4>1, <4>3, <4>4 DEF Quiet
      <3>3. QED
        BY <3>1, <3>2
    <2>7. \A r \in Server!Slot : slot'[r].timer = Server!None
      BY <2>2, <2>4, <2>5 DEF Quiet
    <2>8. QED
      BY <1>1, <2>6, <2>7 DEF Quiet
  <1>3. CASE Server!Free = {}
    <2>1. net' = [net EXCEPT ![c].shut = TRUE] /\ Server!Goto(c, "ended") /\ UNCHANGED slot
      BY <1>3 DEF Server!Accepts
    <2>2. session'[c].pc = "ended" /\ \A d \in Server!Conns : d # c => session'[d] = session[d]
      BY <2>1, Goes DEF TypedEvents, SessionPlace
    <2>3. net'[c].shut /\ \A d \in Server!Conns : net[d].shut => net'[d].shut
      BY <1>0, <2>1 DEF NetRec
    <2>4. ASSUME NEW d \in Server!Conns
          PROVE  /\ session'[d].pc \notin {"none", "ended"} => slot'[session'[d].slot].sock = d
                 /\ session'[d].pc \notin {"none", "ended", "release"} => slot'[session'[d].slot].state # "CLOSED"
                 /\ session'[d].pc \in {"ended", "release"} => net'[d].shut
      BY <2>1, <2>2, <2>3 DEF Quiet
    <2>5. QED
      BY <1>1, <2>1, <2>4 DEF Quiet
  <1>4. QED
    BY <1>2, <1>3

LEMMA QuietSession ==
  ASSUME Server!ServerAssumption, Quiet, TypedEvents, TypedEvents', NEW c \in Server!Conns,
         Server!SessionRuns(c) \/ Server!Receives(c)
  PROVE  Quiet'
  <1>0. /\ slot \in [Server!Slot -> SlotRec] /\ session \in [Server!Conns -> SessionRec]
        /\ net \in [Server!Conns -> NetRec] /\ session[c].slot \in Server!Slot
    BY DEF TypedEvents, ServerTypes, SessionRec
  <1>1. timer' = timer /\ session[c].pc \notin {"none", "ended"}
    BY DEF Server!SessionRuns, Server!Receives, Server!Handshakes, Server!SetsOpen, Server!AnswersClose, Server!ReadFails,
           Server!CallsOnclose, Server!LooksForTimer, Server!JoinsTimer, Server!ClosesSession, Server!ReleasesSession,
           Server!BadFrame, Server!GetsPong, Server!GetsClose, Server!At
  <1> DEFINE s == session[c].slot
             Own == slot[s].sock = c
  <1>2. Own /\ (session[c].pc # "release" => slot[s].state # "CLOSED")
    BY <1>1 DEF Quiet
  <1>3. CASE Server!Handshakes(c) \/ Server!CallsOnclose(c)
    <2>1. UNCHANGED <<slot, net>>
      BY <1>3 DEF Server!Handshakes, Server!CallsOnclose
    <2>2. /\ session'[c].pc \in {"onopen", "closed"} /\ session'[c].slot = s
          /\ \A d \in Server!Conns : d # c => session'[d] = session[d]
      BY <1>3, CallsBack DEF TypedEvents
    <2>3. session[c].pc # "release"
      BY <1>3 DEF Server!Handshakes, Server!CallsOnclose, Server!At
    <2>4. QED
      BY <1>1, <1>2, <2>1, <2>2, <2>3, QuietMoves
  <1>4. ASSUME NEW p \in {"onclose", "answer", "join", "check"}, Server!Goto(c, p), session[c].pc # "release",
               UNCHANGED <<slot, net>>
        PROVE  Quiet'
    <2>1. /\ session'[c].pc = p /\ session'[c].slot = s
          /\ \A d \in Server!Conns : d # c => session'[d] = session[d]
      BY <1>4, Goes DEF TypedEvents, SessionPlace
    <2>2. QED
      BY <1>1, <1>2, <1>4, <2>1, QuietMoves
  <1>5. CASE Server!BadFrame(c) \/ Server!GetsClose(c) \/ Server!ReadFails(c) \/ Server!LooksForTimer(c) \/ Server!JoinsTimer(c)
    <2>1. /\ UNCHANGED <<slot, net>> /\ session[c].pc # "release"
          /\ \E p \in {"onclose", "answer", "join", "check"} : Server!Goto(c, p)
      BY <1>5 DEF Server!BadFrame, Server!GetsClose, Server!ReadFails, Server!LooksForTimer, Server!JoinsTimer, Server!At
    <2>2. QED
      BY <2>1, <1>4
  <1>6. CASE Server!SetsOpen(c)
    <2>1. slot' = [slot EXCEPT ![s].state = "OPEN"] /\ Server!Goto(c, "read") /\ UNCHANGED net
      BY <1>6 DEF Server!SetsOpen
    <2>2. /\ session'[c].pc = "read" /\ session'[c].slot = s
          /\ \A d \in Server!Conns : d # c => session'[d] = session[d]
      BY <2>1, Goes DEF TypedEvents, SessionPlace
    <2>3. /\ slot'[s].state = "OPEN" /\ slot'[s].sock = slot[s].sock
          /\ \A r \in Server!Slot : slot'[r].timer = slot[r].timer
          /\ \A r \in Server!Slot : r # s => slot'[r] = slot[r]
      BY <1>0, <2>1 DEF SlotRec
    <2>4. QED
      BY <1>1, <1>2, <2>1, <2>2, <2>3, QuietMoves
  <1>7. CASE Server!GetsPong(c)
    <2>1. PICK n \in 1 .. slot[s].ping : slot' = [slot EXCEPT ![s].pong = n]
      BY <1>7 DEF Server!GetsPong, Server!Mine
    <2>2. UNCHANGED <<session, net>> /\ session[c].pc = "read"
      BY <1>7 DEF Server!GetsPong, Server!At
    <2>3. \A r \in Server!Slot : /\ slot'[r].timer = slot[r].timer /\ slot'[r].sock = slot[r].sock
                                 /\ slot'[r].state = slot[r].state
      BY <1>0, <2>1 DEF SlotRec
    <2>4. session'[c].pc = "read" /\ session'[c].slot = s /\ \A d \in Server!Conns : session'[d] = session[d]
      BY <2>2
    <2>5. slot'[s].sock = c /\ slot'[s].state # "CLOSED"
      BY <1>0, <1>2, <2>2, <2>3
    <2>6. \A d \in Server!Conns : net[d].shut => net'[d].shut
      BY <2>2
    <2>7. QED
      BY <1>1, <2>3, <2>4, <2>5, <2>6, QuietMoves
  <1>8. CASE Server!AnswersClose(c)
    <2>1. slot' = [slot EXCEPT ![s].state = "CLOSING"] /\ Server!Goto(c, "onclose")
          /\ \E sent \in Server!Sends(slot[s].sock) : net' = IF sent THEN Server!CountClose(slot[s].sock) ELSE net
      BY <1>8 DEF Server!AnswersClose, Server!Mine
    <2>2. /\ session'[c].pc = "onclose" /\ session'[c].slot = s
          /\ \A d \in Server!Conns : d # c => session'[d] = session[d]
      BY <2>1, Goes DEF TypedEvents, SessionPlace
    <2>3. /\ slot'[s].state = "CLOSING" /\ slot'[s].sock = slot[s].sock
          /\ \A r \in Server!Slot : slot'[r].timer = slot[r].timer
          /\ \A r \in Server!Slot : r # s => slot'[r] = slot[r]
      BY <1>0, <2>1 DEF SlotRec
    <2>4. \A d \in Server!Conns : net'[d].shut = net[d].shut
      BY <1>2, <2>1, Counts DEF TypedEvents
    <2>5. QED
      BY <1>1, <1>2, <2>1, <2>2, <2>3, <2>4, QuietMoves
  <1>9. CASE Server!ClosesSession(c)
    <2>1. Server!ClosesSocket(s) /\ Server!Goto(c, "release")
      BY <1>2, <1>9 DEF Server!ClosesSession, Server!Mine, Server!At
    <2>2. /\ session'[c].pc = "release" /\ session'[c].slot = s
          /\ \A d \in Server!Conns : d # c => session'[d] = session[d]
      BY <2>1, Goes DEF TypedEvents, SessionPlace
    <2>3. /\ \A r \in Server!Slot : slot'[r].timer = slot[r].timer /\ slot'[r].sock = slot[r].sock
          /\ \A r \in Server!Slot : r # s => slot'[r].state = slot[r].state
          /\ \A d \in Server!Conns : net'[d].shut <=> net[d].shut \/ slot[s].sock = d
      BY <1>0, <2>1, ClosesTyped DEF TypedEvents
    <2>4. QED
      BY <1>0, <1>1, <1>2, <2>2, <2>3, QuietMoves
  <1>10. CASE Server!ReleasesSession(c)
    <2>1. Server!Releases(s) /\ Server!Goto(c, "ended") /\ session[c].pc = "release"
      BY <1>10 DEF Server!ReleasesSession, Server!At
    <2>2. /\ session'[c].pc = "ended" /\ session'[c].slot = s
          /\ \A d \in Server!Conns : d # c => session'[d] = session[d]
      BY <2>1, Goes DEF TypedEvents, SessionPlace
    <2>3. /\ \A r \in Server!Slot : slot'[r].timer = slot[r].timer /\ slot'[r].state = slot[r].state
          /\ \A r \in Server!Slot : r # s => slot'[r].sock = slot[r].sock
          /\ net' = net
      BY <1>0, <2>1, ReleasesTyped DEF TypedEvents
    <2>4. net[c].shut
      BY <2>1 DEF Quiet
    <2>5. QED
      BY <1>1, <1>2, <2>2, <2>3, <2>4, QuietMoves
  <1>11. QED
    BY <1>3, <1>5, <1>6, <1>7, <1>8, <1>9, <1>10 DEF Server!SessionRuns, Server!Receives

LEMMA QuietStep ==
  ASSUME Server!ServerAssumption, NoCalls, NoCalls', Quiet, TypedEvents, TypedEvents', [Server!Next]_(Server!vars)
  PROVE  Quiet'
  <1>1. ASSUME NEW c \in Server!Conns, Server!TimerRuns(c) PROVE FALSE
    BY <1>1 DEF Server!TimerRuns, Server!TimerExpires, Server!TimerCloses, Server!TimerReleases, Quiet
  <1>2. ASSUME NEW c \in Server!Conns, Server!PeerGoes(c) PROVE Quiet'
    <2>1. UNCHANGED <<slot, session, timer>> /\ \A d \in Server!Conns : net'[d].shut = net[d].shut
      BY <1>2, PeerTyped DEF Server!PeerGoes
    <2>2. QED
      BY <2>1 DEF Quiet
  <1>3. CASE UNCHANGED Server!vars
    BY <1>3 DEF Server!vars, Quiet
  <1>4. ASSUME NEW a \in App,
               \/ Server!AppRuns(a) \/ Server!PingAllCalled(a)
               \/ \E c \in Server!Conns : Server!CloseCalled(a, c) \/ Server!PingCalled(a, c)
        PROVE  FALSE
    <2>1. app[a].pc = "idle" /\ app'[a].pc = "idle" /\ app \in [App -> AppRec]
      BY DEF NoCalls, Server!Idle, TypedEvents, ServerTypes
    <2>2. QED
      BY <1>4, <2>1 DEF Server!AppRuns, Server!SendsClose, Server!StartsTimeout, Server!LooksAt, Server!Pings,
                        Server!PingCloses, Server!PingReleases, Server!PingAllCalled, Server!CloseCalled,
                        Server!PingCalled
  <1>5. QED
    BY <1>1, <1>2, <1>3, <1>4, QuietAccepts, QuietSession DEF Server!Next

-----------------------------------------------------------------------------
(* With one connection, shut stays shut, and what does not shut the socket *)
(* leaves the slot to the connection.                                      *)
LEMMA ServedMoves ==
  ASSUME NEW c \in Server!Conns, Served(c), session'[c].pc # "none", session'[c].slot = session[c].slot,
         net[c].shut => net'[c].shut,
         \/ net'[c].shut
         \/ /\ slot'[session[c].slot].sock = slot[session[c].slot].sock
            /\ slot'[session[c].slot].state = "CLOSED" => slot[session[c].slot].state = "CLOSED"
            /\ session'[c].pc \notin {"release", "ended"}
            /\ timer'[c] = "release" => timer[c] = "release"
            /\ \A a \in App : app'[a].pc = "pingrelease" => app[a].pc = "pingrelease" /\ app'[a].slot = app[a].slot
  PROVE  Served(c)'
  BY DEF Served

LEMMA AloneAccepts ==
  ASSUME Server!ServerAssumption, TypedEvents, TypedEvents', NEW c \in Server!Conns, Awaited(c), Server!Accepts(c)
  PROVE  Served(c)'
  <1>0. /\ slot \in [Server!Slot -> SlotRec] /\ session \in [Server!Conns -> SessionRec]
        /\ net \in [Server!Conns -> NetRec]
    BY DEF TypedEvents, ServerTypes
  <1>1. UNCHANGED <<timer, app>>
    BY DEF Server!Accepts
  <1>2. CASE Server!Free # {}
    <2> DEFINE s == Server!Min(Server!Free)
               new == [sock |-> c, state |-> "CONNECTING", timer |-> Server!None, ping |-> 0, pong |-> 0]
    <2>1. slot' = [slot EXCEPT ![s] = new]
          /\ session' = [session EXCEPT ![c].pc = "request", ![c].slot = s]
      BY <1>2 DEF Server!Accepts
    <2>2. s \in Server!Slot
      BY <1>2, FirstFree DEF Server!Free
    <2>3. new.sock = c /\ new.state = "CONNECTING"
      OBVIOUS
    <2> HIDE DEF s, new
    <2>4. session'[c].pc = "request" /\ session'[c].slot = s
      BY <1>0, <2>1 DEF SessionRec
    <2>5. slot'[s] = new
      BY <1>0, <2>1, <2>2
    <2>6. timer'[c] = "none" /\ \A a \in App : app'[a].pc # "pingrelease"
      BY <1>1 DEF Awaited
    <2>7. QED
      BY <2>3, <2>4, <2>5, <2>6 DEF Served
  <1>3. CASE Server!Free = {}
    <2>1. net' = [net EXCEPT ![c].shut = TRUE] /\ Server!Goto(c, "ended")
      BY <1>3 DEF Server!Accepts
    <2>2. session'[c].pc = "ended"
      BY <2>1, Goes DEF TypedEvents, SessionPlace
    <2>3. net'[c].shut
      BY <1>0, <2>1 DEF NetRec
    <2>4. QED
      BY <2>2, <2>3 DEF Served
  <1>4. QED
    BY <1>2, <1>3

LEMMA AloneSession ==
  ASSUME Server!ServerAssumption, TypedEvents, TypedEvents', NEW c \in Server!Conns, Served(c),
         Server!SessionRuns(c) \/ Server!Receives(c)
  PROVE  Served(c)'
  <1>0. /\ slot \in [Server!Slot -> SlotRec] /\ net \in [Server!Conns -> NetRec]
        /\ session[c].slot \in Server!Slot /\ ServerTypes
    BY DEF TypedEvents, ServerTypes, SessionRec
  <1>1. UNCHANGED <<timer, app>>
    BY DEF Server!SessionRuns, Server!Receives, Server!Handshakes, Server!SetsOpen, Server!AnswersClose, Server!ReadFails,
           Server!CallsOnclose, Server!LooksForTimer, Server!JoinsTimer, Server!ClosesSession, Server!ReleasesSession,
           Server!BadFrame, Server!GetsPong, Server!GetsClose
  <1> DEFINE s == session[c].slot
  <1>2. ASSUME session'[c].pc \notin {"none", "release", "ended"}, session'[c].slot = s,
               net'[c].shut = net[c].shut, slot'[s].sock = slot[s].sock,
               slot'[s].state = "CLOSED" => slot[s].state = "CLOSED"
        PROVE  Served(c)'
    BY <1>1, <1>2, ServedMoves
  <1>3. CASE Server!Handshakes(c) \/ Server!CallsOnclose(c)
    <2>1. UNCHANGED <<slot, net>>
      BY <1>3 DEF Server!Handshakes, Server!CallsOnclose
    <2>2. session'[c].pc \in {"onopen", "closed"} /\ session'[c].slot = s
      BY <1>0, <1>3, CallsBack
    <2>3. QED
      BY <1>2, <2>1, <2>2
  <1>4. ASSUME NEW p \in {"onclose", "answer", "join", "check", "read"}, Server!Goto(c, p)
        PROVE  session'[c].pc \notin {"none", "release", "ended"} /\ session'[c].slot = s
    BY <1>0, <1>4, Goes DEF SessionPlace
  <1>5. CASE Server!BadFrame(c) \/ Server!GetsClose(c) \/ Server!ReadFails(c) \/ Server!LooksForTimer(c) \/ Server!JoinsTimer(c)
    <2>1. /\ UNCHANGED <<slot, net>>
          /\ \E p \in {"onclose", "answer", "join", "check"} : Server!Goto(c, p)
      BY <1>5 DEF Server!BadFrame, Server!GetsClose, Server!ReadFails, Server!LooksForTimer, Server!JoinsTimer
    <2>2. QED
      BY <1>2, <1>4, <2>1
  <1>6. CASE Server!SetsOpen(c)
    <2>1. slot' = [slot EXCEPT ![s].state = "OPEN"] /\ Server!Goto(c, "read") /\ UNCHANGED net
      BY <1>6 DEF Server!SetsOpen
    <2>2. slot'[s].state = "OPEN" /\ slot'[s].sock = slot[s].sock
      BY <1>0, <2>1 DEF SlotRec
    <2>3. QED
      BY <1>2, <1>4, <2>1, <2>2
  <1>7. CASE Server!GetsPong(c)
    <2>1. PICK n \in 1 .. slot[s].ping : slot' = [slot EXCEPT ![s].pong = n]
      BY <1>7 DEF Server!GetsPong, Server!Mine
    <2>2. UNCHANGED <<session, net>> /\ session[c].pc = "read"
      BY <1>7 DEF Server!GetsPong, Server!At
    <2>3. slot'[s].sock = slot[s].sock /\ slot'[s].state = slot[s].state
      BY <1>0, <2>1 DEF SlotRec
    <2>4. session'[c].pc = "read" /\ session'[c].slot = s /\ net'[c].shut = net[c].shut
      BY <2>2
    <2>5. QED
      BY <1>2, <2>3, <2>4
  <1>8. CASE Server!AnswersClose(c)
    <2>1. slot' = [slot EXCEPT ![s].state = "CLOSING"] /\ Server!Goto(c, "onclose")
          /\ \E sent \in Server!Sends(slot[s].sock) : net' = IF sent THEN Server!CountClose(slot[s].sock) ELSE net
      BY <1>8 DEF Server!AnswersClose, Server!Mine
    <2>2. slot'[s].state = "CLOSING" /\ slot'[s].sock = slot[s].sock
      BY <1>0, <2>1 DEF SlotRec
    <2>3. net'[c].shut = net[c].shut
      <3>1. CASE net' = net
        BY <3>1
      <3>2. CASE slot[s].sock # Server!None /\ net' = Server!CountClose(slot[s].sock)
        BY <1>0, <3>2, SlotsAre, Counts DEF SlotRec
      <3>3. QED
        BY <2>1, <3>1, <3>2 DEF Server!Sends
    <2>4. QED
      BY <1>2, <1>4, <2>1, <2>2, <2>3
  <1>9. CASE Server!ClosesSession(c) /\ slot[s].state # "CLOSED"
    <2>1. Server!ClosesSocket(s) /\ Server!Goto(c, "release")
      BY <1>9 DEF Server!ClosesSession, Server!Mine
    <2>2. session'[c].pc = "release" /\ session'[c].slot = s
      BY <1>0, <2>1, Goes DEF SessionPlace
    <2>3. net'[c].shut
      BY <1>0, <1>9, <2>1, ClosesTyped DEF Served
    <2>4. QED
      BY <2>2, <2>3, ServedMoves
  <1>10. CASE Server!ClosesSession(c) /\ slot[s].state = "CLOSED"
    <2>1. Server!Goto(c, "ended") /\ net' = net
      BY <1>10 DEF Server!ClosesSession, Server!Mine
    <2>2. session'[c].pc = "ended" /\ session'[c].slot = s
      BY <1>0, <2>1, Goes DEF SessionPlace
    <2>3. net[c].shut
      BY <1>10 DEF Served
    <2>4. QED
      BY <2>1, <2>2, <2>3, ServedMoves
  <1>11. CASE Server!ReleasesSession(c)
    <2>1. Server!Releases(s) /\ Server!Goto(c, "ended") /\ session[c].pc = "release"
      BY <1>11 DEF Server!ReleasesSession, Server!At
    <2>2. session'[c].pc = "ended" /\ session'[c].slot = s
      BY <1>0, <2>1, Goes DEF SessionPlace
    <2>3. net[c].shut /\ net' = net
      BY <2>1 DEF Served, Server!Releases
    <2>4. QED
      BY <2>2, <2>3, ServedMoves
  <1>12. QED
    BY <1>3, <1>5, <1>6, <1>7, <1>8, <1>9, <1>10, <1>11 DEF Server!SessionRuns, Server!Receives

LEMMA AloneTimer ==
  ASSUME Server!ServerAssumption, TypedEvents, TypedEvents', NEW c \in Server!Conns, Served(c), Server!TimerRuns(c)
  PROVE  Served(c)'
  <1>0. /\ timer \in [Server!Conns -> TimerPlace] /\ session[c].slot \in Server!Slot /\ ServerTypes
    BY DEF TypedEvents, ServerTypes, SessionRec
  <1>1. UNCHANGED <<session, app>>
    BY DEF Server!TimerRuns, Server!TimerExpires, Server!TimerCloses, Server!TimerReleases
  <1>2. session'[c].pc = session[c].pc /\ session'[c].slot = session[c].slot /\ session[c].pc # "none"
    BY <1>1 DEF Served
  <1>3. CASE Server!TimerExpires(c)
    <2>1. UNCHANGED <<slot, net>> /\ timer'[c] # "release"
      BY <1>0, <1>3 DEF Server!TimerExpires
    <2>2. QED
      BY <1>1, <1>2, <2>1 DEF Served
  <1>4. CASE Server!TimerCloses(c)
    <2>1. net'[c].shut
      BY <1>0, <1>4, ClosesTyped DEF Server!TimerCloses, Served
    <2>2. QED
      BY <1>2, <2>1, ServedMoves
  <1>5. CASE Server!TimerReleases(c)
    <2>1. net'[c].shut /\ net[c].shut
      BY <1>5 DEF Server!TimerReleases, Server!Releases, Served
    <2>2. QED
      BY <1>2, <2>1, ServedMoves
  <1>6. QED
    BY <1>3, <1>4, <1>5 DEF Server!TimerRuns

(* No thread of the application gets to "pingrelease" but by PingCloses. *)
LEMMA AppMoves ==
  ASSUME Server!ServerAssumption, ServerTypes, NEW a \in App,
         \/ Server!Done(a) \/ Server!Onwards(a)
         \/ \E p \in {"starttimer", "ping", "pingclose"} : Server!Step(a, p)
         \/ \E q \in {"sendclose", "ping", "look"}, s \in Server!Slot, b \in BOOLEAN :
              app' = [app EXCEPT ![a] = [pc |-> q, slot |-> s, single |-> b]]
  PROVE  \A b \in App : app'[b].pc = "pingrelease" => app[b].pc = "pingrelease" /\ app'[b].slot = app[b].slot
  <1>1. app \in [App -> AppRec]
    BY DEF ServerTypes
  <1>2. \A b \in App : b # a => app'[b] = app[b]
    BY <1>1 DEF Server!Done, Server!Onwards, Server!Step
  <1>3. app'[a].pc # "pingrelease"
    <2>1. CASE Server!Done(a)
      BY <1>1, <2>1 DEF Server!Done, Server!Idle
    <2>2. CASE Server!Onwards(a) /\ ~Server!Done(a)
      BY <1>1, <2>2 DEF Server!Onwards, AppRec
    <2>3. CASE \E p \in {"starttimer", "ping", "pingclose"} : Server!Step(a, p)
      BY <1>1, <2>3 DEF Server!Step, AppRec
    <2>4. CASE \E q \in {"sendclose", "ping", "look"}, s \in Server!Slot, b \in BOOLEAN :
                 app' = [app EXCEPT ![a] = [pc |-> q, slot |-> s, single |-> b]]
      BY <1>1, <2>4
    <2>5. QED
      BY <2>1, <2>2, <2>3, <2>4
  <1>4. QED
    BY <1>2, <1>3

(* A call of the application, in terms of what it does to its thread. *)
LEMMA AppCalls ==
  ASSUME Server!ServerAssumption, TypedEvents, NEW a \in App,
         \/ Server!PingAllCalled(a)
         \/ \E c \in Server!Conns : Server!CloseCalled(a, c) \/ Server!PingCalled(a, c)
  PROVE  /\ UNCHANGED <<slot, session, timer, net>>
         /\ \E q \in {"sendclose", "ping", "look"}, s \in Server!Slot, b \in BOOLEAN :
              app' = [app EXCEPT ![a] = [pc |-> q, slot |-> s, single |-> b]]
  <1>1. \A c \in Server!Conns : session[c].slot \in Server!Slot
    BY DEF TypedEvents, ServerTypes, SessionRec
  <1>2. CASE Server!PingAllCalled(a)
    BY <1>2, SlotsAre DEF Server!PingAllCalled
  <1>3. CASE \E c \in Server!Conns : Server!CloseCalled(a, c)
    BY <1>1, <1>3 DEF Server!CloseCalled
  <1>4. CASE \E c \in Server!Conns : Server!PingCalled(a, c)
    BY <1>1, <1>4 DEF Server!PingCalled
  <1>5. QED
    BY <1>2, <1>3, <1>4

LEMMA AloneApp ==
  ASSUME Server!ServerAssumption, TypedEvents, TypedEvents', NEW c \in Server!Conns, Served(c), NEW a \in App,
         \/ Server!AppRuns(a) \/ Server!PingAllCalled(a)
         \/ \E d \in Server!Conns : Server!CloseCalled(a, d) \/ Server!PingCalled(a, d)
  PROVE  Served(c)'
  <1>0. /\ slot \in [Server!Slot -> SlotRec] /\ net \in [Server!Conns -> NetRec] /\ app \in [App -> AppRec]
        /\ timer \in [Server!Conns -> TimerPlace]
        /\ session[c].slot \in Server!Slot /\ app[a].slot \in Server!Slot /\ ServerTypes
    BY DEF TypedEvents, ServerTypes, SessionRec, AppRec
  <1> DEFINE s == session[c].slot
             r == app[a].slot
  <1>1. session' = session
    BY DEF Server!AppRuns, Server!SendsClose, Server!StartsTimeout, Server!LooksAt, Server!Pings, Server!PingCloses,
           Server!PingReleases, Server!PingAllCalled, Server!CloseCalled, Server!PingCalled
  <1>2. session'[c].pc = session[c].pc /\ session'[c].slot = s /\ session[c].pc # "none"
    BY <1>1 DEF Served
  <1>3. ASSUME net'[c].shut = net[c].shut, slot'[s].sock = slot[s].sock,
               slot'[s].state = "CLOSED" => slot[s].state = "CLOSED",
               timer'[c] = "release" => timer[c] = "release",
               \A b \in App : app'[b].pc = "pingrelease" => app[b].pc = "pingrelease" /\ app'[b].slot = app[b].slot
        PROVE  Served(c)'
    BY <1>2, <1>3 DEF Served
  <1>4. CASE \/ Server!PingAllCalled(a)
             \/ \E d \in Server!Conns : Server!CloseCalled(a, d) \/ Server!PingCalled(a, d)
    <2>1. UNCHANGED <<slot, timer, net>>
      BY <1>4, AppCalls
    <2>2. \A b \in App : app'[b].pc = "pingrelease" => app[b].pc = "pingrelease" /\ app'[b].slot = app[b].slot
      BY <1>0, <1>4, AppCalls, AppMoves
    <2>3. QED
      BY <1>3, <2>1, <2>2
  <1>5. CASE Server!SendsClose(a)
    <2>1. UNCHANGED <<slot, timer>>
          /\ \E sent \in Server!Sends(slot[r].sock) :
               IF sent THEN net' = Server!CountClose(slot[r].sock) /\ Server!Step(a, "starttimer")
                       ELSE Server!Done(a) /\ UNCHANGED net
      BY <1>5 DEF Server!SendsClose
    <2>2. \A b \in App : app'[b].pc = "pingrelease" => app[b].pc = "pingrelease" /\ app'[b].slot = app[b].slot
      BY <1>0, <2>1, AppMoves
    <2>3. net'[c].shut = net[c].shut
      <3>1. CASE net' = net
        BY <3>1
      <3>2. CASE slot[r].sock # Server!None /\ net' = Server!CountClose(slot[r].sock)
        BY <1>0, <3>2, SlotsAre, Counts DEF SlotRec
      <3>3. QED
        BY <2>1, <3>1, <3>2 DEF Server!Sends
    <2>4. QED
      BY <1>3, <2>1, <2>2, <2>3
  <1>6. CASE Server!StartsTimeout(a)
    <2>1. \A b \in App : app'[b].pc = "pingrelease" => app[b].pc = "pingrelease" /\ app'[b].slot = app[b].slot
      BY <1>0, <1>6, AppMoves DEF Server!StartsTimeout
    <2>2. slot'[s].sock = slot[s].sock /\ (slot'[s].state = "CLOSED" => slot[s].state = "CLOSED")
      <3>1. CASE slot' = [slot EXCEPT ![r].state = "CLOSING", ![r].timer = slot[r].sock]
        BY <1>0, <3>1 DEF SlotRec
      <3>2. CASE slot' = slot
        BY <3>2
      <3>3. QED
        BY <1>6, <3>1, <3>2 DEF Server!StartsTimeout
    <2>3. timer'[c] = "release" => timer[c] = "release"
      BY <1>0, <1>6 DEF Server!StartsTimeout
    <2>4. net'[c].shut = net[c].shut
      <3>1. net'[c] = [net[c] EXCEPT !.asked = net[c].asked \/ slot[r].sock = c]
        BY <1>6 DEF Server!StartsTimeout
      <3>2. net[c] \in NetRec
        BY <1>0
      <3>3. QED
        BY Zenon, <3>1, <3>2 DEF NetRec
    <2>5. QED
      BY <1>3, <2>1, <2>2, <2>3, <2>4
  <1>7. CASE Server!LooksAt(a)
    <2>1. UNCHANGED <<slot, timer, net>> /\ (Server!Step(a, "ping") \/ Server!Onwards(a))
      BY <1>7 DEF Server!LooksAt
    <2>2. \A b \in App : app'[b].pc = "pingrelease" => app[b].pc = "pingrelease" /\ app'[b].slot = app[b].slot
      BY <1>0, <2>1, AppMoves
    <2>3. QED
      BY <1>3, <2>1, <2>2
  <1>8. CASE Server!Pings(a)
    <2>1. UNCHANGED <<timer, net>> /\ slot' = [slot EXCEPT ![r].ping = @ + 1]
          /\ (Server!Step(a, "pingclose") \/ Server!Onwards(a))
      BY <1>8 DEF Server!Pings
    <2>2. \A b \in App : app'[b].pc = "pingrelease" => app[b].pc = "pingrelease" /\ app'[b].slot = app[b].slot
      BY <1>0, <2>1, AppMoves
    <2>3. slot'[s].sock = slot[s].sock /\ slot'[s].state = slot[s].state
      BY <1>0, <2>1 DEF SlotRec
    <2>4. QED
      BY <1>3, <2>1, <2>2, <2>3
  <1>9. CASE Server!PingCloses(a)
    <2>1. Server!ClosesSocket(r) /\ Server!Step(a, "pingrelease") /\ UNCHANGED timer
      BY <1>9 DEF Server!PingCloses
    <2>2. /\ \A q \in Server!Slot : slot'[q].sock = slot[q].sock
          /\ \A q \in Server!Slot : q # r => slot'[q].state = slot[q].state
          /\ net'[c].shut <=> net[c].shut \/ slot[r].sock = c
      BY <1>0, <2>1, ClosesTyped
    <2>3. CASE net'[c].shut
      BY <1>2, <2>3, ServedMoves
    <2>4. CASE ~net'[c].shut
      <3>1. ~net[c].shut /\ slot[r].sock # c /\ slot[s].sock = c
        BY <2>2, <2>4 DEF Served
      <3>2. r # s /\ slot'[s].sock = c /\ slot'[s].state = slot[s].state
        BY <1>0, <2>2, <3>1
      <3>3. \A b \in App : b # a => app'[b] = app[b]
        BY <1>0, <2>1 DEF Server!Step
      <3>4. app'[a].slot = r
        BY <1>0, <2>1 DEF Server!Step, AppRec
      <3>5. QED
        BY <1>2, <2>1, <3>1, <3>2, <3>3, <3>4 DEF Served
    <2>5. QED
      BY <2>3, <2>4
  <1>10. CASE Server!PingReleases(a)
    <2>1. Server!Releases(r) /\ Server!Onwards(a) /\ UNCHANGED timer /\ app[a].pc = "pingrelease"
      BY <1>10 DEF Server!PingReleases
    <2>2. /\ net' = net /\ \A q \in Server!Slot : slot'[q].state = slot[q].state
          /\ \A q \in Server!Slot : q # r => slot'[q].sock = slot[q].sock
      BY <1>0, <2>1, ReleasesTyped
    <2>3. CASE net[c].shut
      BY <1>2, <2>2, <2>3, ServedMoves
    <2>4. CASE ~net[c].shut
      <3>1. r # s
        BY <2>1, <2>4 DEF Served
      <3>2. \A b \in App : app'[b].pc = "pingrelease" => app[b].pc = "pingrelease" /\ app'[b].slot = app[b].slot
        BY <1>0, <2>1, AppMoves
      <3>3. QED
        BY <1>0, <1>3, <2>1, <2>2, <3>1, <3>2
    <2>5. QED
      BY <2>3, <2>4
  <1>11. QED
    BY <1>4, <1>5, <1>6, <1>7, <1>8, <1>9, <1>10 DEF Server!AppRuns

(* Before the connection the application finds no slot to work on. *)
LEMMA AwaitedApp ==
  ASSUME Server!ServerAssumption, \A d \in Server!Conns : session[d].pc = "none", TypedEvents,
         NEW c \in Server!Conns, Awaited(c), NEW a \in App,
         \/ Server!AppRuns(a) \/ Server!PingAllCalled(a)
         \/ \E d \in Server!Conns : Server!CloseCalled(a, d) \/ Server!PingCalled(a, d)
  PROVE  Awaited(c)'
  <1>0. app \in [App -> AppRec] /\ app[a].slot \in Server!Slot /\ app[a].pc \in {"idle", "look"}
    BY DEF TypedEvents, ServerTypes, AppRec, Awaited
  <1>1. ASSUME UNCHANGED <<slot, session, timer>>, \A b \in App : b # a => app'[b] = app[b],
               app'[a].pc \in {"idle", "look"}
        PROVE  Awaited(c)'
    BY <1>1 DEF Awaited
  <1>2. CASE Server!AppRuns(a)
    <2>1. Server!LooksAt(a)
      BY <1>0, <1>2 DEF Server!AppRuns, Server!SendsClose, Server!StartsTimeout, Server!Pings, Server!PingCloses,
                        Server!PingReleases
    <2>2. slot[app[a].slot].state = "CLOSED"
      BY <1>0 DEF Awaited
    <2>3. Server!Onwards(a) /\ UNCHANGED <<slot, session, timer>>
      BY <2>1, <2>2 DEF Server!LooksAt
    <2>4. app'[a].pc \in {"idle", "look"} /\ \A b \in App : b # a => app'[b] = app[b]
      <3>1. CASE Server!Done(a)
        BY <1>0, <3>1 DEF Server!Done, Server!Idle
      <3>2. CASE ~Server!Done(a)
        BY <1>0, <2>3, <3>2 DEF Server!Onwards, AppRec
      <3>3. QED
        BY <3>1, <3>2
    <2>5. QED
      BY <1>1, <2>3, <2>4
  <1>3. CASE Server!PingAllCalled(a)
    <2>1. UNCHANGED <<slot, session, timer>> /\ app' = [app EXCEPT ![a] = [pc |-> "look", slot |-> 1, single |-> FALSE]]
      BY <1>3 DEF Server!PingAllCalled
    <2>2. QED
      BY <1>0, <1>1, <2>1
  <1>4. CASE \E d \in Server!Conns : Server!CloseCalled(a, d) \/ Server!PingCalled(a, d)
    BY <1>4 DEF Server!CloseCalled, Server!PingCalled, Server!Known
  <1>5. QED
    BY <1>2, <1>3, <1>4

(* Only ws_accept gives a slot to a connection. *)
LEMMA SocksKept ==
  ASSUME Server!ServerAssumption, TypedEvents,
         \/ \E c \in Server!Conns : Server!SessionRuns(c) \/ Server!TimerRuns(c) \/ Server!Receives(c) \/ Server!PeerGoes(c)
         \/ \E a \in App : \/ Server!AppRuns(a) \/ Server!PingAllCalled(a)
                           \/ \E c \in Server!Conns : Server!CloseCalled(a, c) \/ Server!PingCalled(a, c)
  PROVE  \A r \in Server!Slot : slot'[r].sock \in {slot[r].sock, Server!None}
  <1>0. /\ slot \in [Server!Slot -> SlotRec] /\ ServerTypes
        /\ \A c \in Server!Conns : session[c].slot \in Server!Slot
        /\ \A a \in App : app[a].slot \in Server!Slot
    BY DEF TypedEvents, ServerTypes, SessionRec, AppRec
  <1>1. ASSUME NEW s \in Server!Slot, Server!ClosesSocket(s) \/ Server!Releases(s)
        PROVE  \A r \in Server!Slot : slot'[r].sock \in {slot[r].sock, Server!None}
    BY <1>0, <1>1, ClosesTyped, ReleasesTyped
  <1>2. ASSUME NEW c \in Server!Conns, Server!SessionRuns(c) \/ Server!TimerRuns(c) \/ Server!Receives(c) \/ Server!PeerGoes(c)
        PROVE  \A r \in Server!Slot : slot'[r].sock \in {slot[r].sock, Server!None}
    <2>1. \/ slot' = slot \/ Server!ClosesSocket(session[c].slot) \/ Server!Releases(session[c].slot)
          \/ \E st \in {"OPEN", "CLOSING"} : slot' = [slot EXCEPT ![session[c].slot].state = st]
          \/ \E n \in Nat : slot' = [slot EXCEPT ![session[c].slot].pong = n]
      <3>1. CASE Server!GetsPong(c)
        <4>1. PICK n \in 1 .. slot[session[c].slot].ping : slot' = [slot EXCEPT ![session[c].slot].pong = n]
          BY <3>1 DEF Server!GetsPong, Server!Mine
        <4>2. slot[session[c].slot].ping \in Nat
          BY <1>0 DEF SlotRec
        <4>3. n \in Nat
          BY <4>1, <4>2
        <4>4. QED
          BY <4>1, <4>3
      <3>2. CASE ~Server!GetsPong(c)
        BY <1>2, <3>2
        DEF Server!SessionRuns, Server!TimerRuns, Server!Receives, Server!PeerGoes, Server!Handshakes, Server!SetsOpen,
            Server!AnswersClose, Server!ReadFails, Server!CallsOnclose, Server!LooksForTimer, Server!JoinsTimer,
            Server!ClosesSession, Server!ReleasesSession, Server!BadFrame, Server!GetsClose, Server!TimerExpires,
            Server!TimerCloses, Server!TimerReleases
      <3>3. QED
        BY <3>1, <3>2
    <2>2. CASE Server!ClosesSocket(session[c].slot) \/ Server!Releases(session[c].slot)
      BY <1>0, <1>1, <2>2
    <2>3. CASE \E st \in {"OPEN", "CLOSING"} : slot' = [slot EXCEPT ![session[c].slot].state = st]
      <3>1. \A r \in Server!Slot : slot'[r].sock = slot[r].sock
        BY <1>0, <2>3 DEF SlotRec
      <3>2. QED
        BY <3>1
    <2>4. CASE \E n \in Nat : slot' = [slot EXCEPT ![session[c].slot].pong = n]
      <3>1. \A r \in Server!Slot : slot'[r].sock = slot[r].sock
        BY <1>0, <2>4 DEF SlotRec
      <3>2. QED
        BY <3>1
    <2>5. QED
      BY <2>1, <2>2, <2>3, <2>4
  <1>3. ASSUME NEW a \in App,
               \/ Server!AppRuns(a) \/ Server!PingAllCalled(a)
               \/ \E c \in Server!Conns : Server!CloseCalled(a, c) \/ Server!PingCalled(a, c)
        PROVE  \A r \in Server!Slot : slot'[r].sock \in {slot[r].sock, Server!None}
    <2> DEFINE s == app[a].slot
    <2>1. \/ slot' = slot \/ Server!ClosesSocket(s) \/ Server!Releases(s)
          \/ slot' = [slot EXCEPT ![s].state = "CLOSING", ![s].timer = slot[s].sock]
          \/ slot' = [slot EXCEPT ![s].ping = @ + 1]
      BY <1>3 DEF Server!AppRuns, Server!SendsClose, Server!StartsTimeout, Server!LooksAt, Server!Pings,
                  Server!PingCloses, Server!PingReleases, Server!PingAllCalled, Server!CloseCalled, Server!PingCalled
    <2>2. CASE Server!ClosesSocket(s) \/ Server!Releases(s)
      BY <1>0, <1>1, <2>2
    <2>3. CASE \/ slot' = slot
               \/ slot' = [slot EXCEPT ![s].state = "CLOSING", ![s].timer = slot[s].sock]
               \/ slot' = [slot EXCEPT ![s].ping = @ + 1]
      BY <1>0, <2>3 DEF SlotRec
    <2>4. QED
      BY <2>1, <2>2, <2>3
  <1>4. QED
    BY <1>2, <1>3

LEMMA AloneStep ==
  ASSUME Server!ServerAssumption, Alone, Connections(1)', TypedEvents, TypedEvents', [Server!Next]_(Server!vars)
  PROVE  Alone'
  <1>0. /\ session \in [Server!Conns -> SessionRec] /\ timer \in [Server!Conns -> TimerPlace]
        /\ slot' \in [Server!Slot -> SlotRec] /\ session' \in [Server!Conns -> SessionRec]
    BY DEF TypedEvents, ServerTypes
  <1>1. \A d \in Server!Conns : d > 1 => session[d].pc = "none" /\ session'[d].pc = "none" /\ timer[d] = "none"
    BY DEF Alone, Connections, Server!At
  <1>2. \A d \in Server!Conns : d = 1 \/ d > 1
    BY SlotsAre DEF Server!Conns
  <1>3. ASSUME NEW d \in Server!Conns, Server!Accepts(d) PROVE d = 1
    <2>1. session'[d].pc \in {"request", "ended"}
      BY <1>0, <1>3 DEF Server!Accepts, Server!Goto, SessionRec
    <2>2. QED
      BY <1>1, <1>2, <2>1
  <1>4. ASSUME NEW d \in Server!Conns, Server!SessionRuns(d) \/ Server!Receives(d) \/ Server!PeerGoes(d)
        PROVE  d = 1 /\ session[d].pc # "none"
    <2>1. session[d].pc # "none"
      BY <1>4 DEF Server!SessionRuns, Server!Receives, Server!PeerGoes, Server!Handshakes, Server!SetsOpen,
                  Server!AnswersClose, Server!ReadFails, Server!CallsOnclose, Server!LooksForTimer, Server!JoinsTimer,
                  Server!ClosesSession, Server!ReleasesSession, Server!BadFrame, Server!GetsPong, Server!GetsClose,
                  Server!At
    <2>2. QED
      BY <1>1, <1>2, <2>1
  <1>5. ASSUME NEW d \in Server!Conns, Server!TimerRuns(d) PROVE d = 1 /\ timer[d] # "none"
    BY <1>1, <1>2, <1>5 DEF Server!TimerRuns, Server!TimerExpires, Server!TimerCloses, Server!TimerReleases
  <1>6. \A r \in Server!Slot : slot'[r].sock \in {Server!None, 1}
    <2>0. \A r \in Server!Slot : slot[r].sock \in {Server!None, 1}
      BY DEF Alone
    <2>1. CASE \E c \in Server!Conns : Server!Accepts(c)
      <3>1. Server!Accepts(1)
        BY <1>3, <2>1
      <3>2. \/ slot' = slot
            \/ slot' = [slot EXCEPT ![Server!Min(Server!Free)] = [sock |-> 1, state |-> "CONNECTING",
                           timer |-> Server!None, ping |-> 0, pong |-> 0]]
        BY <3>1 DEF Server!Accepts
      <3>3. slot \in [Server!Slot -> SlotRec]
        BY DEF TypedEvents, ServerTypes
      <3>4. QED
        BY <2>0, <3>2, <3>3
    <2>2. CASE UNCHANGED Server!vars
      BY <2>0, <2>2 DEF Server!vars
    <2>3. CASE ~(\E c \in Server!Conns : Server!Accepts(c)) /\ ~UNCHANGED Server!vars
      <3>1. \A r \in Server!Slot : slot'[r].sock \in {slot[r].sock, Server!None}
        BY <2>3, SocksKept DEF Server!Next
      <3>2. QED
        BY <2>0, <3>1
    <2>4. QED
      BY <2>1, <2>2, <2>3
  <1>7. \A d \in Server!Conns : d > 1 => timer'[d] = "none"
    <2>1. CASE timer' = timer
      BY <1>1, <2>1
    <2>2. ASSUME NEW c \in Server!Conns, Server!TimerRuns(c) PROVE \A d \in Server!Conns : d > 1 => timer'[d] = "none"
      <3>1. \A d \in Server!Conns : d # c => timer'[d] = timer[d]
        BY <1>0, <2>2 DEF Server!TimerRuns, Server!TimerExpires, Server!TimerCloses, Server!TimerReleases
      <3>2. c = 1
        BY <1>5, <2>2
      <3>3. QED
        BY <1>1, <3>1, <3>2
    <2>3. ASSUME NEW a \in App, Server!StartsTimeout(a) PROVE \A d \in Server!Conns : d > 1 => timer'[d] = "none"
      <3>1. app[a].slot \in Server!Slot /\ slot[app[a].slot].sock \in {0, 1}
        BY DEF TypedEvents, ServerTypes, AppRec, Alone, Server!None
      <3>2. timer' = timer \/ timer' = [timer EXCEPT ![slot[app[a].slot].sock] = "waits"]
        BY <2>3 DEF Server!StartsTimeout
      <3>3. QED
        BY <1>0, <1>1, <3>1, <3>2
    <2>4. CASE UNCHANGED Server!vars
      BY <2>1, <2>4 DEF Server!vars
    <2>5. QED
      BY <2>1, <2>2, <2>3, <2>4
      DEF Server!Next, Server!Accepts, Server!PeerGoes, Server!SessionRuns, Server!Receives, Server!Handshakes,
          Server!SetsOpen, Server!AnswersClose, Server!ReadFails, Server!CallsOnclose, Server!LooksForTimer,
          Server!JoinsTimer, Server!ClosesSession, Server!ReleasesSession, Server!BadFrame, Server!GetsPong,
          Server!GetsClose, Server!AppRuns, Server!SendsClose, Server!LooksAt, Server!Pings, Server!PingCloses,
          Server!PingReleases, Server!PingAllCalled, Server!CloseCalled, Server!PingCalled
  <1>8. ASSUME 1 \in Server!Conns PROVE (Awaited(1) \/ Served(1))'
    <2>1. Awaited(1) \/ Served(1)
      BY <1>8 DEF Alone
    <2>2. CASE Server!Accepts(1)
      <3>1. Awaited(1)
        BY <2>1, <2>2 DEF Server!Accepts, Server!At, Served
      <3>2. QED
        BY <1>8, <2>2, <3>1, AloneAccepts
    <2>3. CASE Server!SessionRuns(1) \/ Server!Receives(1)
      BY <1>4, <1>8, <2>1, <2>3, AloneSession DEF Awaited
    <2>4. CASE Server!TimerRuns(1)
      BY <1>5, <1>8, <2>1, <2>4, AloneTimer DEF Awaited
    <2>5. CASE Server!PeerGoes(1)
      <3>1. session[1].pc # "none" /\ UNCHANGED <<slot, session, timer, app>> /\ net'[1].shut = net[1].shut
        BY <1>4, <1>8, <2>5, PeerTyped DEF Server!PeerGoes
      <3>2. QED
        BY <2>1, <3>1 DEF Awaited, Served
    <2>6. ASSUME NEW a \in App,
                 \/ Server!AppRuns(a) \/ Server!PingAllCalled(a)
                 \/ \E d \in Server!Conns : Server!CloseCalled(a, d) \/ Server!PingCalled(a, d)
          PROVE  (Awaited(1) \/ Served(1))'
      <3>1. CASE Served(1)
        BY <1>8, <2>6, <3>1, AloneApp
      <3>2. CASE Awaited(1)
        <4>1. \A d \in Server!Conns : session[d].pc = "none"
          BY <1>1, <1>2, <3>2 DEF Awaited
        <4>2. QED
          BY <1>8, <2>6, <3>2, <4>1, AwaitedApp
      <3>3. QED
        BY <2>1, <3>1, <3>2
    <2>7. CASE UNCHANGED Server!vars
      BY <2>1, <2>7 DEF Server!vars, Awaited, Served
    <2>8. ASSUME NEW d \in Server!Conns, \/ Server!Accepts(d) \/ Server!SessionRuns(d) \/ Server!TimerRuns(d)
                                        \/ Server!Receives(d) \/ Server!PeerGoes(d)
          PROVE  (Awaited(1) \/ Served(1))'
      <3>1. d = 1
        BY <1>3, <1>4, <1>5, <2>8
      <3>2. QED
        BY <2>2, <2>3, <2>4, <2>5, <2>8, <3>1
    <2>9. QED
      BY <2>6, <2>7, <2>8 DEF Server!Next
  <1>9. QED
    BY <1>1, <1>6, <1>7, <1>8 DEF Alone

LEMMA TypedStep ==
  ASSUME Server!ServerAssumption, TypedEvents, [Server!Next]_(Server!vars) PROVE TypedEvents'
  <1>1. CASE UNCHANGED Server!vars
    BY <1>1 DEF Server!vars, TypedEvents, ServerTypes, Events
  <1>2. CASE Server!Next
    BY <1>2, SessionTyped, TimerTyped, AppTyped, PeerTyped DEF Server!Next
  <1>3. QED
    BY <1>1, <1>2

(* The inductive invariant of the server: of all its parts types and       *)
(* events; of the one without calls that a session has its slot; of the    *)
(* one with one connection that the slot is its own or its socket is shut. *)
THEOREM ServerInvariant == AllSpec => []ServerInv
  <1>1. AllInit => ServerInv
    BY ServerStarts, PartsAssumption DEF AllInit
  <1>2. ServerInv /\ [AllNext]_<<part, vars, serverVars, frameVars, utf8Vars, fileVars>> => ServerInv'
    <2> SUFFICES ASSUME ServerInv, [AllNext]_<<part, vars, serverVars, frameVars, utf8Vars, fileVars>>
                 PROVE  ServerInv'
      OBVIOUS
    <2>1. part' = part
      BY DEF AllNext, BridgeNext, ServerNext, FramesNext, Utf8Next, FileNext
    <2>2. CASE UNCHANGED serverVars
      BY <2>1, <2>2 DEF serverVars, ServerInv, NoCalls, TypedEvents, ServerTypes, Events, Quiet, Alone, Awaited, Served
    <2>3. CASE ServerNext
      <3>1. Server!ServerAssumption /\ Server!Next
        BY <2>3, PartsAssumption DEF ServerNext
      <3>2. TypedEvents /\ TypedEvents'
        BY <3>1, TypedStep DEF ServerInv
      <3>3. part = "reuse" => NoCalls' /\ Quiet'
        BY <2>3, <3>1, <3>2, QuietStep DEF ServerInv, ServerNext
      <3>4. part = "close" => Alone'
        BY <2>3, <3>1, <3>2, AloneStep DEF ServerInv, ServerNext
      <3>5. QED
        BY <2>1, <3>2, <3>3, <3>4 DEF ServerInv
    <2>4. QED
      BY <2>2, <2>3 DEF AllNext, BridgeNext, FramesNext, Utf8Next, FileNext
  <1>3. QED
    BY <1>1, <1>2, PTL DEF AllSpec

(* Whatever the number of slots, of connections and of threads: each       *)
(* on_open has its one on_close, a slot that only sessions free belongs to *)
(* one of them (ws_accept, close_client), and where that is so, or no slot *)
(* is used again, a session that has ended has closed its socket, whoever  *)
(* had to close it (ws.c:1506).                                            *)
THEOREM ServerSoundAlways == AllSpec => []ServerSound
  <1>1. ServerInv => ServerSound
    BY ServerInvSound
  <1>2. QED
    BY <1>1, ServerInvariant, PTL

-----------------------------------------------------------------------------
(* The file's last byte of a start code is at p. *)
CodeAt(p) == p \in 3 .. Len(file) /\ file[p] = 1 /\ file[p - 1] = 0 /\ file[p - 2] = 0

(* What is left of the file is all of it or nothing, or it begins with a   *)
(* start code of three bytes or of four.                                   *)
Boundary ==
  \/ start = 1 \/ start = Len(file) + 1
  \/ CodeAt(start + 2)
  \/ CodeAt(start + 3) /\ file[start] = 0

FileInv ==
  /\ file \in Seq({0, 1, 9}) /\ start \in 1 .. Len(file) + 1
  /\ Boundary /\ FileCut

LEMMA CodesAre ==
  ASSUME file \in Seq({0, 1, 9}), NEW p \in 1 .. Len(file)
  PROVE  Nal!Code(p) <=> CodeAt(p)
  BY DEF Nal!Code, CodeAt

(* The least position of a set. *)
LEMMA LeastIs ==
  ASSUME NEW S, S \subseteq Nat, S # {}
  PROVE  Nal!Min(S) \in S /\ \A y \in S : Nal!Min(S) <= y
  <1>1. PICK x \in S : \A y \in S : ~(<<y, x>> \in OpToRel(<, Nat))
    BY NatLessThanWellFounded, WFMin, Zenon
  <1>2. ASSUME NEW y \in S, y < x PROVE FALSE
    BY <1>1, <1>2 DEF OpToRel
  <1>3. \A y \in S : x <= y
    <2> SUFFICES ASSUME NEW y \in S PROVE x <= y
      OBVIOUS
    <2>1. x \in Nat /\ y \in Nat /\ ~(y < x)
      BY <1>2
    <2>2. QED
      BY <2>1
  <1>4. QED
    BY <1>3 DEF Nal!Min

(* next_chunk finds the first start code from start on. *)
LEMMA BeginIs ==
  ASSUME FileInv, Nal!Begins # {}
  PROVE  LET b == Nal!Min(Nal!Begins)
         IN /\ CodeAt(b) /\ b >= start + 2
            /\ \A p \in start + 2 .. b - 1 : ~CodeAt(p)
  <1>1. Nal!Begins \subseteq start + 2 .. Len(file) /\ \A p \in start + 2 .. Len(file) : p \in Nal!Begins <=> CodeAt(p)
    <2>1. \A p \in start + 2 .. Len(file) : p \in 1 .. Len(file)
      BY DEF FileInv
    <2>2. QED
      BY <2>1, CodesAre DEF Nal!Begins, Nal!ScanFrom, FileInv
  <1>2. Nal!Begins \subseteq Nat
    BY <1>1 DEF FileInv
  <1>3. PICK b \in Nat : b = Nal!Min(Nal!Begins) /\ b \in Nal!Begins /\ \A y \in Nal!Begins : b <= y
    BY <1>2, LeastIs
  <1>4. \A p \in start + 2 .. b - 1 : ~CodeAt(p)
    <2> SUFFICES ASSUME NEW p \in start + 2 .. b - 1, CodeAt(p) PROVE FALSE
      OBVIOUS
    <2>1. p \in start + 2 .. Len(file)
      BY DEF CodeAt, FileInv
    <2>2. QED
      BY <1>1, <1>3, <2>1
  <1>5. QED
    BY <1>1, <1>3, <1>4

(* check_size, behind a start code: up to the end of the file, when no     *)
(* other start code follows, or up to the next one, which is of three      *)
(* bytes or of four.  The two do not overlap, for a start code ends with 1.*)
LEMMA SizeIs ==
  ASSUME FileInv, NEW b, CodeAt(b)
  PROVE  LET next == b + 1 + Nal!CheckSize(b + 1)
         IN \/ /\ Nal!Ends(b + 1) = {} /\ next = Len(file) + 1
               /\ \A p \in b + 1 .. Len(file) : ~CodeAt(p)
            \/ LET e == Nal!Min(Nal!Ends(b + 1))
               IN /\ Nal!Ends(b + 1) # {} /\ CodeAt(e) /\ e >= b + 3
                  /\ \A p \in b + 1 .. e - 1 : ~CodeAt(p)
                  /\ \/ next = e - 2
                     \/ next = e - 3 /\ file[e - 3] = 0 /\ e - 3 > b
  <1>1. PICK n \in Nat : n = Len(file) /\ b \in 3 .. n /\ file[b] = 1
    BY DEF FileInv, CodeAt
  <1>2. Nal!Ends(b + 1) \subseteq b + 1 .. n /\ \A p \in b + 1 .. n : p \in Nal!Ends(b + 1) <=> CodeAt(p)
    <2>1. \A p \in b + 1 .. n : p \in 1 .. Len(file)
      BY <1>1
    <2>2. QED
      BY <1>1, <2>1, CodesAre DEF Nal!Ends, FileInv
  <1>3. CASE Nal!Ends(b + 1) = {}
    <2>1. Nal!CheckSize(b + 1) = n - b
      BY <1>1, <1>3 DEF Nal!CheckSize
    <2>2. QED
      BY <1>1, <1>2, <1>3, <2>1
  <1>4. CASE Nal!Ends(b + 1) # {}
    <2>1. Nal!Ends(b + 1) \subseteq Nat
      BY <1>1, <1>2
    <2>2. PICK e \in b + 1 .. n : /\ e = Nal!Min(Nal!Ends(b + 1)) /\ CodeAt(e)
                                  /\ \A y \in Nal!Ends(b + 1) : e <= y
      BY <1>2, <1>4, <2>1, LeastIs
    <2>3. \A p \in b + 1 .. e - 1 : ~CodeAt(p)
      <3> SUFFICES ASSUME NEW p \in b + 1 .. e - 1, CodeAt(p) PROVE FALSE
        OBVIOUS
      <3>1. p \in b + 1 .. n
        BY <1>1, <2>2
      <3>2. p \in Nal!Ends(b + 1)
        BY <1>2, <3>1
      <3>3. QED
        BY <1>1, <2>2, <3>2
    <2>4. e >= b + 3
      <3>1. file[e - 1] = 0 /\ file[e - 2] = 0
        BY <2>2 DEF CodeAt
      <3>2. e # b + 1 /\ e # b + 2
        BY <1>1, <2>2, <3>1
      <3>3. QED
        BY <1>1, <2>2, <3>2
    <2>5. Nal!CheckSize(b + 1) = IF e - (b + 1) - 3 >= 0 /\ file[b + 1 + (e - (b + 1)) - 3] = 0
                                   THEN e - (b + 1) - 3 ELSE e - (b + 1) - 2
      BY <1>4, <2>2 DEF Nal!CheckSize
    <2>6. b + 1 + (e - (b + 1)) - 3 = e - 3
      BY <1>1, <2>2
    <2>7. \/ Nal!CheckSize(b + 1) = e - (b + 1) - 2
          \/ Nal!CheckSize(b + 1) = e - (b + 1) - 3 /\ file[e - 3] = 0 /\ e - (b + 1) - 3 >= 0
      BY <2>5, <2>6
    <2>8. \/ b + 1 + Nal!CheckSize(b + 1) = e - 2
          \/ b + 1 + Nal!CheckSize(b + 1) = e - 3 /\ file[e - 3] = 0 /\ e - 3 > b
      BY <1>1, <2>2, <2>7
    <2>9. /\ Nal!Ends(b + 1) # {} /\ CodeAt(Nal!Min(Nal!Ends(b + 1))) /\ Nal!Min(Nal!Ends(b + 1)) >= b + 3
          /\ \A p \in b + 1 .. Nal!Min(Nal!Ends(b + 1)) - 1 : ~CodeAt(p)
      BY <1>4, <2>2, <2>3, <2>4
    <2>10. QED
      BY <2>2, <2>8, <2>9
  <1>5. QED
    BY <1>3, <1>4
(* What the tests at a position read, from the third byte on or behind a   *)
(* byte that is 1, lies in the file.                                       *)
LEMMA LooksInFile ==
  ASSUME FileInv, NEW p \in 1 .. Len(file), p >= 3 \/ (p >= 2 /\ file[p - 1] # 0)
  PROVE  Nal!Looks(p) \subseteq 1 .. Len(file)
  BY DEF Nal!Looks, FileInv

(* A part of a sequence, one of three, and one of four. *)
LEMMA CutOut ==
  ASSUME NEW S, NEW s \in Seq(S), NEW i \in Nat, NEW j \in Nat, 1 <= i, i <= j + 1, j <= Len(s)
  PROVE  /\ SubSeq(s, i, j) \in Seq(S) /\ Len(SubSeq(s, i, j)) = j - i + 1
         /\ \A k \in 1 .. j - i + 1 : SubSeq(s, i, j)[k] = s[i + k - 1]
  <1>1. \A k \in i .. j : s[k] \in S
    OBVIOUS
  <1>2. SubSeq(s, i, j) \in Seq(S) /\ Len(SubSeq(s, i, j)) = IF i <= j THEN j - i + 1 ELSE 0
    BY <1>1, SubSeqProperties
  <1>3. \A k \in 1 .. j - i + 1 : SubSeq(s, i, j)[k] = s[i + k - 1]
    BY <1>1, SubSeqProperties
  <1>4. QED
    BY <1>2, <1>3

LEMMA ThreeOf ==
  ASSUME NEW q \in Seq(Int), Len(q) = 3
  PROVE  q = <<q[1], q[2], q[3]>>
  <1> DEFINE t == <<q[1], q[2], q[3]>>
  <1>1. q[1] \in Int /\ q[2] \in Int /\ q[3] \in Int
    <2>1. \A k \in 1 .. 3 : q[k] \in Int
      BY ElementOfSeq
    <2>2. 1 \in 1 .. 3 /\ 2 \in 1 .. 3 /\ 3 \in 1 .. 3
      OBVIOUS
    <2>3. QED
      BY <2>1, <2>2, Zenon
  <1>2. t \in Seq(Int) /\ Len(t) = 3 /\ t[1] = q[1] /\ t[2] = q[2] /\ t[3] = q[3]
    BY <1>1
  <1> HIDE DEF t
  <1>3. \A k \in 1 .. 3 : k = 1 \/ k = 2 \/ k = 3
    OBVIOUS
  <1>4. \A k \in 1 .. 3 : q[k] = t[k]
    BY <1>2, <1>3, Zenon
  <1>5. q = t
    BY <1>2, <1>4, SeqEqual
  <1>6. QED
    BY <1>5 DEF t

LEMMA FourOf ==
  ASSUME NEW q \in Seq(Int), Len(q) = 4
  PROVE  q = <<q[1], q[2], q[3], q[4]>>
  <1> DEFINE t == <<q[1], q[2], q[3], q[4]>>
  <1>1. q[1] \in Int /\ q[2] \in Int /\ q[3] \in Int /\ q[4] \in Int
    <2>1. \A k \in 1 .. 4 : q[k] \in Int
      BY ElementOfSeq
    <2>2. 1 \in 1 .. 4 /\ 2 \in 1 .. 4 /\ 3 \in 1 .. 4 /\ 4 \in 1 .. 4
      OBVIOUS
    <2>3. QED
      BY <2>1, <2>2, Zenon
  <1>2. t \in Seq(Int) /\ Len(t) = 4 /\ t[1] = q[1] /\ t[2] = q[2] /\ t[3] = q[3] /\ t[4] = q[4]
    BY <1>1
  <1> HIDE DEF t
  <1>3. \A k \in 1 .. 4 : k = 1 \/ k = 2 \/ k = 3 \/ k = 4
    OBVIOUS
  <1>4. \A k \in 1 .. 4 : q[k] = t[k]
    BY <1>2, <1>3, Zenon
  <1>5. q = t
    BY <1>2, <1>4, SeqEqual
  <1>6. QED
    BY <1>5 DEF t

(* A chunk is sent: the start code before it is all that lies between it   *)
(* and the chunk before, it holds none, and what is left begins with one.  *)
LEMMA SendsFileInv ==
  ASSUME FileInv, Nal!Sends PROVE FileInv'
  <1>1. Nal!Begins # {}
    BY DEF Nal!Sends, Nal!NextChunk
  <1>2. PICK b \in 3 .. Len(file) : /\ b = Nal!Min(Nal!Begins) /\ CodeAt(b) /\ b >= start + 2
                                    /\ \A p \in start + 2 .. b - 1 : ~CodeAt(p)
    BY <1>1, BeginIs DEF CodeAt
  <1>3. PICK n \in Nat : n = Len(file) /\ DOMAIN file = 1 .. n /\ b \in 3 .. n /\ start \in 1 .. n + 1
                         /\ file[b] = 1 /\ file[b - 1] = 0 /\ file[b - 2] = 0
    BY <1>2 DEF FileInv, CodeAt
  <1>4. /\ chunk' = [from |-> b + 1, size |-> Nal!CheckSize(b + 1)] /\ file' = file /\ before' = start - 1
        /\ start' = b + 1 + Nal!CheckSize(b + 1)
        /\ touched' = (UNION {Nal!Looks(p) : p \in start + 2 .. b})
                      \cup ((UNION {Nal!Looks(p) : p \in b + 1 .. IF Nal!Ends(b + 1) = {} THEN n
                                                                   ELSE Nal!Min(Nal!Ends(b + 1))})
                            \cup {b + 1})
    <2>1. Nal!NextChunk = [from |-> b + 1, size |-> Nal!CheckSize(b + 1)]
      BY <1>1, <1>2 DEF Nal!NextChunk
    <2>2. b + 1 # 0
      BY <1>3
    <2>3. QED
      BY <1>1, <1>2, <1>3, <2>1, <2>2 DEF Nal!Sends, Nal!Reads, Nal!ScanFrom
  <1> DEFINE next == b + 1 + Nal!CheckSize(b + 1)
             second == IF Nal!Ends(b + 1) = {} THEN n ELSE Nal!Min(Nal!Ends(b + 1))
  <1>5. /\ next \in b + 1 .. n + 1 /\ second \in Nat /\ second <= n
        /\ next = n + 1 \/ CodeAt(next + 2) \/ (CodeAt(next + 3) /\ file[next] = 0)
        /\ \A p \in b + 1 .. next - 1 : ~CodeAt(p)
        /\ Nal!CheckSize(b + 1) = next - (b + 1)
    <2>0. /\ b + 1 \in Nat /\ next = b + 1 + Nal!CheckSize(b + 1)
          /\ second = IF Nal!Ends(b + 1) = {} THEN n ELSE Nal!Min(Nal!Ends(b + 1))
      BY <1>3
    <2>1. Nal!CheckSize(b + 1) \in Int
      <3>1. Nal!Ends(b + 1) # {} => Nal!Min(Nal!Ends(b + 1)) \in Int
        BY <1>2, SizeIs DEF CodeAt
      <3>2. QED
        BY <1>3, <3>1 DEF Nal!CheckSize
    <2>2. CASE Nal!Ends(b + 1) = {}
      <3>1. next = n + 1 /\ \A p \in b + 1 .. n : ~CodeAt(p)
        BY <1>2, <1>3, <2>0, <2>2, SizeIs
      <3>2. second = n
        BY <2>0, <2>2
      <3> HIDE DEF next, second
      <3>3. next \in b + 1 .. n + 1 /\ next - 1 = n
        BY <1>3, <3>1
      <3>4. Nal!CheckSize(b + 1) = next - (b + 1)
        BY <1>3, <2>0, <2>1, <3>1
      <3>5. second \in Nat /\ second <= n
        BY <1>3, <3>2
      <3>6. QED
        BY <3>1, <3>3, <3>4, <3>5
    <2>3. CASE Nal!Ends(b + 1) # {}
      <3>1. PICK e \in 3 .. n : /\ second = e /\ CodeAt(e) /\ e >= b + 3
                                /\ \A p \in b + 1 .. e - 1 : ~CodeAt(p)
                                /\ next = e - 2 \/ (next = e - 3 /\ file[e - 3] = 0 /\ e - 3 > b)
        BY <1>2, <1>3, <2>0, <2>3, SizeIs DEF CodeAt
      <3> HIDE DEF next, second
      <3>2. next \in b + 1 .. n + 1 /\ second \in Nat /\ second <= n
        BY <1>3, <3>1
      <3>3. CodeAt(next + 2) \/ (CodeAt(next + 3) /\ file[next] = 0)
        <4>1. CASE next = e - 2
          <5>1. next + 2 = e
            BY <4>1
          <5>2. QED
            BY <3>1, <5>1
        <4>2. CASE next = e - 3 /\ file[e - 3] = 0
          <5>1. next + 3 = e
            BY <4>2
          <5>2. QED
            BY <3>1, <4>2, <5>1
        <4>3. QED
          BY <3>1, <4>1, <4>2
      <3>4. \A p \in b + 1 .. next - 1 : p \in b + 1 .. e - 1
        BY <1>3, <3>1
      <3>5. Nal!CheckSize(b + 1) = next - (b + 1)
        BY <1>3, <2>0, <2>1
      <3>6. QED
        BY <3>1, <3>2, <3>3, <3>4, <3>5
    <2>4. QED
      BY <2>2, <2>3
  <1> HIDE DEF next, second
  <1>6. file' \in Seq({0, 1, 9}) /\ start' \in 1 .. Len(file') + 1 /\ Boundary'
    <2>1. file' = file /\ start' = next
      BY <1>4 DEF next
    <2>2. next \in 1 .. n + 1
      BY <1>3, <1>5
    <2>3. QED
      BY <1>3, <1>5, <2>1, <2>2 DEF FileInv, Boundary, CodeAt
  <1>7. Nal!CutAtCodes'
    <2>1. /\ Nal!Gap' = SubSeq(file, start, b)
          /\ Nal!Content' = SubSeq(file, b + 1, next - 1)
      <3>1. before' + 1 = start /\ chunk'.from - 1 = b /\ chunk'.from = b + 1
        BY <1>3, <1>4
      <3>2. chunk'.from + chunk'.size - 1 = next - 1
        BY <1>3, <1>4, <1>5
      <3>3. QED
        BY <1>4, <3>1, <3>2 DEF Nal!Gap, Nal!Content
    <2>2. before' = 0 => \E c \in Nal!StartCode : Nal!IsSuffix(c, Nal!Gap')
      <3> SUFFICES ASSUME before' = 0 PROVE Nal!IsSuffix(<<0, 0, 1>>, SubSeq(file, start, b))
        BY <2>1 DEF Nal!StartCode
      <3>1. start = 1
        BY <1>3, <1>4
      <3> DEFINE s == SubSeq(file, 1, b)
      <3>2. Len(s) = b /\ \A i \in 1 .. b : s[i] = file[i]
        BY <1>3 DEF FileInv
      <3> HIDE DEF s
      <3>3. s \in Seq(Int)
        BY <1>3 DEF FileInv, s
      <3> DEFINE r == Nal!Reverse(s)
                 c == Nal!Reverse(<<0, 0, 1>>)
      <3>4. c \in Seq(Int) /\ Len(c) = 3 /\ c[1] = 1 /\ c[2] = 0 /\ c[3] = 0
        BY DEF Nal!Reverse
      <3>5. r \in Seq(Int) /\ Len(r) = b /\ r[1] = s[b] /\ r[2] = s[b - 1] /\ r[3] = s[b - 2]
        BY <1>3, <3>2, <3>3 DEF Nal!Reverse
      <3> HIDE DEF r, c
      <3>6. r[1] = 1 /\ r[2] = 0 /\ r[3] = 0
        BY <1>3, <3>2, <3>5
      <3>7. SubSeq(r, 1, 3) = <<1, 0, 0>> /\ SubSeq(c, 1, 3) = <<1, 0, 0>>
        <4>1. \A q \in Seq(Int) : Len(q) >= 3 /\ q[1] = 1 /\ q[2] = 0 /\ q[3] = 0
                                  => SubSeq(q, 1, 3) = <<1, 0, 0>>
          <5> SUFFICES ASSUME NEW q \in Seq(Int), Len(q) >= 3, q[1] = 1, q[2] = 0, q[3] = 0
                       PROVE  SubSeq(q, 1, 3) = <<1, 0, 0>>
            OBVIOUS
          <5> DEFINE u == SubSeq(q, 1, 3)
          <5>1. u \in Seq(Int) /\ Len(u) = 3 - 1 + 1 /\ \A k \in 1 .. 3 - 1 + 1 : u[k] = q[1 + k - 1]
            BY CutOut
          <5> HIDE DEF u
          <5>2. Len(u) = 3 /\ u[1] = 1 /\ u[2] = 0 /\ u[3] = 0
            BY <5>1
          <5>3. u = <<u[1], u[2], u[3]>>
            BY <5>1, <5>2, ThreeOf
          <5>4. u = <<1, 0, 0>>
            BY <5>2, <5>3, Zenon
          <5>5. QED
            BY <5>4 DEF u
        <4>2. Len(r) >= 3 /\ Len(c) >= 3
          BY <1>3, <3>4, <3>5
        <4>3. QED
          BY <3>4, <3>5, <3>6, <4>1, <4>2
      <3>8. Len(c) <= Len(r) /\ SubSeq(c, 1, Len(c)) = SubSeq(r, 1, Len(c))
        <4>1. Len(c) = 3 /\ Len(c) <= Len(r)
          BY <1>3, <3>4, <3>5
        <4>2. QED
          BY <3>7, <4>1
      <3>9. Nal!IsSuffix(<<0, 0, 1>>, s)
        BY <3>8 DEF Nal!IsSuffix, Nal!IsPrefix, r, c
      <3>10. QED
        BY <3>1, <3>9 DEF s
    <2>3. before' # 0 => Nal!Gap' \in Nal!StartCode
      <3> SUFFICES ASSUME start # 1 PROVE SubSeq(file, start, b) \in Nal!StartCode
        BY <1>3, <1>4, <2>1
      <3>0. file \in Seq(Int) /\ start \in Nat /\ start >= 1
        BY <1>3 DEF FileInv
      <3>1. start # n + 1
        BY <1>2, <1>3
      <3> DEFINE gap == SubSeq(file, start, b)
      <3>5. gap \in Seq(Int) /\ Len(gap) = b - start + 1 /\ \A k \in 1 .. b - start + 1 : gap[k] = file[start + k - 1]
        <4>1. b \in Nat /\ start <= b + 1 /\ b <= Len(file)
          BY <1>2, <1>3
        <4>2. QED
          BY <3>0, <4>1, CutOut
      <3> HIDE DEF gap
      <3>2. CASE CodeAt(start + 2)
        <4>1. b = start + 2
          BY <1>2, <1>3, <3>2
        <4>2. file[start] = 0 /\ file[start + 1] = 0 /\ file[start + 2] = 1
          BY <1>3, <3>0, <4>1
        <4>3. /\ b - start + 1 = 3 /\ 1 \in 1 .. 3 /\ 2 \in 1 .. 3 /\ 3 \in 1 .. 3
              /\ start + 1 - 1 = start /\ start + 2 - 1 = start + 1 /\ start + 3 - 1 = start + 2
          BY <3>0, <4>1
        <4>8. Len(gap) = 3 /\ \A k \in 1 .. 3 : gap[k] = file[start + k - 1]
          BY <3>5, <4>3
        <4>9. /\ gap[1] = file[start + 1 - 1] /\ gap[2] = file[start + 2 - 1]
              /\ gap[3] = file[start + 3 - 1]
          BY <4>3, <4>8, Zenon
        <4>4. Len(gap) = 3 /\ gap[1] = 0 /\ gap[2] = 0 /\ gap[3] = 1
          BY <4>2, <4>3, <4>8, <4>9
        <4>5. gap = <<gap[1], gap[2], gap[3]>>
          BY <3>5, <4>4, ThreeOf
        <4>6. gap = <<0, 0, 1>>
          BY <4>4, <4>5, Zenon
        <4>7. QED
          BY <4>6 DEF Nal!StartCode, gap
      <3>3. CASE CodeAt(start + 3) /\ file[start] = 0
        <4>1. file[start + 3] = 1 /\ file[start + 2] = 0 /\ file[start + 1] = 0 /\ start + 3 <= n
          BY <1>3, <3>0, <3>3 DEF CodeAt
        <4>2. b = start + 3
          <5>1. b <= start + 3
            BY <1>2, <1>3, <3>0, <3>3
          <5>2. b # start + 2
            BY <1>3, <4>1
          <5>3. QED
            BY <1>2, <1>3, <5>1, <5>2
        <4>3. /\ b - start + 1 = 4 /\ 1 \in 1 .. 4 /\ 2 \in 1 .. 4 /\ 3 \in 1 .. 4 /\ 4 \in 1 .. 4
              /\ start + 1 - 1 = start /\ start + 2 - 1 = start + 1 /\ start + 3 - 1 = start + 2
              /\ start + 4 - 1 = start + 3
          BY <3>0, <4>2
        <4>4. Len(gap) = 4 /\ gap[1] = 0 /\ gap[2] = 0 /\ gap[3] = 0 /\ gap[4] = 1
          <5>1. \A k \in 1 .. 4 : gap[k] = file[start + k - 1]
            BY <3>5, <4>3, Zenon
          <5>2. gap[1] = file[start] /\ gap[2] = file[start + 1]
            BY <4>3, <5>1, Zenon
          <5>3. gap[3] = file[start + 2] /\ gap[4] = file[start + 3]
            BY <4>3, <5>1, Zenon
          <5>4. QED
            BY <3>3, <3>5, <4>1, <4>3, <5>2, <5>3, Zenon
        <4>5. gap = <<gap[1], gap[2], gap[3], gap[4]>>
          BY <3>5, <4>4, FourOf
        <4>6. gap = <<0, 0, 0, 1>>
          BY <4>4, <4>5, Zenon
        <4>7. QED
          BY <4>6 DEF Nal!StartCode, gap
      <3>4. QED
        BY <1>3, <3>1, <3>2, <3>3 DEF Boundary, FileInv
    <2>4. ~Nal!Holds(Nal!Content', <<0, 0, 1>>)
      <3> DEFINE s == SubSeq(file, b + 1, next - 1)
      <3>1. /\ s \in Seq({0, 1, 9}) /\ Len(s) = next - b - 1
            /\ \A i \in 1 .. next - b - 1 : s[i] = file[b + i]
        <4>1. b + 1 \in Nat /\ next - 1 \in Nat /\ 1 <= b + 1 /\ b + 1 <= next - 1 + 1 /\ next - 1 <= Len(file)
          BY <1>3, <1>5
        <4>2. /\ s \in Seq({0, 1, 9}) /\ Len(s) = next - 1 - (b + 1) + 1
              /\ \A i \in 1 .. next - 1 - (b + 1) + 1 : s[i] = file[b + 1 + i - 1]
          BY <4>1, CutOut DEF FileInv
        <4>3. next - 1 - (b + 1) + 1 = next - b - 1
          BY <1>3, <1>5
        <4>4. \A i \in 1 .. next - b - 1 : b + 1 + i - 1 = b + i
          BY <1>3
        <4>5. QED
          BY <4>2, <4>3, <4>4
      <3> HIDE DEF s
      <3>2. SUFFICES ASSUME NEW i \in 1 .. Len(s), i + 2 <= Len(s), SubSeq(s, i, i + 2) = <<0, 0, 1>>
                     PROVE  FALSE
        <4>1. \A i \in 1 .. Len(s) : i + Len(<<0, 0, 1>>) - 1 = i + 2
          BY <1>3, <1>5, <3>1
        <4>2. QED
          BY <2>1, <4>1 DEF Nal!Holds, s
      <3>3. s[i] = 0 /\ s[i + 1] = 0 /\ s[i + 2] = 1
        <4>1. s \in Seq(Int) /\ i \in Nat /\ 1 <= i
          BY <3>1
        <4>2. \A k \in 1 .. 3 : SubSeq(s, i, i + 2)[k] = s[i + k - 1]
          BY <3>1, <3>2, CutOut
        <4>3. s[i] = SubSeq(s, i, i + 2)[1] /\ s[i + 1] = SubSeq(s, i, i + 2)[2]
              /\ s[i + 2] = SubSeq(s, i, i + 2)[3]
          BY <4>2
        <4>4. <<0, 0, 1>>[1] = 0 /\ <<0, 0, 1>>[2] = 0 /\ <<0, 0, 1>>[3] = 1
          OBVIOUS
        <4>5. QED
          BY <3>2, <4>3, <4>4, Zenon
      <3>4. file[b + i] = 0 /\ file[b + i + 1] = 0 /\ file[b + i + 2] = 1
        <4>1. /\ i \in 1 .. next - b - 1 /\ i + 1 \in 1 .. next - b - 1 /\ i + 2 \in 1 .. next - b - 1
              /\ b + (i + 1) = b + i + 1 /\ b + (i + 2) = b + i + 2
          BY <1>3, <1>5, <3>1, <3>2
        <4>2. QED
          BY <3>1, <3>3, <4>1
      <3>5. CodeAt(b + i + 2)
        BY <1>3, <1>5, <3>1, <3>2, <3>4 DEF CodeAt
      <3>6. b + i + 2 \in b + 1 .. next - 1
        BY <1>3, <1>5, <3>1, <3>2
      <3>7. QED
        BY <1>5, <3>5, <3>6
    <2>5. QED
      BY <2>2, <2>3, <2>4 DEF Nal!CutAtCodes
  <1>8. Nal!ReadsInFile'
    <2>1. \A p \in start + 2 .. b : Nal!Looks(p) \subseteq 1 .. n
      BY <1>3, LooksInFile
    <2>2. \A p \in b + 1 .. second : Nal!Looks(p) \subseteq 1 .. n
      <3> SUFFICES ASSUME NEW p \in b + 1 .. second PROVE Nal!Looks(p) \subseteq 1 .. n
        OBVIOUS
      <3>1. p \in 1 .. n /\ p >= 3
        BY <1>3, <1>5
      <3>2. QED
        BY <1>3, <3>1, LooksInFile
    <2>3. b + 1 \in 1 .. n \/ (b + 1 = n + 1 /\ chunk'.size = 0)
      BY <1>3, <1>4, <1>5
    <2>4. touched' = (UNION {Nal!Looks(p) : p \in start + 2 .. b})
                     \cup ((UNION {Nal!Looks(p) : p \in b + 1 .. second}) \cup {b + 1})
      BY <1>4 DEF second
    <2>5. \A p \in touched' : p \in 1 .. n \/ (p = n + 1 /\ chunk'.size = 0)
      BY <2>1, <2>2, <2>3, <2>4
    <2>6. QED
      BY <1>3, <1>4, <2>5 DEF Nal!ReadsInFile
  <1>9. QED
    BY <1>6, <1>7, <1>8 DEF FileInv, FileCut

(* No start code is left, and the file begins again. *)
LEMMA StartsAgainFileInv ==
  ASSUME FileInv, Nal!StartsAgain PROVE FileInv'
  <1>1. PICK n \in Nat : n = Len(file) /\ DOMAIN file = 1 .. n /\ start \in 1 .. n + 1
    BY DEF FileInv
  <1>2. Nal!Begins = {}
    <2> SUFFICES ASSUME Nal!Begins # {} PROVE FALSE
      OBVIOUS
    <2>1. PICK b \in 3 .. Len(file) : b = Nal!Min(Nal!Begins)
      BY BeginIs DEF CodeAt
    <2>2. Nal!NextChunk.from = b + 1
      BY <2>1 DEF Nal!NextChunk
    <2>3. QED
      BY <1>1, <2>1, <2>2 DEF Nal!StartsAgain, Nal!NoChunk
  <1>3. file' = file /\ start' = 1 /\ chunk' = Nal!NoChunk
        /\ touched' = UNION {Nal!Looks(p) : p \in start + 2 .. n}
    BY <1>1, <1>2 DEF Nal!StartsAgain, Nal!Reads, Nal!ScanFrom, Nal!NoChunk
  <1>4. \A p \in start + 2 .. n : Nal!Looks(p) \subseteq 1 .. n
    BY <1>1, LooksInFile
  <1>5. Nal!ReadsInFile'
    BY <1>1, <1>3, <1>4 DEF Nal!ReadsInFile
  <1>6. QED
    BY <1>1, <1>3, <1>5 DEF FileInv, FileCut, Boundary, Nal!CutAtCodes

LEMMA FileStarts == ASSUME AllInit PROVE FileInv
  <1>1. file \in Seq({0, 1, 9}) /\ start = 1 /\ chunk = Nal!NoChunk /\ touched = {}
    <2>1. CASE part = "file"
      <3>1. PICK m \in 0 .. MaxFile : file \in [1 .. m -> {0, 1, 9}]
        BY <2>1 DEF AllInit, Nal!Init, Nal!BoundedSeq, Nal!SeqOf, Nal!Bytes
      <3>2. m \in Nat
        BY PartsAssumption
      <3>3. QED
        BY <2>1, <3>1, <3>2 DEF AllInit, Nal!Init
    <2>2. CASE part # "file"
      BY <2>2 DEF AllInit
    <2>3. QED
      BY <2>1, <2>2
  <1>2. QED
    BY <1>1 DEF FileInv, FileCut, Boundary, Nal!CutAtCodes, Nal!ReadsInFile

(* Whatever the bytes and the length of the file: next_chunk and           *)
(* check_size cut it exactly at its start codes, nothing between two of    *)
(* them is lost or sent twice, and nothing outside the file is read but    *)
(* one byte behind a file that ends with a start code.                     *)
THEOREM FileCutAlways == AllSpec => []FileCut
  <1>1. AllInit => FileInv
    BY FileStarts
  <1>2. FileInv /\ [AllNext]_<<part, vars, serverVars, frameVars, utf8Vars, fileVars>> => FileInv'
    <2> SUFFICES ASSUME FileInv, [AllNext]_<<part, vars, serverVars, frameVars, utf8Vars, fileVars>>
                 PROVE  FileInv'
      OBVIOUS
    <2>1. CASE UNCHANGED fileVars
      BY <2>1 DEF fileVars, FileInv, FileCut, Boundary, CodeAt, Nal!CutAtCodes, Nal!ReadsInFile, Nal!Gap,
                  Nal!Content
    <2>2. CASE FileNext
      BY <2>2, SendsFileInv, StartsAgainFileInv DEF FileNext, Nal!Next
    <2>3. QED
      BY <2>1, <2>2 DEF AllNext, BridgeNext, ServerNext, FramesNext, Utf8Next
  <1>3. FileInv => FileCut
    BY DEF FileInv
  <1>4. QED
    BY <1>1, <1>2, <1>3, PTL DEF AllSpec
=============================================================================
