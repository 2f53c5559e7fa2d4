--------------------------- MODULE FirmwareProofs ---------------------------
(***************************************************************************)
(* The firmware's connection to wsh264, for every number of configuration  *)
(* packets and frames, every retry interval and every width of the tick    *)
(* counter: a connection made from a replaced configuration is always      *)
(* about to be closed, no unit of the connection is lost, repeated or      *)
(* mixed with one of an earlier connection, no socket leaks, and attempts  *)
(* keep their distance.  And the start of the system in either build.      *)
(***************************************************************************)
EXTENDS FirmwareParts, SequenceTheorems, TLAPS

-----------------------------------------------------------------------------
(* What travels: the numbered headers and payloads of a connection.        *)
Unit == [conn : {0, 1}, num : Nat, kind : Kinds \cup {"rest"}]

(* What the server sent and the task has still to take.                    *)
Untaken == pre \o wire

(* s holds the units of the connection from the given one to the last.     *)
Follows(s, taken) ==
  /\ Len(s) = sent - taken
  /\ \A i \in 1 .. Len(s) : s[i].conn = conn /\ s[i].num = taken + i

(* The flags have Boolean values. *)
Flags ==
  /\ reconnect \in BOOLEAN /\ sock \in BOOLEAN /\ connected \in BOOLEAN
  /\ shut \in BOOLEAN /\ wifi \in BOOLEAN

(* The types of the rest of the state. *)
Counters ==
  /\ cfg \in 0 .. Configs /\ upCfg \in 0 .. Configs
  /\ pc \in {"top", "clear", "wifi", "snapshot", "dial", "reply", "start", "poll", "header",
             "payload", "delay"}
  /\ since \in 0 .. W - 1 /\ rest \in 0 .. Retry
  /\ conn \in {0, 1} /\ sent \in 0 .. 2 * Frames /\ handled \in 0 .. 2 * Frames
  /\ nonce \in {2, conn}

Queues == pre \in Seq(Unit) /\ wire \in Seq(Unit)

(* The task's place tells whether there is a connection, and a socket; the *)
(* flag to reconnect is only cleared when there is none.                   *)
Placed ==
  /\ pc \in {"clear", "snapshot", "dial", "reply"} => ~connected
  /\ pc \in {"start", "header", "payload"} => connected
  /\ pc = "dial" => nonce = 2
  /\ ~connected => pre = <<>>
  /\ SocketOwned

(* From the answer to the dialling on, what is still to be taken follows   *)
(* what was taken.                                                         *)
Streaming ==
  /\ connected \/ pc = "reply" => Follows(Untaken, handled)
  /\ pc = "payload" => frame.conn = conn /\ frame.num = handled

(* Until the interval is over, the distance to the next attempt is what is *)
(* left of it.                                                             *)
Paced == rest < Retry => since = W - Retry + rest

(* The inductive invariant. *)
UpstreamInv == Flags /\ Counters /\ Queues /\ Placed /\ Streaming /\ StaleFlagged /\ Paced

-----------------------------------------------------------------------------
(* An empty prebuffer. *)
LEMMA NothingYet == <<>> \in Seq(Unit)
  OBVIOUS

(* Reading a unit takes the first of those that are left, from the         *)
(* prebuffer or from the socket (gateway_upstream_read_some).              *)
LEMMA TakesFirst ==
  ASSUME Queues, NEW u, Reads(u)
  PROVE  /\ Queues' /\ u \in Unit /\ Len(Untaken) > 0 /\ u = Untaken[1]
         /\ Len(Untaken') = Len(Untaken) - 1
         /\ \A i \in 1 .. Len(Untaken) - 1 : Untaken'[i] = Untaken[i + 1]
         /\ pre = <<>> => pre' = <<>>
  <1> USE DEF Queues, Untaken
  <1>1. CASE pre # <<>>
    <2>1. u = Head(pre) /\ pre' = Tail(pre) /\ wire' = wire
      BY <1>1 DEF Reads
    <2>2. pre' \in Seq(Unit) /\ Len(pre) > 0 /\ Len(pre') = Len(pre) - 1
          /\ \A i \in 1 .. Len(pre) - 1 : pre'[i] = pre[i + 1]
      BY <2>1, <1>1
    <2>3. u = pre[1] /\ u \in Unit
      BY <2>1, <1>1
    <2>4. QED
      BY <1>1, <2>1, <2>2, <2>3, ConcatProperties
  <1>2. CASE pre = <<>>
    <2>1. wire # <<>> /\ u = Head(wire) /\ wire' = Tail(wire) /\ pre' = pre
      BY <1>2 DEF Reads
    <2>2. pre \o wire = wire /\ pre' \o wire' = wire'
      BY <2>1, <1>2, ConcatEmptySeq
    <2>3. QED
      BY <1>2, <2>1, <2>2
  <1>3. QED
    BY <1>1, <1>2

(* Two parts of a sequence, put together again. *)
LEMMA Rejoins ==
  ASSUME NEW s \in Seq(Unit), NEW p \in Seq(Unit), NEW q \in Seq(Unit), NEW n \in 0 .. Len(s),
         Len(p) = n, Len(q) = Len(s) - n,
         \A i \in 1 .. n : p[i] = s[i], \A i \in 1 .. Len(s) - n : q[i] = s[n + i]
  PROVE  p \o q = s
  <1>1. /\ p \o q \in Seq(Unit) /\ Len(p \o q) = Len(p) + Len(q)
        /\ \A i \in 1 .. Len(p) + Len(q) :
             (p \o q)[i] = IF i <= Len(p) THEN p[i] ELSE q[i - Len(p)]
    BY ConcatProperties, Zenon
  <1>2. Len(p \o q) = Len(s)
    BY <1>1
  <1>3. ASSUME NEW i \in 1 .. Len(p \o q) PROVE (p \o q)[i] = s[i]
    <2>1. CASE i <= n
      BY <1>1, <1>2, <2>1
    <2>2. CASE i > n
      <3>1. i - n \in 1 .. Len(s) - n /\ n + (i - n) = i
        BY <1>2, <2>2
      <3>2. q[i - n] = s[i]
        BY <3>1
      <3>3. QED
        BY <1>1, <1>2, <2>2, <3>2
    <2>3. QED
      BY <2>1, <2>2
  <1>4. QED
    BY <1>1, <1>2, <1>3, SeqEqual, Zenon

(* What the handshake's last read had beyond the reply and what is still   *)
(* in the socket are together what was there (gateway_upstream_connect).   *)
LEMMA KeepsRest ==
  ASSUME NEW s \in Seq(Unit), NEW n \in 0 .. Len(s), NEW p,
         p = IF n = 0 THEN <<>> ELSE SubSeq(s, 1, n)
  PROVE  /\ p \in Seq(Unit) /\ SubSeq(s, n + 1, Len(s)) \in Seq(Unit)
         /\ p \o SubSeq(s, n + 1, Len(s)) = s
  <1> DEFINE q == SubSeq(s, n + 1, Len(s))
  <1>1. q \in Seq(Unit) /\ Len(q) = Len(s) - n /\ \A i \in 1 .. Len(s) - n : q[i] = s[n + i]
    OBVIOUS
  <1>2. p \in Seq(Unit) /\ Len(p) = n /\ \A i \in 1 .. n : p[i] = s[i]
    <2>1. CASE n = 0
      <3>1. p = <<>>
        BY <2>1
      <3>2. QED
        BY <2>1, <3>1, EmptySeq
    <2>2. CASE n # 0
      <3>1. p = SubSeq(s, 1, n) /\ n \in 1 .. Len(s)
        BY <2>2
      <3>2. QED
        BY <3>1
    <2>3. QED
      BY <2>1, <2>2
  <1>3. p \o q = s
    BY <1>1, <1>2, Rejoins
  <1>4. QED
    BY <1>1, <1>2, <1>3

(* A tick of the counter, which wraps at W. *)
LEMMA Ticks ==
  ASSUME NEW n \in 0 .. W - 1
  PROVE  (n + 1) % W = IF n + 1 = W THEN 0 ELSE n + 1
  BY UpstreamAssumption

-----------------------------------------------------------------------------
(* Nothing is configured or connected at the start.                        *)
LEMMA InitInv == Init => UpstreamInv
  <1>1. SUFFICES ASSUME Init PROVE UpstreamInv
    OBVIOUS
  <1>2. Flags
    BY <1>1, Zenon DEF Init, Flags
  <1>3. Counters /\ Queues /\ Paced
    BY <1>1, UpstreamAssumption DEF Init, Counters, Queues, Paced
  <1>4. Placed /\ Streaming /\ StaleFlagged
    BY <1>1 DEF Init, Placed, SocketOwned, Streaming, StaleFlagged
  <1>5. QED
    BY <1>2, <1>3, <1>4 DEF UpstreamInv

(* The flags only ever get Boolean values. *)
LEMMA FlagsStay ==
  ASSUME Flags, [Next]_vars
  PROVE  Flags'
  <1> USE DEF Flags, up, peer, Close, Fails
  <1>1. CASE UNCHANGED vars
    BY <1>1, Zenon DEF vars
  <1>2. CASE ApplyUsbConfig \/ Sends \/ PeerCloses \/ WifiChanges \/ Blocks
    BY <1>2, Zenon DEF ApplyUsbConfig, Sends, PeerCloses, WifiChanges, Blocks
  <1>3. CASE SeesRequest \/ ClearsRequest \/ ChecksWifi \/ Snapshots
    BY <1>3, Zenon DEF SeesRequest, ClearsRequest, ChecksWifi, Snapshots
  <1>4. CASE Dials \/ Replied \/ Starts \/ Delays
    BY <1>4, Zenon DEF Dials, Replied, Starts, Delays
  <1>5. CASE Polls \/ ReadsHeader \/ ReadsPayload \/ ReadFails
    BY <1>5, Zenon DEF Polls, ReadsHeader, ReadsPayload, ReadFails
  <1>6. QED
    BY <1>1, <1>2, <1>3, <1>4, <1>5 DEF Next, Task

(* The steps that leave what is left to be taken alone. *)
QuietStep ==
  \/ ApplyUsbConfig \/ SeesRequest \/ ClearsRequest \/ ChecksWifi \/ Snapshots \/ Starts
  \/ Polls \/ Delays \/ PeerCloses \/ WifiChanges \/ Blocks

(* The callback, the clock, the closing and what only looks. *)
LEMMA QuietInv ==
  ASSUME UpstreamInv, QuietStep
  PROVE  Counters' /\ Queues' /\ Placed' /\ Streaming' /\ StaleFlagged' /\ Paced'
  <1> USE UpstreamAssumption DEF UpstreamInv, Close, ForgetNonce, up, peer
  <1>1. CASE ApplyUsbConfig
    <2>1. Counters'
      BY <1>1 DEF ApplyUsbConfig, Counters
    <2>2. Queues'
      BY <1>1 DEF ApplyUsbConfig, Queues, Placed
    <2>3. Placed'
      BY <1>1 DEF ApplyUsbConfig, Placed, SocketOwned, Flags, Counters
    <2>4. Streaming'
      BY <1>1 DEF ApplyUsbConfig, Streaming, Follows, Untaken, Placed, SocketOwned
    <2>5. StaleFlagged'
      BY <1>1 DEF ApplyUsbConfig, StaleFlagged, Placed, SocketOwned, Flags
    <2>6. Paced'
      BY <1>1 DEF ApplyUsbConfig, Paced, Counters
    <2>7. QED
      BY <2>1, <2>2, <2>3, <2>4, <2>5, <2>6
  <1>2. CASE SeesRequest
    <2>1. Counters'
      BY <1>2 DEF SeesRequest, Counters
    <2>2. Queues'
      BY <1>2, NothingYet DEF SeesRequest, Queues, Placed
    <2>3. Placed'
      BY <1>2 DEF SeesRequest, Placed, SocketOwned, Flags, Counters
    <2>4. Streaming'
      BY <1>2 DEF SeesRequest, Streaming, Follows, Untaken, Placed, SocketOwned
    <2>5. StaleFlagged'
      BY <1>2 DEF SeesRequest, StaleFlagged, Placed, SocketOwned, Flags
    <2>6. Paced'
      BY <1>2 DEF SeesRequest, Paced, Counters
    <2>7. QED
      BY <2>1, <2>2, <2>3, <2>4, <2>5, <2>6
  <1>3. CASE ClearsRequest
    <2>1. Counters'
      BY <1>3 DEF ClearsRequest, Counters
    <2>2. Queues'
      BY <1>3 DEF ClearsRequest, Queues, Placed
    <2>3. Placed'
      BY <1>3 DEF ClearsRequest, Placed, SocketOwned, Flags, Counters
    <2>4. Streaming'
      BY <1>3 DEF ClearsRequest, Streaming, Follows, Untaken, Placed, SocketOwned
    <2>5. StaleFlagged'
      BY <1>3 DEF ClearsRequest, StaleFlagged, Placed, SocketOwned, Flags
    <2>6. Paced'
      BY <1>3 DEF ClearsRequest, Paced, Counters
    <2>7. QED
      BY <2>1, <2>2, <2>3, <2>4, <2>5, <2>6
  <1>4. CASE ChecksWifi
    <2>1. Counters'
      BY <1>4 DEF ChecksWifi, MayConnect, Counters
    <2>2. Queues'
      BY <1>4 DEF ChecksWifi, MayConnect, Queues, Placed
    <2>3. Placed'
      BY <1>4 DEF ChecksWifi, MayConnect, Placed, SocketOwned, Flags, Counters
    <2>4. Streaming'
      BY <1>4 DEF ChecksWifi, MayConnect, Streaming, Follows, Untaken, Placed, SocketOwned
    <2>5. StaleFlagged'
      BY <1>4 DEF ChecksWifi, MayConnect, StaleFlagged, Placed, SocketOwned, Flags
    <2>6. Paced'
      BY <1>4 DEF ChecksWifi, MayConnect, Paced, Counters
    <2>7. QED
      BY <2>1, <2>2, <2>3, <2>4, <2>5, <2>6
  <1>5. CASE Snapshots
    <2>1. Counters'
      BY <1>5 DEF Snapshots, Counters
    <2>2. Queues'
      BY <1>5 DEF Snapshots, Queues, Placed
    <2>3. Placed'
      BY <1>5 DEF Snapshots, Placed, SocketOwned, Flags, Counters
    <2>4. Streaming'
      BY <1>5 DEF Snapshots, Streaming, Follows, Untaken, Placed, SocketOwned
    <2>5. StaleFlagged'
      BY <1>5 DEF Snapshots, StaleFlagged, Placed, SocketOwned, Flags
    <2>6. Paced'
      BY <1>5 DEF Snapshots, Paced, Counters
    <2>7. QED
      BY <2>1, <2>2, <2>3, <2>4, <2>5, <2>6
  <1>6. CASE Starts
    <2>1. Counters'
      BY <1>6 DEF Starts, Counters
    <2>2. Queues'
      BY <1>6, NothingYet DEF Starts, Queues, Placed
    <2>3. Placed'
      BY <1>6 DEF Starts, Placed, SocketOwned, Flags, Counters
    <2>4. Streaming'
      BY <1>6 DEF Starts, Streaming, Follows, Untaken, Placed, SocketOwned
    <2>5. StaleFlagged'
      BY <1>6 DEF Starts, StaleFlagged, Placed, SocketOwned, Flags
    <2>6. Paced'
      BY <1>6 DEF Starts, Paced, Counters
    <2>7. QED
      BY <2>1, <2>2, <2>3, <2>4, <2>5, <2>6
  <1>7. CASE Polls
    <2>1. Counters'
      BY <1>7 DEF Polls, Counters
    <2>2. Queues'
      BY <1>7 DEF Polls, Queues, Placed
    <2>3. Placed'
      BY <1>7 DEF Polls, Placed, SocketOwned, Flags, Counters
    <2>4. Streaming'
      BY <1>7 DEF Polls, Streaming, Follows, Untaken, Placed, SocketOwned
    <2>5. StaleFlagged'
      BY <1>7 DEF Polls, StaleFlagged, Placed, SocketOwned, Flags
    <2>6. Paced'
      BY <1>7 DEF Polls, Paced, Counters
    <2>7. QED
      BY <2>1, <2>2, <2>3, <2>4, <2>5, <2>6
  <1>8. CASE Delays
    <2>1. Counters'
      BY <1>8, Ticks DEF Delays, TimePasses, Counters
    <2>2. Queues'
      BY <1>8 DEF Delays, TimePasses, Queues, Placed
    <2>3. Placed'
      BY <1>8 DEF Delays, TimePasses, Placed, SocketOwned, Flags, Counters
    <2>4. Streaming'
      BY <1>8 DEF Delays, TimePasses, Streaming, Follows, Untaken, Placed, SocketOwned
    <2>5. StaleFlagged'
      BY <1>8 DEF Delays, TimePasses, StaleFlagged, Placed, SocketOwned, Flags
    <2>6. Paced'
      BY <1>8, Ticks DEF Delays, TimePasses, Paced, Counters
    <2>7. QED
      BY <2>1, <2>2, <2>3, <2>4, <2>5, <2>6
  <1>9. CASE PeerCloses
    <2>1. Counters'
      BY <1>9 DEF PeerCloses, Counters
    <2>2. Queues'
      BY <1>9 DEF PeerCloses, Queues, Placed
    <2>3. Placed'
      BY <1>9 DEF PeerCloses, Placed, SocketOwned, Flags, Counters
    <2>4. Streaming'
      BY <1>9 DEF PeerCloses, Streaming, Follows, Untaken, Placed, SocketOwned
    <2>5. StaleFlagged'
      BY <1>9 DEF PeerCloses, StaleFlagged, Placed, SocketOwned, Flags
    <2>6. Paced'
      BY <1>9 DEF PeerCloses, Paced, Counters
    <2>7. QED
      BY <2>1, <2>2, <2>3, <2>4, <2>5, <2>6
  <1>10. CASE WifiChanges
    <2>1. Counters'
      BY <1>10 DEF WifiChanges, Counters
    <2>2. Queues'
      BY <1>10 DEF WifiChanges, Queues, Placed
    <2>3. Placed'
      BY <1>10 DEF WifiChanges, Placed, SocketOwned, Flags, Counters
    <2>4. Streaming'
      BY <1>10 DEF WifiChanges, Streaming, Follows, Untaken, Placed, SocketOwned
    <2>5. StaleFlagged'
      BY <1>10 DEF WifiChanges, StaleFlagged, Placed, SocketOwned, Flags
    <2>6. Paced'
      BY <1>10 DEF WifiChanges, Paced, Counters
    <2>7. QED
      BY <2>1, <2>2, <2>3, <2>4, <2>5, <2>6
  <1>11. CASE Blocks
    <2>1. Counters'
      BY <1>11, Ticks DEF Blocks, TimePasses, Counters
    <2>2. Queues'
      BY <1>11 DEF Blocks, TimePasses, Queues, Placed
    <2>3. Placed'
      BY <1>11 DEF Blocks, TimePasses, Placed, SocketOwned, Flags, Counters
    <2>4. Streaming'
      BY <1>11 DEF Blocks, TimePasses, Streaming, Follows, Untaken, Placed, SocketOwned
    <2>5. StaleFlagged'
      BY <1>11 DEF Blocks, TimePasses, StaleFlagged, Placed, SocketOwned, Flags
    <2>6. Paced'
      BY <1>11, Ticks DEF Blocks, TimePasses, Paced, Counters
    <2>7. QED
      BY <2>1, <2>2, <2>3, <2>4, <2>5, <2>6
  <1>12. QED
    BY <1>1, <1>2, <1>3, <1>4, <1>5, <1>6, <1>7, <1>8, <1>9, <1>10, <1>11 DEF QuietStep

(* An answered dialling starts a connection of which nothing was sent.     *)
LEMMA DialsInv ==
  ASSUME UpstreamInv, Dials
  PROVE  Counters' /\ Queues' /\ Placed' /\ Streaming' /\ StaleFlagged' /\ Paced'
  <1> USE UpstreamAssumption DEF UpstreamInv, Dials, Fails, up, peer
  <1>1. Counters'
    BY DEF Counters, Placed
  <1>2. Queues'
    BY NothingYet DEF Queues
  <1>3. Placed'
    <2>1. pc = "dial" /\ ~connected /\ sock /\ nonce = 2 /\ pre = <<>>
      BY DEF Placed, SocketOwned
    <2>2. CASE Fails
      BY <2>1, <2>2 DEF Placed, SocketOwned
    <2>3. CASE pc' = "reply" /\ UNCHANGED <<upCfg, sock, connected, nonce, pre>>
      BY <2>1, <2>3 DEF Placed, SocketOwned
    <2>4. QED
      BY <2>2, <2>3
  <1>4. Streaming'
    <2>1. CASE pc' = "reply"
      <3>1. pre' = <<>> /\ wire' = <<>> /\ sent' = 0 /\ handled' = 0
        BY <2>1 DEF Placed
      <3>2. Untaken' = <<>>
        BY <3>1 DEF Untaken
      <3>3. QED
        BY <2>1, <3>1, <3>2 DEF Streaming, Follows
    <2>2. CASE pc' # "reply"
      BY <2>2 DEF Streaming, Placed
    <2>3. QED
      BY <2>1, <2>2
  <1>5. StaleFlagged' /\ Paced'
    BY DEF StaleFlagged, Paced, Placed, SocketOwned
  <1>6. QED
    BY <1>1, <1>2, <1>3, <1>4, <1>5

(* The end of the handshake divides what has come, and loses nothing.      *)
LEMMA RepliedInv ==
  ASSUME UpstreamInv, Replied
  PROVE  Counters' /\ Queues' /\ Placed' /\ Streaming' /\ StaleFlagged' /\ Paced'
  <1> USE DEF UpstreamInv, up, peer
  <1>1. CASE Fails /\ UNCHANGED peer
    <2>1. Counters' /\ Queues' /\ Paced'
      BY <1>1 DEF Replied, Fails, Counters, Queues, Paced
    <2>2. Placed'
      BY <1>1 DEF Replied, Fails, Placed, SocketOwned, Flags
    <2>3. Streaming' /\ StaleFlagged'
      BY <1>1 DEF Replied, Fails, Placed, Streaming, StaleFlagged
    <2>4. QED
      BY <2>1, <2>2, <2>3
  <1>2. CASE ~ (Fails /\ UNCHANGED peer)
    <2>1. PICK n \in 0 .. Len(wire) : /\ pre' = (IF n = 0 THEN pre ELSE SubSeq(wire, 1, n))
                                      /\ wire' = SubSeq(wire, n + 1, Len(wire))
                                      /\ connected' = TRUE /\ pc' = "start"
                                      /\ UNCHANGED <<upCfg, sock, nonce, conn, sent, shut>>
      BY <1>2 DEF Replied
    <2>2. pc = "reply" /\ UNCHANGED <<cfg, reconnect, since, frame, wifi, handled, rest>>
      BY DEF Replied
    <2>3. pre = <<>> /\ ~connected /\ sock
      BY <2>2 DEF Placed, SocketOwned
    <2>4. pre' \in Seq(Unit) /\ wire' \in Seq(Unit) /\ pre' \o wire' = wire
      BY <2>1, <2>3, KeepsRest DEF Queues
    <2>5. pre \o wire = wire
      BY <2>3, ConcatEmptySeq DEF Queues
    <2>6. Counters' /\ Queues' /\ Paced'
      BY <2>1, <2>2, <2>4 DEF Counters, Queues, Paced
    <2>7. Placed'
      BY <2>1, <2>2, <2>3 DEF Placed, SocketOwned, Flags
    <2>8. Streaming'
      <3>1. Untaken' = Untaken /\ Follows(Untaken, handled)
        BY <2>2, <2>4, <2>5 DEF Untaken, Streaming
      <3>2. QED
        BY <2>1, <2>2, <3>1 DEF Streaming, Follows
    <2>9. StaleFlagged'
      BY <2>1, <2>2 DEF StaleFlagged
    <2>10. QED
      BY <2>6, <2>7, <2>8, <2>9
  <1>3. QED
    BY <1>1, <1>2

(* A unit that is taken is the next one. *)
LEMMA TakenNext ==
  ASSUME UpstreamInv, connected, NEW u, Reads(u), UNCHANGED <<conn, sent>>
  PROVE  /\ Queues' /\ u \in Unit /\ u.conn = conn /\ u.num = handled + 1
         /\ handled + 1 \in 0 .. 2 * Frames
         /\ handled' = handled + 1 => (Follows(Untaken, handled))'
  <1>1. Follows(Untaken, handled) /\ handled \in 0 .. 2 * Frames /\ sent \in 0 .. 2 * Frames
    BY DEF UpstreamInv, Streaming, Counters
  <1>2. /\ Queues' /\ u \in Unit /\ Len(Untaken) > 0 /\ u = Untaken[1]
        /\ Len(Untaken') = Len(Untaken) - 1
        /\ \A i \in 1 .. Len(Untaken) - 1 : Untaken'[i] = Untaken[i + 1]
    BY TakesFirst DEF UpstreamInv
  <1>3. Len(Untaken) = sent - handled
    BY <1>1 DEF Follows
  <1>4. u.conn = conn /\ u.num = handled + 1 /\ handled + 1 \in 0 .. 2 * Frames
    BY <1>1, <1>2, <1>3, UpstreamAssumption DEF Follows
  <1>5. ASSUME handled' = handled + 1 PROVE (Follows(Untaken, handled))'
    <2>1. Len(Untaken') = sent' - handled'
      BY <1>1, <1>2, <1>3, <1>5, UpstreamAssumption
    <2>2. ASSUME NEW i \in 1 .. Len(Untaken')
          PROVE  Untaken'[i].conn = conn' /\ Untaken'[i].num = handled' + i
      <3>1. i \in 1 .. Len(Untaken) - 1 /\ i + 1 \in 1 .. Len(Untaken)
        BY <1>1, <1>2, <1>3, <2>1, <2>2, <1>5, UpstreamAssumption
      <3>2. Untaken[i + 1].conn = conn /\ Untaken[i + 1].num = handled + (i + 1)
        BY <1>1, <3>1 DEF Follows
      <3>3. QED
        BY <1>1, <1>2, <3>1, <3>2, <1>5
    <2>3. QED
      BY <2>1, <2>2 DEF Follows
  <1>6. QED
    BY <1>2, <1>4, <1>5

(* A header is taken: its payload is the next unit.                        *)
LEMMA ReadsHeaderInv ==
  ASSUME UpstreamInv, ReadsHeader
  PROVE  Counters' /\ Queues' /\ Placed' /\ Streaming' /\ StaleFlagged' /\ Paced'
  <1>1. PICK u \in Available : Reads(u) /\ frame' = u
    BY DEF ReadsHeader
  <1>2. /\ pc = "header" /\ pc' = "payload" /\ handled' = handled + 1
        /\ UNCHANGED <<cfg, reconnect, upCfg, sock, connected, nonce, since, wifi, conn, sent,
                       shut, rest>>
    BY DEF ReadsHeader
  <1>3. connected
    BY <1>2 DEF UpstreamInv, Placed
  <1>4. /\ Queues' /\ u.conn = conn /\ u.num = handled + 1
        /\ handled + 1 \in 0 .. 2 * Frames /\ (Follows(Untaken, handled))'
    BY <1>1, <1>2, <1>3, TakenNext
  <1>5. Counters' /\ Paced'
    BY <1>2, <1>4 DEF UpstreamInv, Counters, Paced
  <1>6. Placed'
    BY <1>2, <1>3 DEF UpstreamInv, Placed, SocketOwned, Flags
  <1>7. Streaming' /\ StaleFlagged'
    BY <1>1, <1>2, <1>4 DEF UpstreamInv, Streaming, StaleFlagged
  <1>8. QED
    BY <1>4, <1>5, <1>6, <1>7

(* A payload is taken, or the frame was the close of the connection.       *)
LEMMA ReadsPayloadInv ==
  ASSUME UpstreamInv, ReadsPayload
  PROVE  Counters' /\ Queues' /\ Placed' /\ Streaming' /\ StaleFlagged' /\ Paced'
  <1>1. /\ pc = "payload" /\ pc' = "delay" /\ frame' = NoFrame /\ handled' = handled + 1
        /\ UNCHANGED <<cfg, reconnect, since, wifi, conn, sent, shut, rest>>
    BY DEF ReadsPayload
  <1>2. connected /\ frame.conn = conn
    BY <1>1 DEF UpstreamInv, Placed, Streaming
  <1>3. PICK u \in Available : TRUE
    BY DEF ReadsPayload
  <1>4. CASE frame.kind = "close"
    <2>1. sock' = FALSE /\ connected' = FALSE /\ nonce' = 2 /\ pre' = <<>> /\ UNCHANGED <<upCfg, wire>>
      BY <1>4 DEF ReadsPayload, Close, ForgetNonce
    <2>2. handled + 1 \in 0 .. 2 * Frames
      <3>1. pre # <<>> \/ wire # <<>>
        BY <1>3 DEF Available
      <3>2. Len(Untaken) > 0
        BY <3>1, ConcatProperties DEF UpstreamInv, Queues, Untaken
      <3>3. QED
        BY <3>2, <1>2, UpstreamAssumption DEF UpstreamInv, Streaming, Follows, Counters
    <2>3. Counters' /\ Paced'
      BY <1>1, <2>1, <2>2 DEF UpstreamInv, Counters, Paced
    <2>4. Queues' /\ Placed'
      BY <1>1, <2>1, NothingYet DEF UpstreamInv, Queues, Placed, SocketOwned
    <2>5. Streaming' /\ StaleFlagged'
      BY <1>1, <2>1 DEF Streaming, StaleFlagged
    <2>6. QED
      BY <2>3, <2>4, <2>5
  <1>5. CASE frame.kind # "close"
    <2>1. PICK v \in Available : Reads(v)
      BY <1>5 DEF ReadsPayload
    <2>2. /\ nonce' = (IF frame.kind = "init" THEN frame.conn ELSE nonce)
          /\ UNCHANGED <<upCfg, sock, connected>>
      BY <1>5 DEF ReadsPayload
    <2>3. Queues' /\ handled + 1 \in 0 .. 2 * Frames /\ (Follows(Untaken, handled))'
      BY <1>1, <1>2, <2>1, TakenNext
    <2>4. Counters' /\ Paced'
      BY <1>1, <1>2, <2>2, <2>3 DEF UpstreamInv, Counters, Paced
    <2>5. Placed'
      BY <1>1, <1>2, <2>2 DEF UpstreamInv, Placed, SocketOwned, Flags
    <2>6. Streaming' /\ StaleFlagged'
      BY <1>1, <2>2, <2>3 DEF UpstreamInv, Streaming, StaleFlagged
    <2>7. QED
      BY <2>3, <2>4, <2>5, <2>6
  <1>6. QED
    BY <1>4, <1>5

(* A read that fails closes the connection. *)
LEMMA ReadFailsInv ==
  ASSUME UpstreamInv, ReadFails
  PROVE  Counters' /\ Queues' /\ Placed' /\ Streaming' /\ StaleFlagged' /\ Paced'
  <1> USE DEF UpstreamInv, ReadFails, Close, ForgetNonce, up, peer
  <1>1. Counters' /\ Paced'
    BY DEF Counters, Paced
  <1>2. Queues' /\ Placed'
    BY NothingYet DEF Queues, Placed, SocketOwned
  <1>3. Streaming' /\ StaleFlagged'
    BY DEF Streaming, StaleFlagged
  <1>4. QED
    BY <1>1, <1>2, <1>3

(* The server's next unit comes after those that are left.                 *)
LEMMA SendsInv ==
  ASSUME UpstreamInv, Sends
  PROVE  Counters' /\ Queues' /\ Placed' /\ Streaming' /\ StaleFlagged' /\ Paced'
  <1>1. PICK k \in Kinds \cup {"rest"} :
          wire' = Append(wire, [conn |-> conn, num |-> sent + 1, kind |-> k])
    BY DEF Sends
  <1>2. /\ sock /\ pc # "dial" /\ sent < 2 * Frames /\ sent' = sent + 1
        /\ UNCHANGED <<cfg, reconnect, pc, upCfg, sock, connected, nonce, pre, since, frame, wifi,
                       conn, shut, handled, rest>>
    BY DEF Sends, up
  <1> DEFINE u == [conn |-> conn, num |-> sent + 1, kind |-> k]
  <1>3. u \in Unit /\ wire \in Seq(Unit) /\ pre \in Seq(Unit) /\ wire' = Append(wire, u)
    BY <1>1 DEF UpstreamInv, Queues, Counters, Unit
  <1>4. Counters' /\ Paced'
    BY <1>2, UpstreamAssumption DEF UpstreamInv, Counters, Paced
  <1>5. Queues' /\ Placed' /\ StaleFlagged'
    BY <1>2, <1>3 DEF UpstreamInv, Queues, Placed, SocketOwned, StaleFlagged
  <1>6. Streaming'
    <2>1. connected \/ pc = "reply"
      BY <1>2 DEF UpstreamInv, Placed, SocketOwned
    <2>2. Follows(Untaken, handled) /\ sent \in Nat /\ handled \in Nat
      BY <2>1 DEF UpstreamInv, Streaming, Counters
    <2>3. /\ Untaken \in Seq(Unit) /\ Untaken' \in Seq(Unit) /\ Len(Untaken') = Len(Untaken) + 1
          /\ \A i \in 1 .. Len(Untaken) : Untaken'[i] = Untaken[i]
          /\ Untaken'[Len(Untaken) + 1] = u
      BY <1>2, <1>3, ConcatProperties DEF Untaken
    <2>4. Len(Untaken') = sent' - handled'
      BY <1>2, <2>2, <2>3 DEF Follows
    <2>5. ASSUME NEW i \in 1 .. Len(Untaken')
          PROVE  Untaken'[i].conn = conn' /\ Untaken'[i].num = handled' + i
      <3>1. CASE i = Len(Untaken) + 1
        BY <1>2, <2>2, <2>3, <3>1 DEF Follows
      <3>2. CASE i # Len(Untaken) + 1
        <4>1. i \in 1 .. Len(Untaken)
          BY <2>3, <2>5, <3>2
        <4>2. QED
          BY <1>2, <2>2, <2>3, <4>1 DEF Follows
      <3>3. QED
        BY <3>1, <3>2
    <2>6. QED
      BY <1>2, <2>4, <2>5 DEF UpstreamInv, Streaming, Follows
  <1>7. QED
    BY <1>4, <1>5, <1>6

(* UpstreamInv holds whenever configurations, units and failures come.     *)
THEOREM UpstreamInvariant == Spec => []UpstreamInv
  <1>1. ASSUME UpstreamInv, [Next]_vars PROVE UpstreamInv'
    <2>1. Flags'
      BY <1>1, FlagsStay DEF UpstreamInv
    <2>2. CASE UNCHANGED vars
      <3>1. Counters' /\ Queues' /\ Paced'
        BY <1>1, <2>2 DEF UpstreamInv, vars, up, peer, Counters, Queues, Paced
      <3>2. Placed' /\ StaleFlagged'
        BY <1>1, <2>2 DEF UpstreamInv, vars, up, peer, Placed, SocketOwned, StaleFlagged
      <3>3. Streaming'
        BY <1>1, <2>2 DEF UpstreamInv, vars, up, peer, Streaming, Follows, Untaken
      <3>4. QED
        BY <2>1, <3>1, <3>2, <3>3 DEF UpstreamInv
    <2>3. CASE Next
      <3>1. Counters' /\ Queues' /\ Placed' /\ Streaming' /\ StaleFlagged' /\ Paced'
        BY <1>1, <2>3, QuietInv, DialsInv, RepliedInv, ReadsHeaderInv, ReadsPayloadInv, ReadFailsInv,
           SendsInv
        DEF Next, Task, QuietStep
      <3>2. QED
        BY <2>1, <3>1 DEF UpstreamInv
    <2>4. QED
      BY <1>1, <2>2, <2>3
  <1>2. QED
    BY InitInv, <1>1, PTL DEF Spec

(* Whenever a CFG1 packet comes and whatever fails, a connection that was  *)
(* made from a replaced configuration is about to be closed, no unit of    *)
(* the current connection is lost, repeated or mixed with another's, and   *)
(* the socket is open exactly as long as it is used                        *)
(* (gateway_upstream_connect, _poll, _apply_usb_config).                   *)
THEOREM UpstreamSoundAlways == Spec => []UpstreamSound
  <1>1. ASSUME UpstreamInv PROVE UpstreamSound
    <2>1. TypeOK
      BY <1>1, Zenon DEF UpstreamInv, Flags, Counters, TypeOK
    <2>2. InOrder
      BY <1>1 DEF UpstreamInv, Counters, Streaming, Follows, Untaken, InOrder
    <2>3. QED
      BY <1>1, <2>1, <2>2 DEF UpstreamInv, Placed, UpstreamSound
  <1>2. QED
    BY UpstreamInvariant, <1>1, PTL

(* Two attempts to connect are at least the retry interval apart unless a  *)
(* configuration came in between, also when the tick counter wraps         *)
(* (next_upstream_retry_tick in gateway_ameba_task).                       *)
THEOREM RetryPacedAlways == Spec => RetryPaced
  <1>1. ASSUME UpstreamInv, [Next]_vars PROVE pc = "wifi" /\ pc' = "snapshot" => rest = Retry
    <2>1. SUFFICES ASSUME pc = "wifi", pc' = "snapshot" PROVE rest = Retry
      OBVIOUS
    <2>2. ChecksWifi
      BY <1>1, <2>1
      DEF Next, Task, vars, up, ApplyUsbConfig, SeesRequest, ClearsRequest, Snapshots, Dials,
          Replied, Starts, Polls, ReadsHeader, ReadsPayload, ReadFails, Delays, Sends, PeerCloses,
          WifiChanges, Blocks
    <2>3. Signed(since) >= 0 /\ since \in 0 .. W - 1 /\ rest \in 0 .. Retry /\ Paced
      BY <1>1, <2>1, <2>2 DEF ChecksWifi, MayConnect, UpstreamInv, Counters
    <2>4. since < W \div 2
      BY <2>3, UpstreamAssumption DEF Signed
    <2>5. QED
      BY <2>3, <2>4, UpstreamAssumption DEF Paced
  <1>2. QED
    BY UpstreamInvariant, <1>1, PTL DEF Spec, RetryPaced

-----------------------------------------------------------------------------
(* AmebaBoot: the types of its state, one by one.                          *)
StarterPlace == {"none", "begin", "create", "on", "round", "attempt", "dhcp", "test", "hook",
                 "atcmd", "add", "spawn", "sleep", "done"}

GatewayPlace == {"none", "boot", "connect", "dhcp", "wait", "ready", "usb", "probe", "loop", "failed"}

BootTypes ==
  /\ build \in Builds /\ starters \in [{"thread", "monitor"} -> StarterPlace] /\ gw \in [{1, 2} -> GatewayPlace]
  /\ wlan \in BOOLEAN /\ link \in BOOLEAN /\ ip \in BOOLEAN /\ due \in BOOLEAN
  /\ hookCalled \in BOOLEAN /\ registered \in BOOLEAN /\ handlers \in BOOLEAN
  /\ wifiConnected \in BOOLEAN /\ dhcpReady \in BOOLEAN /\ usbStarted \in BOOLEAN /\ late \in BOOLEAN
  /\ tables \in 0 .. 2

(* Past the hook, with a gateway task to create. *)
Calling(p) == starters[p] \in {"hook", "atcmd", "add", "spawn"}

(* The commands are registered while the first task is alone, and a task   *)
(* gets to the hook before the first gateway task is created, if at all.   *)
BootOrder ==
  /\ registered <=> starters["thread"] # "begin"
  /\ tables = (IF registered THEN 1 ELSE 0)
  /\ starters["thread"] = "begin" => starters["monitor"] = "none"
  /\ build = "own" => starters["thread"] = "none" /\ starters["monitor"] = "none"
  /\ \A p \in {"thread", "monitor"} :
       /\ starters[p] # "add"
       /\ starters[p] \in {"atcmd", "spawn"} => hookCalled
  /\ build # "own" /\ gw[1] # "none" => hookCalled /\ ~(Calling("thread") /\ Calling("monitor"))
  /\ gw[2] # "none" => gw[1] # "none" /\ ~Calling("thread") /\ ~Calling("monitor")

(* Only the own build connects by itself, and registers handlers. *)
BootFlags ==
  build # "own" => /\ ~handlers /\ (dhcpReady => wifiConnected)
                   /\ \A g \in {1, 2} : gw[g] \notin {"connect", "dhcp", "wait", "ready"}

BootInv == BootTypes /\ BootOrder /\ BootFlags

LEMMA BootInvSound == ASSUME BootInv PROVE Boot!BootSound
  <1>1. Boot!TypeOK
    BY DEF BootInv, BootTypes, Boot!TypeOK, Boot!Starters, Boot!Gateways, StarterPlace, GatewayPlace
  <1>2. Boot!AtCommandsOnce
    BY DEF BootInv, BootOrder, Boot!AtCommandsOnce
  <1>3. ASSUME NEW p \in {"thread", "monitor"}, starters[p] = "spawn" PROVE gw[2] = "none"
    BY <1>3 DEF BootInv, BootOrder, Calling
  <1>4. Boot!OnePerStarter
    BY <1>3 DEF Boot!OnePerStarter, Boot!Starters, Boot!Gateways
  <1>5. Boot!AddressNeedsLink
    BY DEF BootInv, BootFlags, Boot!AddressNeedsLink
  <1>6. QED
    BY <1>1, <1>2, <1>4, <1>5 DEF Boot!BootSound

LEMMA BootStarts == ASSUME Boot!BootAssumption, Boot!Init PROVE BootInv
  <1> USE DEF Boot!Init
  <1>1. build \in {"sample", "own"}
    BY DEF Boot!BootAssumption
  <1>2. /\ starters["thread"] = (IF build = "sample" THEN "begin" ELSE "none") /\ starters["monitor"] = "none"
        /\ gw[1] = (IF build = "own" THEN "boot" ELSE "none") /\ gw[2] = "none"
    BY DEF Boot!Starters, Boot!Gateways
  <1>3. starters \in [{"thread", "monitor"} -> StarterPlace] /\ gw \in [{1, 2} -> GatewayPlace]
    BY DEF Boot!Starters, Boot!Gateways, StarterPlace, GatewayPlace
  <1>4. /\ wlan \in BOOLEAN /\ link \in BOOLEAN /\ ip \in BOOLEAN /\ due \in BOOLEAN /\ hookCalled \in BOOLEAN
        /\ registered \in BOOLEAN /\ handlers \in BOOLEAN /\ wifiConnected \in BOOLEAN /\ dhcpReady \in BOOLEAN
        /\ usbStarted \in BOOLEAN /\ late \in BOOLEAN
        /\ (registered <=> build = "own") /\ ~dhcpReady /\ ~handlers
    BY Zenon
  <1>5. tables = (IF build = "own" THEN 1 ELSE 0) /\ build \in Builds
    OBVIOUS
  <1> HIDE DEF Boot!Init
  <1>6. BootTypes
    BY <1>3, <1>4, <1>5 DEF BootTypes
  <1>7. BootOrder
    BY <1>1, <1>2, <1>4, <1>5 DEF BootOrder, Calling
  <1>8. QED
    BY <1>2, <1>4, <1>6, <1>7 DEF BootInv, BootFlags

(* A task of the example goes to another place, the other one stays. *)
LEMMA StarterGoes ==
  ASSUME BootTypes, NEW p \in {"thread", "monitor"}, NEW to \in StarterPlace, Boot!Goes(p, to)
  PROVE  /\ starters' \in [{"thread", "monitor"} -> StarterPlace] /\ starters'[p] = to
         /\ \A q \in {"thread", "monitor"} : q # p => starters'[q] = starters[q]
  BY DEF BootTypes, Boot!Goes

LEMMA GatewayGoes ==
  ASSUME BootTypes, NEW g \in {1, 2}, NEW to \in GatewayPlace, Boot!GwGoes(g, to)
  PROVE  /\ gw' \in [{1, 2} -> GatewayPlace] /\ gw'[g] = to
         /\ \A h \in {1, 2} : h # g => gw'[h] = gw[h]
  BY DEF BootTypes, Boot!GwGoes

(* What neither starts a gateway task nor moves the example's. *)
LEMMA OrderKept ==
  ASSUME BootOrder, UNCHANGED <<build, starters, hookCalled, registered, tables>>,
         \A g \in {1, 2} : gw'[g] = "none" <=> gw[g] = "none"
  PROVE  BootOrder'
  BY DEF BootOrder, Calling

(* A task of the example goes on without the hook. *)
LEMMA OrderMoves ==
  ASSUME BootOrder, NEW p \in {"thread", "monitor"}, UNCHANGED <<build, gw, hookCalled, registered, tables>>,
         starters[p] \notin {"none", "begin"}, starters'[p] \notin {"none", "begin", "add"},
         starters'[p] \in {"hook", "atcmd", "spawn"} => Calling(p) \/ ~hookCalled,
         starters'[p] \in {"atcmd", "spawn"} => hookCalled,
         \A q \in {"thread", "monitor"} : q # p => starters'[q] = starters[q]
  PROVE  BootOrder'
  <1>1. PICK q \in {"thread", "monitor"} : q # p /\ starters'[q] = starters[q]
    OBVIOUS
  <1>2. build # "own"
    BY DEF BootOrder
  <1>3. starters["thread"] # "begin" /\ starters'["thread"] # "begin"
    BY <1>1 DEF BootOrder
  <1>4. Calling(p)' => Calling(p) \/ ~hookCalled
    BY DEF Calling
  <1>5. Calling(q)' <=> Calling(q)
    BY <1>1 DEF Calling
  <1>6. \A r \in {"thread", "monitor"} : starters'[r] # "add" /\ (starters'[r] \in {"atcmd", "spawn"} => hookCalled)
    BY <1>1 DEF BootOrder
  <1>7. gw[1] # "none" => hookCalled /\ ~(Calling(p)' /\ Calling(q)')
    BY <1>1, <1>2, <1>4, <1>5 DEF BootOrder
  <1>8. gw[2] # "none" => gw[1] # "none" /\ ~Calling(p)' /\ ~Calling(q)'
    BY <1>1, <1>2, <1>4, <1>5 DEF BootOrder
  <1>9. QED
    BY <1>1, <1>2, <1>3, <1>6, <1>7, <1>8 DEF BootOrder

LEMMA ExampleMoves ==
  ASSUME Boot!BootAssumption, BootInv, NEW p \in {"thread", "monitor"}, Boot!Example(p)
  PROVE  BootInv'
  <1> USE DEF Boot!wifi, Boot!at, Boot!flags
  <1>0. /\ BootTypes /\ BootOrder /\ BootFlags /\ build \in {"sample", "own"}
        /\ starters \in [{"thread", "monitor"} -> StarterPlace]
    BY DEF BootInv, BootTypes, Boot!BootAssumption
  <1>1. UNCHANGED <<build, handlers, wifiConnected, dhcpReady, usbStarted, late>>
    BY DEF Boot!Example, Boot!Begins, Boot!CreatesMonitor, Boot!TurnsOn, Boot!MonitorLooks, Boot!MonitorWakes,
           Boot!Attempts, Boot!StartsDhcp, Boot!TestsHook, Boot!CallsHook, Boot!TestsAtcmd, Boot!AddsAtcmd, Boot!Spawns
  <1>2. BootFlags'
    <2>1. CASE gw' = gw
      BY <1>0, <1>1, <2>1 DEF BootFlags
    <2>2. CASE \E g \in {1, 2} : Boot!GwGoes(g, "boot") \/ Boot!GwGoes(g, "failed")
      <3>1. PICK g \in {1, 2} : Boot!GwGoes(g, "boot") \/ Boot!GwGoes(g, "failed")
        BY <2>2
      <3>2. gw'[g] \in {"boot", "failed"} /\ \A h \in {1, 2} : h # g => gw'[h] = gw[h]
        BY <1>0, <3>1, GatewayGoes DEF GatewayPlace
      <3>3. QED
        BY <1>0, <1>1, <3>2 DEF BootFlags
    <2>3. QED
      BY <2>1, <2>2 DEF Boot!Example, Boot!Begins, Boot!CreatesMonitor, Boot!TurnsOn, Boot!MonitorLooks,
         Boot!MonitorWakes, Boot!Attempts, Boot!StartsDhcp, Boot!TestsHook, Boot!CallsHook, Boot!TestsAtcmd,
         Boot!AddsAtcmd, Boot!Spawns, Boot!Gateways
  (* a step that only goes on, with what it does to Wi-Fi *)
  <1>3. ASSUME NEW to \in StarterPlace, Boot!Goes(p, to), UNCHANGED <<gw, registered, tables, hookCalled>>,
               wlan' \in BOOLEAN, link' \in BOOLEAN, ip' \in BOOLEAN, due' \in BOOLEAN,
               starters[p] \notin {"none", "begin"}, to \notin {"none", "begin", "add"},
               to \in {"hook", "atcmd", "spawn"} => Calling(p) \/ ~hookCalled,
               to \in {"atcmd", "spawn"} => hookCalled
        PROVE  BootInv'
    <2>1. /\ starters' \in [{"thread", "monitor"} -> StarterPlace] /\ starters'[p] = to
          /\ \A q \in {"thread", "monitor"} : q # p => starters'[q] = starters[q]
      BY <1>0, <1>3, StarterGoes
    <2>2. BootOrder'
      BY <1>0, <1>1, <1>3, <2>1, OrderMoves
    <2>3. BootTypes'
      BY <1>0, <1>1, <1>3, <2>1 DEF BootTypes
    <2>4. QED
      BY <1>2, <2>2, <2>3 DEF BootInv
  <1>4. CASE p = "thread" /\ Boot!Begins
    <2>1. /\ starters["thread"] = "begin" /\ Boot!Goes("thread", "create") /\ registered' = TRUE /\ tables' = tables + 1
          /\ UNCHANGED <<gw, wlan, link, ip, due, hookCalled>>
      BY <1>4 DEF Boot!Begins
    <2>2. /\ starters' \in [{"thread", "monitor"} -> StarterPlace] /\ starters'["thread"] = "create"
          /\ starters'["monitor"] = "none" /\ starters["monitor"] = "none"
      BY <1>0, <2>1, StarterGoes DEF StarterPlace, BootOrder
    <2>3. tables = 0 /\ tables' = 1
      BY <1>0, <2>1 DEF BootOrder
    <2>4. BootTypes'
      BY <1>0, <1>1, <2>1, <2>2, <2>3 DEF BootTypes
    <2>5. gw[2] # "none" => gw[1] # "none"
      BY <1>0 DEF BootOrder
    <2>6. build # "own" /\ gw[1] # "none" => hookCalled
      BY <1>0 DEF BootOrder
    <2>7. ~Calling("thread")' /\ ~Calling("monitor")' /\ build # "own"
      BY <1>0, <2>1, <2>2 DEF Calling, BootOrder
    <2>8. BootOrder'
      BY <1>1, <2>1, <2>2, <2>3, <2>5, <2>6, <2>7 DEF BootOrder
    <2>9. QED
      BY <1>2, <2>4, <2>8 DEF BootInv
  <1>5. CASE p = "thread" /\ Boot!CreatesMonitor
    <2>1. starters["thread"] = "create" /\ UNCHANGED <<gw, wlan, link, ip, due, hookCalled, registered, tables>>
      BY <1>5 DEF Boot!CreatesMonitor
    <2>2. CASE Boot!Goes("thread", "on")
      BY <1>0, <1>3, <1>5, <2>1, <2>2 DEF StarterPlace, BootTypes
    <2>3. CASE starters' = [starters EXCEPT !["thread"] = "on", !["monitor"] = "round"]
      <3>1. /\ starters' \in [{"thread", "monitor"} -> StarterPlace] /\ starters'["thread"] = "on"
            /\ starters'["monitor"] = "round"
        BY <1>0, <2>3 DEF StarterPlace
      <3>2. BootTypes'
        BY <1>0, <1>1, <2>1, <3>1 DEF BootTypes
      <3>3. BootOrder'
        BY <1>0, <1>1, <2>1, <3>1 DEF BootOrder, Calling
      <3>4. QED
        BY <1>2, <3>2, <3>3 DEF BootInv
    <2>4. QED
      BY <1>5, <2>2, <2>3 DEF Boot!CreatesMonitor
  <1>6. CASE p = "thread" /\ Boot!TurnsOn
    <2>1. /\ starters[p] = "on" /\ UNCHANGED <<gw, link, ip, due, hookCalled, registered, tables>> /\ wlan' \in BOOLEAN
          /\ \E to \in {"attempt", "done"} : Boot!Goes(p, to)
      BY <1>0, <1>6 DEF Boot!TurnsOn, BootTypes
    <2>2. QED
      BY <1>0, <1>3, <2>1 DEF StarterPlace, BootTypes
  <1>7. CASE p = "monitor" /\ (Boot!MonitorLooks \/ Boot!MonitorWakes)
    <2>1. /\ starters[p] \in {"round", "sleep"} /\ UNCHANGED <<gw, wlan, link, ip, due, hookCalled, registered, tables>>
          /\ \E to \in {"attempt", "test", "round"} : Boot!Goes(p, to)
      BY <1>7 DEF Boot!MonitorLooks, Boot!MonitorWakes
    <2>2. QED
      BY <1>0, <1>3, <2>1 DEF StarterPlace, BootTypes
  <1>8. CASE Boot!Attempts(p) \/ Boot!StartsDhcp(p)
    <2>1. /\ starters[p] \in {"attempt", "dhcp"} /\ UNCHANGED <<gw, wlan, hookCalled, registered, tables>>
          /\ link' \in BOOLEAN /\ ip' \in BOOLEAN /\ due' \in BOOLEAN
          /\ \E to \in {"dhcp", "test"} : Boot!Goes(p, to)
      BY <1>0, <1>8 DEF Boot!Attempts, Boot!StartsDhcp, BootTypes
    <2>2. QED
      BY <1>0, <1>3, <2>1 DEF StarterPlace, BootTypes
  <1>9. CASE Boot!TestsHook(p)
    <2>1. /\ starters[p] = "test" /\ UNCHANGED <<gw, wlan, link, ip, due, hookCalled, registered, tables>>
          /\ \E to \in {"hook", "done", "sleep"} : Boot!Goes(p, to) /\ (to = "hook" => ~hookCalled)
      BY <1>9 DEF Boot!TestsHook, Boot!After
    <2>2. QED
      BY <1>0, <1>3, <2>1 DEF StarterPlace, BootTypes
  <1>10. CASE Boot!CallsHook(p)
    <2>1. /\ starters[p] = "hook" /\ hookCalled' = TRUE /\ Boot!Goes(p, "atcmd")
          /\ UNCHANGED <<gw, wlan, link, ip, due, registered, tables>>
      BY <1>10 DEF Boot!CallsHook
    <2>2. /\ starters' \in [{"thread", "monitor"} -> StarterPlace] /\ starters'[p] = "atcmd"
          /\ \A q \in {"thread", "monitor"} : q # p => starters'[q] = starters[q]
      BY <1>0, <2>1, StarterGoes DEF StarterPlace
    <2>3. \A q \in {"thread", "monitor"} : Calling(q)' <=> Calling(q)
      BY <2>1, <2>2 DEF Calling
    <2>4. BootOrder'
      BY <1>0, <1>1, <2>1, <2>2, <2>3 DEF BootOrder
    <2>5. BootTypes'
      BY <1>0, <1>1, <2>1, <2>2 DEF BootTypes
    <2>6. QED
      BY <1>2, <2>4, <2>5 DEF BootInv
  <1>11. CASE Boot!TestsAtcmd(p)
    <2>1. /\ starters[p] = "atcmd" /\ UNCHANGED <<gw, wlan, link, ip, due, hookCalled, registered, tables>>
          /\ Boot!Goes(p, IF registered THEN "spawn" ELSE "add")
      BY <1>11 DEF Boot!TestsAtcmd
    <2>2. registered /\ hookCalled /\ Calling(p)
      BY <1>0, <2>1 DEF BootOrder, Calling
    <2>3. QED
      BY <1>0, <1>3, <2>1, <2>2 DEF StarterPlace, BootTypes
  <1>12. CASE Boot!AddsAtcmd(p)
    BY <1>0, <1>12 DEF Boot!AddsAtcmd, BootOrder
  <1>13. CASE Boot!Spawns(p)
    <2>1. /\ starters[p] = "spawn" /\ UNCHANGED <<wlan, link, ip, due, hookCalled, registered, tables>>
          /\ \E to \in {"done", "sleep"} : Boot!Goes(p, to)
      BY <1>13 DEF Boot!Spawns, Boot!After
    <2>2. PICK g \in {1, 2} : /\ gw[g] = "none" /\ (g = 2 => gw[1] # "none")
                              /\ Boot!GwGoes(g, "boot") \/ Boot!GwGoes(g, "failed")
      BY <1>13 DEF Boot!Spawns, Boot!Gateways
    <2>3. /\ starters' \in [{"thread", "monitor"} -> StarterPlace] /\ starters'[p] \in {"done", "sleep"}
          /\ \A q \in {"thread", "monitor"} : q # p => starters'[q] = starters[q]
      BY <1>0, <2>1, StarterGoes DEF StarterPlace
    <2>4. /\ gw' \in [{1, 2} -> GatewayPlace] /\ gw'[g] # "none" /\ \A h \in {1, 2} : h # g => gw'[h] = gw[h]
      BY <1>0, <2>2, GatewayGoes DEF GatewayPlace
    <2>5. PICK q \in {"thread", "monitor"} : q # p /\ starters'[q] = starters[q]
      BY <2>3
    <2>6. ~Calling(p)' /\ (Calling(q)' <=> Calling(q)) /\ Calling(p) /\ hookCalled
      BY <1>0, <2>1, <2>3, <2>5 DEF Calling, BootOrder
    <2>7. gw[2] = "none" /\ build # "own" /\ (gw[1] # "none" => ~Calling(q))
      BY <1>0, <2>1, <2>5, <2>6 DEF BootOrder
    <2>8. gw'[2] # "none" => gw'[1] # "none" /\ ~Calling(q)'
      BY <2>2, <2>4, <2>6, <2>7
    <2>9. starters'["thread"] # "begin" /\ starters["thread"] # "begin"
      BY <1>0, <2>1, <2>3, <2>5 DEF BootOrder
    <2>10. \A r \in {"thread", "monitor"} : starters'[r] # "add" /\ (starters'[r] \in {"atcmd", "spawn"} => hookCalled)
      BY <1>0, <2>3, <2>5 DEF BootOrder
    <2>11. BootOrder'
      BY <1>0, <1>1, <2>1, <2>5, <2>6, <2>7, <2>8, <2>9, <2>10 DEF BootOrder
    <2>12. BootTypes'
      BY <1>0, <1>1, <2>1, <2>3, <2>4 DEF BootTypes
    <2>13. QED
      BY <1>2, <2>11, <2>12 DEF BootInv
  <1>14. QED
    BY <1>4, <1>5, <1>6, <1>7, <1>8, <1>9, <1>10, <1>11, <1>12, <1>13 DEF Boot!Example

LEMMA GatewayMoves ==
  ASSUME Boot!BootAssumption, BootInv, NEW g \in {1, 2}, Boot!Gateway(g) PROVE BootInv'
  <1> USE DEF Boot!wifi, Boot!at, Boot!flags
  <1>0. /\ BootTypes /\ BootOrder /\ BootFlags /\ build \in {"sample", "own"}
    BY DEF BootInv, BootTypes, Boot!BootAssumption
  <1>1. UNCHANGED <<build, starters, hookCalled, registered, tables, due>>
    BY DEF Boot!Gateway, Boot!AssumesWifi, Boot!OwnTurnsOn, Boot!OwnConnects, Boot!OwnDhcp, Boot!OwnWaits,
           Boot!OwnReady, Boot!UsbTests, Boot!UsbProbes, Boot!LoopLooks
  <1>2. gw' \in [{1, 2} -> GatewayPlace] /\ \A h \in {1, 2} : gw'[h] = "none" <=> gw[h] = "none"
    <2>1. CASE gw' = gw
      BY <1>0, <2>1 DEF BootTypes
    <2>2. CASE gw[g] # "none" /\ \E to \in GatewayPlace \ {"none"} : Boot!GwGoes(g, to)
      BY <1>0, <2>2, GatewayGoes
    <2>3. QED
      BY <2>1, <2>2
      DEF Boot!Gateway, Boot!AssumesWifi, Boot!OwnTurnsOn, Boot!OwnConnects, Boot!OwnDhcp, Boot!OwnWaits,
          Boot!OwnReady, Boot!UsbTests, Boot!UsbProbes, Boot!LoopLooks, GatewayPlace
  <1>3. BootOrder'
    BY <1>0, <1>1, <1>2, OrderKept
  <1>4. /\ wlan' \in BOOLEAN /\ link' \in BOOLEAN /\ ip' \in BOOLEAN /\ handlers' \in BOOLEAN
        /\ wifiConnected' \in BOOLEAN /\ dhcpReady' \in BOOLEAN /\ usbStarted' \in BOOLEAN /\ late' \in BOOLEAN
    <2>1. CASE Boot!AssumesWifi(g)
      BY <1>0, <2>1 DEF BootTypes, Boot!AssumesWifi
    <2>2. CASE Boot!LoopLooks(g)
      BY <1>0, <2>2 DEF BootTypes, Boot!LoopLooks
    <2>3. CASE Boot!OwnTurnsOn(g) \/ Boot!OwnConnects(g) \/ Boot!OwnDhcp(g)
      BY <1>0, <2>3 DEF BootTypes, Boot!OwnTurnsOn, Boot!OwnConnects, Boot!OwnDhcp
    <2>4. CASE Boot!OwnWaits(g) \/ Boot!OwnReady(g) \/ Boot!UsbTests(g) \/ Boot!UsbProbes(g)
      BY <1>0, <2>4 DEF BootTypes, Boot!OwnWaits, Boot!OwnReady, Boot!UsbTests, Boot!UsbProbes
    <2>5. QED
      BY <2>1, <2>2, <2>3, <2>4 DEF Boot!Gateway
  <1>5. BootFlags'
    <2> SUFFICES ASSUME build # "own" PROVE BootFlags'
      BY <1>1 DEF BootFlags
    <2>1. Boot!AssumesWifi(g) \/ Boot!UsbTests(g) \/ Boot!UsbProbes(g) \/ Boot!LoopLooks(g)
      BY <1>0 DEF BootFlags, Boot!Gateway, Boot!OwnTurnsOn, Boot!OwnConnects, Boot!OwnDhcp, Boot!OwnWaits, Boot!OwnReady
    <2>2. UNCHANGED handlers /\ (dhcpReady' => wifiConnected')
      <3>1. CASE Boot!AssumesWifi(g)
        <4>1. /\ UNCHANGED handlers /\ wifiConnected' = (wifiConnected \/ link)
              /\ dhcpReady' = (dhcpReady \/ (link /\ ip)) /\ (dhcpReady => wifiConnected)
          BY <1>0, <3>1 DEF Boot!AssumesWifi, BootFlags
        <4>2. QED
          BY Zenon, <4>1
      <3>2. CASE Boot!LoopLooks(g)
        <4>1. /\ UNCHANGED handlers /\ wifiConnected' = (wifiConnected \/ link)
              /\ dhcpReady' = (dhcpReady \/ (wifiConnected' /\ ip)) /\ (dhcpReady => wifiConnected)
          BY <1>0, <3>2 DEF Boot!LoopLooks, BootFlags
        <4>2. QED
          BY Zenon, <4>1
      <3>3. CASE Boot!UsbTests(g) \/ Boot!UsbProbes(g)
        <4>1. handlers' = handlers /\ wifiConnected' = wifiConnected /\ dhcpReady' = dhcpReady
          BY <3>3 DEF Boot!UsbTests, Boot!UsbProbes
        <4>2. dhcpReady => wifiConnected
          BY <1>0 DEF BootFlags
        <4>3. QED
          BY Zenon, <4>1, <4>2
      <3>4. QED
        BY <2>1, <3>1, <3>2, <3>3
    <2>3. gw'[g] \notin {"connect", "dhcp", "wait", "ready"} /\ \A h \in {1, 2} : h # g => gw'[h] = gw[h]
      <3>1. CASE gw' = gw
        BY <1>0, <3>1 DEF BootFlags
      <3>2. CASE \E to \in {"usb", "loop", "probe"} : Boot!GwGoes(g, to)
        BY <1>0, <3>2, GatewayGoes DEF GatewayPlace
      <3>3. QED
        BY <2>1, <3>1, <3>2 DEF Boot!AssumesWifi, Boot!UsbTests, Boot!UsbProbes, Boot!LoopLooks
    <2>4. ~handlers' /\ \A h \in {1, 2} : gw'[h] \notin {"connect", "dhcp", "wait", "ready"}
      BY <1>0, <2>2, <2>3 DEF BootFlags
    <2>5. QED
      BY <2>2, <2>4 DEF BootFlags
  <1>6. BootTypes'
    BY <1>0, <1>1, <1>2, <1>4 DEF BootTypes
  <1>7. QED
    BY <1>3, <1>5, <1>6 DEF BootInv

LEMMA WifiMoves ==
  ASSUME BootInv, Boot!LinkLost \/ Boot!LinkBack \/ Boot!TimePasses PROVE BootInv'
  <1> USE DEF Boot!wifi, Boot!at, Boot!flags, Boot!LinkLost, Boot!LinkBack, Boot!TimePasses
  <1>0. BootTypes /\ BootOrder /\ BootFlags
    BY DEF BootInv
  <1>1. UNCHANGED <<build, starters, gw, hookCalled, registered, tables, wlan, handlers, usbStarted>>
    OBVIOUS
  <1>2. BootOrder'
    BY <1>0, <1>1, OrderKept
  <1>3. /\ link' \in BOOLEAN /\ ip' \in BOOLEAN /\ due' \in BOOLEAN /\ late' \in BOOLEAN
        /\ wifiConnected' \in BOOLEAN /\ dhcpReady' \in BOOLEAN
    BY <1>0 DEF BootTypes, Boot!DisconnectHdl, Boot!ConnectHdl
  <1>4. BootFlags'
    BY <1>0, <1>1 DEF BootFlags, Boot!DisconnectHdl, Boot!ConnectHdl
  <1>5. BootTypes'
    BY <1>0, <1>1, <1>3 DEF BootTypes
  <1>6. QED
    BY <1>2, <1>4, <1>5 DEF BootInv

(* The inductive invariant of the start. *)
THEOREM BootInvariant == ASSUME Boot!BootAssumption PROVE Boot!Spec => []BootInv
  <1>1. Boot!Init => BootInv
    BY BootStarts
  <1>2. BootInv /\ [Boot!Next]_(Boot!vars) => BootInv'
    <2> SUFFICES ASSUME BootInv, [Boot!Next]_(Boot!vars) PROVE BootInv'
      OBVIOUS
    <2>1. CASE Boot!Next
      BY <2>1, ExampleMoves, GatewayMoves, WifiMoves DEF Boot!Next, Boot!Starters, Boot!Gateways
    <2>2. CASE UNCHANGED Boot!vars
      BY <2>2 DEF Boot!vars, Boot!wifi, Boot!at, Boot!flags, BootInv, BootTypes, BootOrder, BootFlags, Calling
    <2>3. QED
      BY <2>1, <2>2
  <1>3. QED
    BY <1>1, <1>2, PTL DEF Boot!Spec

(* For either build: however the two tasks of the example race for         *)
(* sample_gateway_hook_called, the AT commands are added once              *)
(* (gateway_ameba_register_atcmd), each starts one gateway task at most,   *)
(* and gateway_wifi_dhcp_ready implies gateway_wifi_connected.             *)
THEOREM BootSoundAlways == FirmwareSpec => []BootSound
  <1>1. FirmwareInit => Boot!Init
    BY DEF FirmwareInit
  <1>2. [FirmwareNext]_<<part, vars, bootVars>> => [Boot!Next]_(Boot!vars)
    BY DEF FirmwareNext, UpstreamNext, BootNext, AllDone, bootVars, Boot!vars, Boot!wifi, Boot!at, Boot!flags
  <1>3. Boot!Spec => []BootInv
    BY BootInvariant, PartsAssumption
  <1>4. BootInv => BootSound
    BY BootInvSound, PartsAssumption DEF BootSound
  <1>5. QED
    BY <1>1, <1>2, <1>3, <1>4, PTL DEF FirmwareSpec, Boot!Spec
=============================================================================
