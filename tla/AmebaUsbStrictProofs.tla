------------------------ MODULE AmebaUsbStrictProofs ------------------------
(***************************************************************************)
(* What holds of AmebaUsb while the callbacks stay out of the task's       *)
(* functions, and, for the IN transfer, while the controller cancels a     *)
(* request within usb_ep_dequeue and drops its requests before it reports  *)
(* a disconnect: the session's stream starts with its one init packet, and *)
(* in_busy, in_flight_len and in_buf describe the controller's request.    *)
(* The run UsbStrict checks that instance; UsbPreempt shows what becomes   *)
(* of a PING without the first assumption.                                 *)
(*                                                                         *)
(* The second half composes the device with the client: by ClientStartup,  *)
(* the stream that gateway_client takes is the one its own PING began.     *)
(*                                                                         *)
(* As in AmebaUsbProofs there is one lemma per function of the file; it    *)
(* says what the function does to the session and to the request.          *)
(***************************************************************************)
EXTENDS AmebaUsbProofs, ClientStartup

(* s is what the ring would give to a transfer now.  Contents(u.tx) is the *)
(* log from u.consumed on.                                                 *)
FromLog(u, s) ==
  /\ s # <<>> /\ u.consumed + Len(s) <= Len(u.log)
  /\ \A i \in 1 .. Len(s) : s[i] = u.log[u.consumed + i]

(* The request in the controller's hands: the PONG, which takes nothing    *)
(* from the ring, or in_flight_len bytes of it.                            *)
Held(u) ==
  u.inReq # <<>> =>
    /\ u.configured /\ u.buf = u.inReq
    /\ \/ u.inReq = PongPacket /\ u.inFlight = 0
       \/ FromLog(u, u.inReq) /\ u.inFlight = Len(u.inReq)

(* The firmware's account of the IN transfer is true ... *)
Owned(u) == ~u.late /\ ~u.skewed /\ (u.inBusy <=> u.inReq # <<>>) /\ Held(u)

(* ... and there is none. *)
Idle(u) == ~u.late /\ ~u.skewed /\ ~u.inBusy /\ u.inReq = <<>>

OutOK(u) == u.outReq => u.configured

(* The init packet was enqueued exactly if anything was. *)
Session(u) == u.initSent <=> u.log # <<>>

(* What a function does to the bus's view, and to the session.             *)
Ports(u, v)   == v.configured = u.configured /\ v.outReq = u.outReq
Keeps(u, v)   == v.initSent = u.initSent /\ v.log = u.log
Forgotten(v)  == ~v.initSent /\ v.log = <<>>
Opened(v)     == v.initSent /\ v.log = InitPacket

(* No transfer is a transfer whose account is true. *)
LEMMA IdleIsOwned ==
  ASSUME NEW u, Idle(u)
  PROVE  Owned(u)
  BY DEF Idle, Owned, Held

(* A transfer still comes from the log when more is enqueued. *)
LEMMA FromLogGrows ==
  ASSUME NEW u, NEW v, NEW s \in Seq(Byte), u.log \in Seq(Byte), u.consumed \in Nat,
         v.consumed = u.consumed, NEW d \in Seq(Byte), v.log = u.log \o d, FromLog(u, s)
  PROVE  FromLog(v, s)
  <1>1. PICK l \in Seq(Byte), c \in Nat : l = u.log /\ c = u.consumed
    OBVIOUS
  <1>2. PICK m \in Seq(Byte) : m = l \o d
    BY ConcatParts
  <1>3. /\ Len(m) = Len(l) + Len(d)
        /\ \A i \in 1 .. Len(l) + Len(d) : m[i] = IF i <= Len(l) THEN l[i] ELSE d[i - Len(l)]
    BY <1>2, ConcatParts
  <1>4. s # <<>> /\ c + Len(s) <= Len(l) /\ \A i \in 1 .. Len(s) : s[i] = l[c + i]
    BY <1>1 DEF FromLog
  <1>5. v.log = m /\ v.consumed = c
    BY <1>1, <1>2
  <1>6. c + Len(s) <= Len(m)
    BY <1>3, <1>4
  <1>7. ASSUME NEW i \in 1 .. Len(s) PROVE s[i] = m[c + i]
    <2>1. c + i \in 1 .. Len(l) + Len(d) /\ c + i <= Len(l)
      BY <1>4
    <2>2. m[c + i] = l[c + i]
      BY <2>1, <1>3
    <2>3. QED
      BY <2>2, <1>4
  <1>8. QED
    BY <1>4, <1>5, <1>6, <1>7 DEF FromLog

(* A chunk peeked from the ring is what a transfer may take from it. *)
LEMMA PeekIsFromLog ==
  ASSUME NEW u, UsbOK(u), PeekChunk(u.tx, Chunk) # <<>>
  PROVE  FromLog(u, PeekChunk(u.tx, Chunk))
  <1>1. PICK c \in Seq(Byte), n \in Nat : c = Contents(u.tx) /\ n = u.tx.count /\ Len(c) = n
    BY ContentsIsSeq, RingParts DEF UsbOK, RingOK
  <1>2. PICK m \in Nat : m = MinOf(n, Chunk) /\ m <= n
    BY UsbAssumption DEF MinOf
  <1>3. PICK s : s = PeekChunk(u.tx, Chunk)
    OBVIOUS
  <1>4. s = SubSeq(c, 1, m)
    BY <1>1, <1>2, <1>3, PeekIsPrefix, UsbAssumption DEF UsbOK, RingOK
  <1>5. Len(s) = m /\ \A i \in 1 .. m : s[i] = c[i]
    BY <1>1, <1>2, <1>4
  <1>6. PICK l \in Seq(Byte), k \in Nat, j \in Nat : l = u.log /\ k = u.consumed /\ j = Len(l)
    BY DEF UsbOK, RingOK
  <1>7. j = k + n
    BY <1>1, <1>6, Zenon DEF UsbOK, RingOK
  <1>8. c = SubSeq(l, k + 1, j)
    BY <1>1, <1>6, Zenon DEF UsbOK, RingOK
  <1>9. \A i \in 1 .. n : c[i] = l[k + i]
    <2>1. k \in 0 .. j /\ j - k = n
      BY <1>7
    <2>2. \A i \in 1 .. j - k : SubSeq(l, k + 1, j)[i] = l[k + i]
      <3>1. l \in Seq(Byte) /\ j \in Nat /\ j = Len(l) /\ k \in 0 .. j
        BY <1>6, <2>1
      <3>2. QED
        BY <3>1, SubSeqParts, ZenonT(30)
    <2>3. \A i \in 1 .. n : SubSeq(l, k + 1, j)[i] = l[k + i]
      BY <2>1, <2>2
    <2>4. QED
      BY <1>8, <2>3, Zenon
  <1>10. k + Len(s) <= Len(l)
    BY <1>2, <1>5, <1>6, <1>7
  <1>11. \A i \in 1 .. Len(s) : s[i] = l[k + i]
    BY <1>1, <1>2, <1>5, <1>9
  <1>12. QED
    BY <1>3, <1>6, <1>10, <1>11 DEF FromLog

-----------------------------------------------------------------------------
(* gateway_usb_reset_stream_session up to its tx_reset leaves no request,  *)
(* when the account was true and the cancellation is immediate.            *)
LEMMA CancelInIs ==
  ASSUME NEW u, UsbOK(u)
  PROVE  LET v == CancelIn(u)
         IN /\ Ports(u, v) /\ Keeps(u, v) /\ v.skewed = u.skewed
            /\ (~LateCancel /\ ~u.late /\ ~u.skewed /\ (u.inReq # <<>> => u.inBusy)) => Idle(v)
  <1>1. PICK d : d = IF u.inBusy THEN Dequeue(u) ELSE [u EXCEPT !.resetting = FALSE]
    OBVIOUS
  <1>2. PICK v : v = CancelIn(u)
    OBVIOUS
  <1>3. v = [d EXCEPT !.inBusy = FALSE, !.inFlight = 0]
    BY <1>1, <1>2 DEF CancelIn
  <1>4. /\ DOMAIN d = UsbFields
        /\ Ports(u, d) /\ Keeps(u, d) /\ d.skewed = u.skewed
        /\ (u.inBusy /\ u.inReq # <<>>) => d.inReq = <<>> /\ d.late = LateCancel
        /\ ~(u.inBusy /\ u.inReq # <<>>) => d.inReq = u.inReq /\ d.late = u.late
    <2>1. CASE u.inBusy /\ u.inReq # <<>>
      BY <1>1, <2>1 DEF Dequeue, UsbOK, FlagsOK, UsbFields, Ports, Keeps
    <2>2. CASE ~(u.inBusy /\ u.inReq # <<>>)
      BY <1>1, <2>2 DEF Dequeue, UsbOK, FlagsOK, UsbFields, Ports, Keeps
    <2>3. QED
      BY <2>1, <2>2
  <1>5. /\ v.configured = d.configured /\ v.outReq = d.outReq /\ v.initSent = d.initSent
        /\ v.log = d.log /\ v.skewed = d.skewed /\ v.late = d.late /\ v.inReq = d.inReq
    BY <1>3, <1>4 DEF UsbFields
  <1>6. ~v.inBusy
    BY <1>3, <1>4 DEF UsbFields
  <1>7. ASSUME ~LateCancel, ~u.late, ~u.skewed, u.inReq # <<>> => u.inBusy
        PROVE  Idle(v)
    <2>1. ~d.late
      BY <1>4, <1>7, Zenon
    <2>2. d.inReq = <<>>
      BY <1>4, <1>7
    <2>3. ~d.skewed
      BY <1>4, <1>7, Zenon
    <2>4. ~v.late /\ ~v.skewed
      BY <1>5, <2>1, <2>3, Zenon
    <2>5. QED
      BY <1>5, <1>6, <2>2, <2>4 DEF Idle
  <1>8. QED
    BY <1>2, <1>4, <1>5, <1>7 DEF Ports, Keeps

(* gateway_usb_tx_reset forgets the session and leaves the request alone. *)
LEMMA TxResetIs ==
  ASSUME NEW u, UsbOK(u)
  PROVE  LET v == TxReset(u)
         IN /\ Ports(u, v) /\ Forgotten(v)
            /\ ~v.skewed /\ v.late = u.late /\ v.inBusy = u.inBusy /\ v.inReq = u.inReq
  BY DEF TxReset, ClearRing, UsbOK, FlagsOK, UsbFields, Ports, Forgotten

(* gateway_usb_reset_stream_session *)
LEMMA ResetStreamSessionIs ==
  ASSUME NEW u, UsbOK(u)
  PROVE  LET v == ResetStreamSession(u)
         IN /\ Ports(u, v) /\ Forgotten(v)
            /\ (~LateCancel /\ ~u.late /\ ~u.skewed /\ (u.inReq # <<>> => u.inBusy)) => Idle(v)
  <1>1. PICK c : c = CancelIn(u)
    OBVIOUS
  <1>2. /\ UsbOK(c) /\ Ports(u, c)
        /\ (~LateCancel /\ ~u.late /\ ~u.skewed /\ (u.inReq # <<>> => u.inBusy)) => Idle(c)
    BY <1>1, CancelInOK, CancelInIs
  <1>3. PICK v : v = TxReset(c)
    OBVIOUS
  <1>4. /\ Ports(c, v) /\ Forgotten(v)
        /\ ~v.skewed /\ v.late = c.late /\ v.inBusy = c.inBusy /\ v.inReq = c.inReq
    BY <1>2, <1>3, TxResetIs
  <1>5. Idle(c) => Idle(v)
    BY <1>4, Zenon DEF Idle
  <1>6. v = ResetStreamSession(u)
    BY <1>1, <1>3 DEF ResetStreamSession
  <1>7. QED
    BY <1>2, <1>4, <1>5, <1>6 DEF Ports

(* gateway_usb_kick_tx hands over a chunk of the ring, if anything. *)
LEMMA KickTxIs ==
  ASSUME NEW u, UsbOK(u), NEW ok
  PROVE  LET v == KickTx(u, ok)
         IN Ports(u, v) /\ Keeps(u, v) /\ (Owned(u) => Owned(v))
  <1>1. PICK chunk \in Seq(Byte) : chunk = PeekChunk(u.tx, Chunk) /\ Len(chunk) \in 0 .. Chunk
    BY PeekChunkOK
  <1>2. PICK v : v = KickTx(u, ok)
    OBVIOUS
  <1>3. CASE ~u.configured \/ u.inBusy \/ chunk = << >>
    <2>1. v = u
      BY <1>1, <1>2, <1>3 DEF KickTx
    <2>2. QED
      BY <1>2, <2>1 DEF Ports, Keeps
  <1>4. CASE ~(~u.configured \/ u.inBusy \/ chunk = << >>) /\ Accepts(u, ok)
    <2>1. v = [u EXCEPT !.buf = chunk, !.inReq = chunk, !.inBusy = TRUE, !.inFlight = Len(chunk)]
      BY <1>1, <1>2, <1>4 DEF KickTx
    <2>2. /\ v.configured = u.configured /\ v.outReq = u.outReq /\ v.initSent = u.initSent
          /\ v.log = u.log /\ v.consumed = u.consumed /\ v.skewed = u.skewed /\ v.late = u.late
          /\ v.buf = chunk /\ v.inReq = chunk /\ v.inFlight = Len(chunk)
      BY <2>1 DEF UsbOK, FlagsOK, UsbFields
    <2>3. v.inBusy
      BY <2>1 DEF UsbOK, FlagsOK, UsbFields
    <2>4. FromLog(v, chunk)
      BY <1>1, <1>4, <2>2, PeekIsFromLog DEF FromLog
    <2>5. Held(v)
      BY <1>4, <2>2, <2>4 DEF Held
    <2>6. Owned(u) => ~v.late /\ ~v.skewed
      BY <2>2, Zenon DEF Owned
    <2>7. QED
      BY <1>2, <1>4, <2>2, <2>3, <2>5, <2>6 DEF Ports, Keeps, Owned
  <1>5. CASE ~(~u.configured \/ u.inBusy \/ chunk = << >>) /\ ~Accepts(u, ok)
    <2>1. v = [u EXCEPT !.buf = chunk, !.inBusy = FALSE, !.inFlight = 0]
      BY <1>1, <1>2, <1>5 DEF KickTx
    <2>2. /\ v.configured = u.configured /\ v.outReq = u.outReq /\ v.initSent = u.initSent
          /\ v.log = u.log /\ v.skewed = u.skewed /\ v.late = u.late /\ v.inReq = u.inReq
      BY <2>1 DEF UsbOK, FlagsOK, UsbFields
    <2>3. ~v.inBusy
      BY <2>1 DEF UsbOK, FlagsOK, UsbFields
    <2>4. Owned(u) => ~v.late /\ ~v.skewed
      BY <2>2, Zenon DEF Owned
    <2>5. Owned(u) => v.inReq = <<>>
      BY <1>5, <2>2 DEF Owned
    <2>6. QED
      BY <1>2, <2>2, <2>3, <2>4, <2>5 DEF Ports, Keeps, Owned, Held
  <1>6. QED
    BY <1>3, <1>4, <1>5

(* gateway_usb_send_pong *)
LEMMA SendPongIs ==
  ASSUME NEW u, UsbOK(u), NEW ok
  PROVE  LET v == SendPong(u, ok)
         IN Ports(u, v) /\ Keeps(u, v) /\ ((Owned(u) /\ u.configured) => Owned(v))
  <1>1. PICK v : v = SendPong(u, ok)
    OBVIOUS
  <1>2. CASE u.inBusy
    <2>1. v = u
      BY <1>1, <1>2 DEF SendPong
    <2>2. QED
      BY <1>1, <2>1 DEF Ports, Keeps
  <1>3. CASE ~u.inBusy /\ Accepts(u, ok)
    <2>1. v = [u EXCEPT !.buf = PongPacket, !.inReq = PongPacket, !.inBusy = TRUE, !.inFlight = 0]
      BY <1>1, <1>3 DEF SendPong
    <2>2. /\ v.configured = u.configured /\ v.outReq = u.outReq /\ v.initSent = u.initSent
          /\ v.log = u.log /\ v.skewed = u.skewed /\ v.late = u.late
          /\ v.buf = PongPacket /\ v.inReq = PongPacket /\ v.inFlight = 0
      BY <2>1 DEF UsbOK, FlagsOK, UsbFields
    <2>3. v.inBusy
      BY <2>1 DEF UsbOK, FlagsOK, UsbFields
    <2>4. Owned(u) => ~v.late /\ ~v.skewed
      BY <2>2, Zenon DEF Owned
    <2>5. PongPacket # <<>>
      BY DEF PongPacket
    <2>6. u.configured => Held(v)
      BY <2>2 DEF Held
    <2>7. QED
      BY <1>1, <2>2, <2>3, <2>4, <2>5, <2>6 DEF Ports, Keeps, Owned
  <1>4. CASE ~u.inBusy /\ ~Accepts(u, ok)
    <2>1. v = [u EXCEPT !.buf = PongPacket, !.inBusy = FALSE, !.inFlight = 0]
      BY <1>1, <1>4 DEF SendPong
    <2>2. /\ v.configured = u.configured /\ v.outReq = u.outReq /\ v.initSent = u.initSent
          /\ v.log = u.log /\ v.skewed = u.skewed /\ v.late = u.late /\ v.inReq = u.inReq
      BY <2>1 DEF UsbOK, FlagsOK, UsbFields
    <2>3. ~v.inBusy
      BY <2>1 DEF UsbOK, FlagsOK, UsbFields
    <2>4. Owned(u) => ~v.late /\ ~v.skewed
      BY <2>2, Zenon DEF Owned
    <2>5. Owned(u) => v.inReq = <<>>
      BY <1>4, <2>2 DEF Owned
    <2>6. QED
      BY <1>1, <2>2, <2>3, <2>4, <2>5 DEF Ports, Keeps, Owned, Held
  <1>5. QED
    BY <1>2, <1>3, <1>4

(* Owned and Idle speak of these fields only. *)
LEMMA OwnedSame ==
  ASSUME NEW u, NEW v,
         /\ v.late = u.late /\ v.skewed = u.skewed /\ v.inBusy = u.inBusy
         /\ v.inReq = u.inReq /\ v.buf = u.buf /\ v.inFlight = u.inFlight
         /\ v.configured = u.configured /\ v.log = u.log /\ v.consumed = u.consumed
  PROVE  (Owned(u) => Owned(v)) /\ (Idle(u) => Idle(v))
  BY Zenon DEF Owned, Idle, Held, FromLog

(* gateway_usb_queue_out_request *)
LEMMA QueueOutIs ==
  ASSUME NEW u, UsbOK(u), NEW ok
  PROVE  LET v == QueueOut(u, ok)
         IN Keeps(u, v) /\ (Owned(u) => Owned(v)) /\ (OutOK(u) => OutOK(v))
  <1>1. PICK v : v = QueueOut(u, ok)
    OBVIOUS
  <1>2. CASE u.configured /\ ok
    <2>1. v = [u EXCEPT !.outReq = TRUE]
      BY <1>1, <1>2 DEF QueueOut
    <2>2. /\ v.late = u.late /\ v.skewed = u.skewed /\ v.inBusy = u.inBusy
          /\ v.inReq = u.inReq /\ v.buf = u.buf /\ v.inFlight = u.inFlight
          /\ v.configured = u.configured /\ v.log = u.log /\ v.consumed = u.consumed
          /\ v.initSent = u.initSent
      BY <2>1 DEF UsbOK, FlagsOK, UsbFields
    <2>3. QED
      BY <1>1, <1>2, <2>2, OwnedSame DEF Keeps, OutOK
  <1>3. CASE ~(u.configured /\ ok)
    <2>1. v = u
      BY <1>1, <1>3 DEF QueueOut
    <2>2. QED
      BY <1>1, <2>1 DEF Keeps
  <1>4. QED
    BY <1>2, <1>3

(* gateway_usb_in_complete with an error, once the controller has given    *)
(* the request back.                                                       *)
LEMMA InCompleteErrorIs ==
  ASSUME NEW u, UsbOK(u)
  PROVE  LET v == InCompleteError(u)
         IN /\ Ports(u, v) /\ (Keeps(u, v) \/ Forgotten(v))
            /\ (~LateCancel /\ ~u.late /\ ~u.skewed /\ u.inReq = <<>>) => Idle(v)
  <1>1. PICK w : w = [u EXCEPT !.progress = TRUE, !.inBusy = FALSE, !.inFlight = 0]
    OBVIOUS
  <1>2. FlagsOK(w) /\ SameRing(u, w)
    BY <1>1, UsbAssumption DEF UsbOK, FlagsOK, UsbFields, SameRing
  <1>3. UsbOK(w)
    BY <1>2, SameRingOK DEF UsbOK
  <1>4. /\ w.late = u.late /\ w.skewed = u.skewed /\ w.inReq = u.inReq
        /\ w.configured = u.configured /\ w.outReq = u.outReq /\ w.initSent = u.initSent
        /\ w.log = u.log
    BY <1>1 DEF UsbOK, FlagsOK, UsbFields
  <1>5. ~w.inBusy
    BY <1>1 DEF UsbOK, FlagsOK, UsbFields
  <1>6. PICK v : v = InCompleteError(u)
    OBVIOUS
  <1>7. (~u.late /\ ~u.skewed) => (~w.late /\ ~w.skewed)
    BY <1>4, Zenon
  <1>8. CASE w.resetting
    <2>1. v = [w EXCEPT !.resetting = FALSE]
      BY <1>1, <1>6, <1>8 DEF InCompleteError
    <2>2. /\ v.late = w.late /\ v.skewed = w.skewed /\ v.inReq = w.inReq /\ v.inBusy = w.inBusy
          /\ v.configured = w.configured /\ v.outReq = w.outReq /\ v.initSent = w.initSent
          /\ v.log = w.log
      BY <2>1, <1>3 DEF UsbOK, FlagsOK, UsbFields
    <2>3. Ports(u, v) /\ Keeps(u, v)
      BY <1>4, <2>2 DEF Ports, Keeps
    <2>4. (~u.late /\ ~u.skewed) => (~v.late /\ ~v.skewed)
      BY <1>7, <2>2, Zenon
    <2>5. ~v.inBusy
      BY <1>5, <2>2, Zenon
    <2>6. v.inReq = u.inReq
      BY <1>4, <2>2
    <2>7. QED
      BY <1>6, <2>3, <2>4, <2>5, <2>6, Zenon DEF Idle
  <1>9. CASE ~w.resetting
    <2>1. v = ResetStreamSession(w)
      BY <1>1, <1>6, <1>9 DEF InCompleteError
    <2>2. /\ Ports(w, v) /\ Forgotten(v)
          /\ (~LateCancel /\ ~w.late /\ ~w.skewed /\ (w.inReq # <<>> => w.inBusy)) => Idle(v)
      BY <1>3, <2>1, ResetStreamSessionIs
    <2>3. Ports(u, v)
      BY <1>4, <2>2 DEF Ports
    <2>4. (~LateCancel /\ ~u.late /\ ~u.skewed /\ u.inReq = <<>>) => Idle(v)
      BY <1>4, <1>7, <2>2
    <2>5. QED
      BY <1>6, <2>2, <2>3, <2>4
  <1>10. QED
    BY <1>8, <1>9

(* A queued request that is dropped. *)
LEMMA FailInIs ==
  ASSUME NEW u, UsbOK(u)
  PROVE  LET v == FailIn(u)
         IN /\ Ports(u, v) /\ (Keeps(u, v) \/ Forgotten(v))
            /\ (~LateCancel /\ ~u.late /\ ~u.skewed /\ (u.inReq = <<>> => ~u.inBusy)) => Idle(v)
  <1>1. PICK v : v = FailIn(u)
    OBVIOUS
  <1>2. CASE u.inReq = <<>>
    <2>1. v = u
      BY <1>1, <1>2 DEF FailIn
    <2>2. QED
      BY <1>1, <1>2, <2>1 DEF Ports, Keeps, Idle
  <1>3. CASE u.inReq # <<>>
    <2>1. PICK w : w = [u EXCEPT !.inReq = << >>]
      OBVIOUS
    <2>2. FlagsOK(w) /\ SameRing(u, w)
      BY <2>1 DEF UsbOK, FlagsOK, UsbFields, SameRing
    <2>3. UsbOK(w)
      BY <2>2, SameRingOK DEF UsbOK
    <2>4. /\ w.late = u.late /\ w.skewed = u.skewed /\ w.inReq = <<>>
          /\ w.configured = u.configured /\ w.outReq = u.outReq /\ w.initSent = u.initSent
          /\ w.log = u.log
      BY <2>1 DEF UsbOK, FlagsOK, UsbFields
    <2>5. v = InCompleteError(w)
      BY <1>1, <1>3, <2>1 DEF FailIn
    <2>6. /\ Ports(w, v) /\ (Keeps(w, v) \/ Forgotten(v))
          /\ (~LateCancel /\ ~w.late /\ ~w.skewed /\ w.inReq = <<>>) => Idle(v)
      BY <2>3, <2>5, InCompleteErrorIs
    <2>7. Ports(u, v) /\ (Keeps(u, v) \/ Forgotten(v))
      BY <2>4, <2>6 DEF Ports, Keeps
    <2>8. (~u.late /\ ~u.skewed) => (~w.late /\ ~w.skewed)
      BY <2>4, Zenon
    <2>9. (~LateCancel /\ ~u.late /\ ~u.skewed) => Idle(v)
      BY <2>4, <2>6, <2>8
    <2>10. QED
      BY <1>1, <2>7, <2>9
  <1>4. QED
    BY <1>2, <1>3

(* gateway_usb_function_disable *)
LEMMA FunctionDisableIs ==
  ASSUME NEW u, UsbOK(u)
  PROVE  LET v == FunctionDisable(u)
         IN /\ ~v.configured /\ ~v.outReq /\ Forgotten(v)
            /\ (~LateCancel /\ ~u.late) => Idle(v)
  <1>1. PICK a : a = [u EXCEPT !.configured = FALSE, !.inBusy = FALSE]
    OBVIOUS
  <1>2. FlagsOK(a) /\ SameRing(u, a)
    BY <1>1 DEF UsbOK, FlagsOK, UsbFields, SameRing
  <1>3. UsbOK(a)
    BY <1>2, SameRingOK DEF UsbOK
  <1>4. ~a.configured /\ ~a.inBusy /\ a.late = u.late
    BY <1>1 DEF UsbOK, FlagsOK, UsbFields
  <1>5. PICK b : b = TxReset(a)
    OBVIOUS
  <1>6. /\ UsbOK(b) /\ Ports(a, b) /\ Forgotten(b)
        /\ ~b.skewed /\ b.late = a.late /\ b.inBusy = a.inBusy
    BY <1>3, <1>5, TxResetOK, TxResetIs
  <1>7. ~b.inBusy /\ (~u.late => ~b.late) /\ ~b.configured
    BY <1>4, <1>6, Zenon DEF Ports
  <1>8. PICK c : c = FailIn(b)
    OBVIOUS
  <1>9. /\ UsbOK(c) /\ Ports(b, c) /\ (Keeps(b, c) \/ Forgotten(c))
        /\ (~LateCancel /\ ~b.late /\ ~b.skewed /\ (b.inReq = <<>> => ~b.inBusy)) => Idle(c)
    BY <1>6, <1>8, FailInOK, FailInIs
  <1>10. Forgotten(c) /\ ~c.configured /\ ((~LateCancel /\ ~u.late) => Idle(c))
    BY <1>6, <1>7, <1>9, Zenon DEF Forgotten, Keeps, Ports
  <1>11. PICK v : v = FunctionDisable(u)
    OBVIOUS
  <1>12. v = [c EXCEPT !.outReq = FALSE]
    BY <1>1, <1>5, <1>8, <1>11 DEF FunctionDisable
  <1>13. /\ v.late = c.late /\ v.skewed = c.skewed /\ v.inBusy = c.inBusy /\ v.inReq = c.inReq
         /\ v.configured = c.configured /\ v.initSent = c.initSent /\ v.log = c.log
    BY <1>9, <1>12 DEF UsbOK, FlagsOK, UsbFields
  <1>14. ~v.outReq
    BY <1>9, <1>12 DEF UsbOK, FlagsOK, UsbFields
  <1>15. ~v.configured /\ Forgotten(v) /\ (Idle(c) => Idle(v))
    BY <1>10, <1>13, Zenon DEF Forgotten, Idle
  <1>16. QED
    BY <1>10, <1>11, <1>14, <1>15

(* gateway_usb_function_set_alt, whatever it comes to *)
LEMMA FunctionSetAltIs ==
  ASSUME NEW u, UsbOK(u), NEW result \in SetAltResult, NEW ok
  PROVE  LET v == FunctionSetAlt(u, result, ok)
         IN /\ Keeps(u, v) \/ Forgotten(v)
            /\ OutOK(u) => OutOK(v)
            /\ (~LateCancel /\ Owned(u)) => Owned(v)
  <1>1. PICK a : a = IF u.configured THEN FunctionDisable(u) ELSE u
    OBVIOUS
  <1>2. /\ UsbOK(a) /\ ~a.configured /\ (Keeps(u, a) \/ Forgotten(a))
        /\ OutOK(u) => ~a.outReq
        /\ (~LateCancel /\ Owned(u)) => Idle(a)
    <2>1. CASE u.configured
      <3>1. a = FunctionDisable(u)
        BY <1>1, <2>1
      <3>2. /\ UsbOK(a) /\ ~a.configured /\ ~a.outReq /\ Forgotten(a)
            /\ (~LateCancel /\ ~u.late) => Idle(a)
        BY <3>1, FunctionDisableOK, FunctionDisableIs
      <3>3. QED
        BY <3>2 DEF Owned
    <2>2. CASE ~u.configured
      <3>1. a = u
        BY <1>1, <2>2
      <3>2. OutOK(u) => ~a.outReq
        BY <2>2, <3>1 DEF OutOK
      <3>3. Owned(u) => Idle(a)
        BY <2>2, <3>1 DEF Owned, Held, Idle
      <3>4. Keeps(u, a)
        BY <3>1 DEF Keeps
      <3>5. UsbOK(a) /\ ~a.configured
        BY <2>2, <3>1
      <3>6. QED
        BY <3>2, <3>3, <3>4, <3>5
    <2>3. QED
      BY <2>1, <2>2
  <1>3. PICK v : v = FunctionSetAlt(u, result, ok)
    OBVIOUS
  <1>4. CASE result = "noIn"
    <2>1. v = a
      BY <1>1, <1>3, <1>4 DEF FunctionSetAlt
    <2>2. QED
      BY <1>2, <1>3, <2>1, IdleIsOwned DEF OutOK
  <1>5. CASE result = "noOut"
    <2>1. v = FailIn(a)
      BY <1>1, <1>3, <1>5 DEF FunctionSetAlt
    <2>2. /\ Ports(a, v) /\ (Keeps(a, v) \/ Forgotten(v))
          /\ (~LateCancel /\ ~a.late /\ ~a.skewed /\ (a.inReq = <<>> => ~a.inBusy)) => Idle(v)
      BY <1>2, <2>1, FailInIs
    <2>3. (~LateCancel /\ Owned(u)) => Owned(v)
      BY <1>2, <2>2, IdleIsOwned DEF Idle
    <2>4. OutOK(u) => OutOK(v)
      BY <1>2, <2>2, Zenon DEF OutOK, Ports
    <2>5. Keeps(u, v) \/ Forgotten(v)
      BY <1>2, <2>2, Zenon DEF Keeps, Forgotten
    <2>6. QED
      BY <1>3, <2>3, <2>4, <2>5
  <1>6. CASE result = "noRequest"
    <2>1. v = FunctionDisable(a)
      BY <1>1, <1>3, <1>6 DEF FunctionSetAlt
    <2>2. ~v.outReq /\ Forgotten(v) /\ ((~LateCancel /\ ~a.late) => Idle(v))
      BY <1>2, <2>1, FunctionDisableIs
    <2>3. QED
      BY <1>2, <1>3, <2>2, IdleIsOwned DEF OutOK, Idle
  <1>7. CASE result = "done"
    <2>1. PICK b : b = [a EXCEPT !.configured = TRUE, !.inBusy = FALSE, !.hostReady = FALSE]
      OBVIOUS
    <2>2. FlagsOK(b) /\ SameRing(a, b)
      BY <1>2, <2>1 DEF UsbOK, FlagsOK, UsbFields, SameRing
    <2>3. UsbOK(b)
      BY <1>2, <2>2, SameRingOK DEF UsbOK
    <2>4. /\ b.late = a.late /\ b.inReq = a.inReq /\ b.inBusy = FALSE /\ b.configured = TRUE
      BY <1>2, <2>1 DEF UsbOK, FlagsOK, UsbFields
    <2>5. PICK c : c = TxReset(b)
      OBVIOUS
    <2>6. /\ UsbOK(c) /\ Ports(b, c) /\ Forgotten(c)
          /\ ~c.skewed /\ c.late = b.late /\ c.inBusy = b.inBusy /\ c.inReq = b.inReq
      BY <2>3, <2>5, TxResetOK, TxResetIs
    <2>7. c.configured /\ (Idle(a) => Idle(c))
      BY <2>4, <2>6, Zenon DEF Ports, Idle
    <2>8. v = QueueOut(c, ok)
      BY <1>1, <1>3, <1>7, <2>1, <2>5 DEF FunctionSetAlt
    <2>9. Keeps(c, v) /\ (Owned(c) => Owned(v)) /\ (OutOK(c) => OutOK(v))
      BY <2>6, <2>8, QueueOutIs
    <2>10. Forgotten(v)
      BY <2>6, <2>9, Zenon DEF Keeps, Forgotten
    <2>11. (~LateCancel /\ Owned(u)) => Owned(v)
      BY <1>2, <2>7, <2>9, IdleIsOwned
    <2>12. OutOK(v)
      BY <2>7, <2>9 DEF OutOK
    <2>13. QED
      BY <1>3, <2>10, <2>11, <2>12
  <1>8. QED
    BY <1>4, <1>5, <1>6, <1>7 DEF SetAltResult

(* gateway_usb_disconnect and gateway_usb_suspend *)
LEMMA BusLostIs ==
  ASSUME NEW u, UsbOK(u)
  PROVE  LET v == BusLost(u)
         IN /\ Forgotten(v)
            /\ (~LateCancel /\ ~KeepsRequest /\ Owned(u)) => Idle(v) /\ OutOK(v)
  <1>1. PICK f : f = FailIn(u)
    OBVIOUS
  <1>2. /\ UsbOK(f)
        /\ (~LateCancel /\ ~u.late /\ ~u.skewed /\ (u.inReq = <<>> => ~u.inBusy)) => Idle(f)
    BY <1>1, FailInOK, FailInIs
  <1>3. PICK a : a = IF KeepsRequest THEN u ELSE [f EXCEPT !.outReq = FALSE]
    OBVIOUS
  <1>4. /\ UsbOK(a)
        /\ ~KeepsRequest => ~a.outReq /\ (Idle(f) => Idle(a))
    <2>1. CASE KeepsRequest
      BY <1>3, <2>1
    <2>2. CASE ~KeepsRequest
      <3>1. a = [f EXCEPT !.outReq = FALSE]
        BY <1>3, <2>2
      <3>2. FlagsOK(a) /\ SameRing(f, a)
        BY <1>2, <3>1 DEF UsbOK, FlagsOK, UsbFields, SameRing
      <3>3. UsbOK(a)
        BY <1>2, <3>2, SameRingOK DEF UsbOK
      <3>4. /\ a.late = f.late /\ a.skewed = f.skewed /\ a.inBusy = f.inBusy /\ a.inReq = f.inReq
            /\ a.outReq = FALSE
        BY <1>2, <3>1 DEF UsbOK, FlagsOK, UsbFields
      <3>5. ~a.outReq /\ (Idle(f) => Idle(a))
        BY <3>4, Zenon DEF Idle
      <3>6. QED
        BY <3>3, <3>5
    <2>3. QED
      BY <2>1, <2>2
  <1>5. PICK b : b = [a EXCEPT !.configured = FALSE, !.inBusy = FALSE]
    OBVIOUS
  <1>6. FlagsOK(b) /\ SameRing(a, b)
    BY <1>4, <1>5 DEF UsbOK, FlagsOK, UsbFields, SameRing
  <1>7. UsbOK(b)
    BY <1>4, <1>6, SameRingOK DEF UsbOK
  <1>8. /\ b.late = a.late /\ b.inReq = a.inReq /\ b.inBusy = FALSE /\ b.outReq = a.outReq
    BY <1>4, <1>5 DEF UsbOK, FlagsOK, UsbFields
  <1>9. PICK v : v = BusLost(u)
    OBVIOUS
  <1>10. v = TxReset(b)
    BY <1>1, <1>3, <1>5, <1>9 DEF BusLost
  <1>11. /\ Ports(b, v) /\ Forgotten(v)
         /\ ~v.skewed /\ v.late = b.late /\ v.inBusy = b.inBusy /\ v.inReq = b.inReq
    BY <1>7, <1>10, TxResetIs
  <1>12. (~LateCancel /\ ~KeepsRequest /\ Owned(u)) => Idle(a) /\ ~a.outReq
    BY <1>2, <1>4 DEF Owned
  <1>13. (Idle(a) => Idle(v)) /\ (~a.outReq => ~v.outReq)
    BY <1>8, <1>11, Zenon DEF Idle, Ports
  <1>14. QED
    BY <1>9, <1>11, <1>12, <1>13 DEF OutOK

(* gateway_usb_tx_enqueue_packet does not disturb the transfer: what it    *)
(* adds comes behind what the transfer takes.                              *)
LEMMA TxEnqueueIs ==
  ASSUME NEW u, UsbOK(u), NEW a \in Seq(Byte), NEW b \in Seq(Byte)
  PROVE  LET v == TxEnqueue(u, a, b)
         IN /\ Ports(u, v) /\ v.initSent = u.initSent
            /\ Fits(u.tx, a, b) => v.log = u.log \o (a \o b)
            /\ ~Fits(u.tx, a, b) => v.log = u.log
            /\ Owned(u) => Owned(v)
            /\ v.buf = u.buf /\ v.inReq = u.inReq
            /\ \A s \in Seq(Byte) : FromLog(u, s) => FromLog(v, s)
  <1>1. PICK v : v = TxEnqueue(u, a, b)
    OBVIOUS
  <1>2. /\ v.late = u.late /\ v.skewed = u.skewed /\ v.inBusy = u.inBusy
        /\ v.inReq = u.inReq /\ v.buf = u.buf /\ v.inFlight = u.inFlight
        /\ v.configured = u.configured /\ v.consumed = u.consumed
        /\ v.initSent = u.initSent /\ v.outReq = u.outReq
    BY <1>1 DEF TxEnqueue, UsbOK, FlagsOK, UsbFields
  <1>3. /\ Fits(u.tx, a, b) => v.log = u.log \o (a \o b)
        /\ ~Fits(u.tx, a, b) => v.log = u.log
    BY <1>1, TxEnqueueOK, ZenonT(30) DEF Appended, SameRing
  <1>4. PICK d \in Seq(Byte) : d = a \o b
    BY ConcatParts
  <1>5. /\ u.log \in Seq(Byte) /\ u.consumed \in Nat /\ u.inReq \in Seq(Byte)
    BY DEF UsbOK, RingOK, FlagsOK
  <1>6. \A s \in Seq(Byte) : FromLog(u, s) => FromLog(v, s)
    <2>1. CASE Fits(u.tx, a, b)
      <3>1. v.log = u.log \o d
        BY <1>3, <1>4, <2>1
      <3>2. QED
        BY <1>2, <1>5, <3>1, FromLogGrows
    <2>2. CASE ~Fits(u.tx, a, b)
      <3>1. v.log = u.log
        BY <1>3, <2>2
      <3>2. QED
        BY <1>2, <3>1, Zenon DEF FromLog
    <2>3. QED
      BY <2>1, <2>2
  <1>7. Owned(u) => Owned(v)
    <2>1. SUFFICES ASSUME Owned(u) PROVE Owned(v)
      OBVIOUS
    <2>2. ~v.late /\ ~v.skewed /\ (v.inBusy <=> v.inReq # <<>>)
      BY <1>2, <2>1, Zenon DEF Owned
    <2>3. Held(v)
      BY <1>2, <1>5, <1>6, <2>1 DEF Owned, Held
    <2>4. QED
      BY <2>2, <2>3 DEF Owned
  <1>8. QED
    BY <1>1, <1>2, <1>3, <1>6, <1>7 DEF Ports

(* gateway_usb_enqueue_init_packet: at most once in a session, and first.  *)
LEMMA EnqueueInitIs ==
  ASSUME NEW u, UsbOK(u)
  PROVE  LET v == EnqueueInit(u)
         IN /\ Ports(u, v) /\ (Owned(u) => Owned(v))
            /\ Session(u) => Keeps(u, v) \/ Opened(v)
  <1>1. PICK v : v = EnqueueInit(u)
    OBVIOUS
  <1>2. CASE u.initSent \/ ~Fits(u.tx, InitPacket, << >>)
    <2>1. v = u
      BY <1>1, <1>2 DEF EnqueueInit
    <2>2. QED
      BY <1>1, <2>1 DEF Ports, Keeps
  <1>3. CASE ~(u.initSent \/ ~Fits(u.tx, InitPacket, << >>))
    <2>1. PICK w : w = TxEnqueue(u, InitPacket, << >>)
      OBVIOUS
    <2>2. InitPacket \in Seq(Byte) /\ << >> \in Seq(Byte) /\ InitPacket \o << >> = InitPacket
      BY InitIsBytes
    <2>3. UsbOK(w) /\ Ports(u, w) /\ w.log = u.log \o InitPacket /\ (Owned(u) => Owned(w))
      <3>1. UsbOK(w) /\ Ports(u, w) /\ (Owned(u) => Owned(w))
        BY <2>1, <2>2, TxEnqueueOK, TxEnqueueIs
      <3>2. w.log = u.log \o (InitPacket \o <<>>)
        BY <1>3, <2>1, <2>2, TxEnqueueIs
      <3>3. QED
        BY <2>2, <3>1, <3>2, Zenon
    <2>4. v = [w EXCEPT !.initSent = TRUE]
      BY <1>1, <1>3, <2>1 DEF EnqueueInit
    <2>5. /\ v.late = w.late /\ v.skewed = w.skewed /\ v.inBusy = w.inBusy
          /\ v.inReq = w.inReq /\ v.buf = w.buf /\ v.inFlight = w.inFlight
          /\ v.configured = w.configured /\ v.log = w.log /\ v.consumed = w.consumed
          /\ v.outReq = w.outReq /\ v.initSent = TRUE
      BY <2>3, <2>4 DEF UsbOK, FlagsOK, UsbFields
    <2>6. Owned(u) => Owned(v)
      BY <2>3, <2>5, OwnedSame
    <2>7. Session(u) => Opened(v)
      <3>1. Session(u) => u.log = <<>>
        BY <1>3 DEF Session
      <3>2. <<>> \o InitPacket = InitPacket
        BY DEF InitPacket
      <3>3. QED
        BY <2>3, <2>5, <3>1, <3>2 DEF Opened
    <2>8. QED
      BY <1>1, <2>3, <2>5, <2>6, <2>7 DEF Ports
  <1>4. QED
    BY <1>2, <1>3

(* The tail of gateway_usb_out_complete *)
LEMMA EnqueueInitAndKickIs ==
  ASSUME NEW u, UsbOK(u), NEW ok
  PROVE  LET v == EnqueueInitAndKick(u, ok)
         IN /\ Ports(u, v) /\ (Owned(u) => Owned(v))
            /\ Session(u) => Keeps(u, v) \/ Opened(v)
  <1>1. PICK w : w = EnqueueInit(u)
    OBVIOUS
  <1>2. /\ UsbOK(w) /\ Ports(u, w) /\ (Owned(u) => Owned(w))
        /\ Session(u) => Keeps(u, w) \/ Opened(w)
    BY <1>1, EnqueueInitOK, EnqueueInitIs
  <1>3. PICK v : v = IF w.initSent THEN KickTx(w, ok) ELSE w
    OBVIOUS
  <1>4. Ports(w, v) /\ Keeps(w, v) /\ (Owned(w) => Owned(v))
    BY <1>2, <1>3, KickTxIs DEF Ports, Keeps
  <1>5. v = EnqueueInitAndKick(u, ok)
    BY <1>1, <1>3 DEF EnqueueInitAndKick
  <1>6. Session(u) => Keeps(u, v) \/ Opened(v)
    BY <1>2, <1>4, Zenon DEF Keeps, Opened
  <1>7. QED
    BY <1>2, <1>4, <1>5, <1>6 DEF Ports

(* The elements of a piece of a sequence. *)
LEMMA PieceParts ==
  ASSUME NEW l \in Seq(Byte), NEW c \in Nat, NEW n \in Nat, c + n <= Len(l)
  PROVE  /\ SubSeq(l, c + 1, c + n) \in Seq(Byte)
         /\ Len(SubSeq(l, c + 1, c + n)) = n
         /\ \A i \in 1 .. n : SubSeq(l, c + 1, c + n)[i] = l[c + i]
  <1>1. Len(SubSeq(l, c + 1, c + n)) = n
    OBVIOUS
  <1>2. \A i \in 1 .. n : SubSeq(l, c + 1, c + n)[i] = l[c + i]
    OBVIOUS
  <1>3. SubSeq(l, c + 1, c + n) \in Seq(Byte)
    <2>1. \A i \in c + 1 .. c + n : l[i] \in Byte
      OBVIOUS
    <2>2. QED
      BY <2>1
  <1>4. QED
    BY <1>1, <1>2, <1>3

(* Equal elements make equal pieces. *)
LEMMA SamePiece ==
  ASSUME NEW s \in Seq(Byte), NEW l \in Seq(Byte), NEW c \in Nat, NEW n \in Nat,
         n <= Len(s), c + n <= Len(l), \A i \in 1 .. n : s[i] = l[c + i]
  PROVE  SubSeq(s, 1, n) = SubSeq(l, c + 1, c + n)
  <1>1. PICK x, y : x = SubSeq(s, 1, n) /\ y = SubSeq(l, c + 1, c + n)
    OBVIOUS
  <1>2. x \in Seq(Byte) /\ Len(x) = n /\ \A i \in 1 .. n : x[i] = s[i]
    BY <1>1
  <1>3. y \in Seq(Byte) /\ Len(y) = n /\ \A i \in 1 .. n : y[i] = l[c + i]
    BY <1>1, PieceParts
  <1>4. \A i \in 1 .. Len(x) : x[i] = y[i]
    BY <1>2, <1>3
  <1>5. QED
    BY <1>1, <1>2, <1>3, <1>4, SeqEqual

(* No byte of the PONG is ever in the ring.                                *)
Clean(log) == \A i \in DOMAIN log : log[i] # PongPacket[1]

(* What the host receives when its read ends: the PONG, which takes        *)
(* nothing from the ring, or the bytes that the ring gives up.             *)
LEMMA ReceivedIsConsumed ==
  ASSUME NEW u, UsbOK(u), Owned(u), Clean(u.log), u.inReq # <<>>,
         NEW actual \in 1 .. Len(u.inReq),
         NEW len, len = IF 0 < actual /\ actual < u.inFlight THEN actual ELSE u.inFlight,
         NEW received, received = SubSeq(u.buf, 1, MinOf(actual, Len(u.buf)))
  PROVE  /\ len \in Nat
         /\ SubSeq(u.log, u.consumed + 1, u.consumed + MinOf(len, u.tx.count))
              = IF received = PongPacket THEN <<>> ELSE received
  <1>1. PICK l \in Seq(Byte), c \in Nat, n \in Nat, s \in Seq(Byte) :
          l = u.log /\ c = u.consumed /\ n = u.tx.count /\ s = u.inReq
    BY RingParts DEF UsbOK, RingOK, FlagsOK
  <1>2. Len(l) = c + n
    BY <1>1, Zenon DEF UsbOK, RingOK
  <1>3. u.buf = s /\ s # <<>> /\ actual \in 1 .. Len(s)
    BY <1>1 DEF Owned, Held
  <1>4. MinOf(actual, Len(s)) = actual /\ actual \in Nat /\ 0 < actual
    BY <1>3 DEF MinOf
  <1>5. received = SubSeq(s, 1, actual)
    BY <1>3, <1>4
  <1>6. CASE s = PongPacket /\ u.inFlight = 0
    <2>1. len = 0 /\ MinOf(len, n) = 0
      BY <1>1, <1>4, <1>6 DEF MinOf
    <2>2. received = PongPacket
      <3>1. PICK e : e = <<-1, 1, 1>>
        OBVIOUS
      <3>2. s = <<e>> /\ PongPacket = <<e>>
        BY <1>6, <3>1 DEF PongPacket
      <3>3. Len(s) = 1 /\ actual = 1
        BY <1>3, <3>2
      <3>4. received \in Seq(Byte) /\ Len(received) = 1 /\ received[1] = s[1]
        <4>1. s \in Seq(Byte) /\ 0 + 1 <= Len(s)
          BY <1>1, <3>3
        <4>2. SubSeq(s, 1, 1) \in Seq(Byte)
          BY <4>1
        <4>3. Len(SubSeq(s, 1, 1)) = 1
          BY <4>1
        <4>4. SubSeq(s, 1, 1)[1] = s[1]
          BY <4>1
        <4>5. QED
          BY <1>5, <3>3, <4>2, <4>3, <4>4
      <3>5. \A i \in 1 .. Len(received) : received[i] = s[i]
        BY <3>4
      <3>6. s \in Seq(Byte) /\ Len(s) = Len(received)
        BY <1>1, <3>3, <3>4
      <3>7. received = s
        BY <3>4, <3>5, <3>6, SeqEqual
      <3>8. QED
        BY <1>6, <3>7
    <2>3. SubSeq(l, c + 1, c + 0) = <<>>
      BY <1>1
    <2>4. QED
      BY <1>1, <2>1, <2>2, <2>3
  <1>7. CASE FromLog(u, s) /\ u.inFlight = Len(s)
    <2>1. /\ c + Len(s) <= Len(l) /\ \A i \in 1 .. Len(s) : s[i] = l[c + i]
      BY <1>1, <1>7 DEF FromLog
    <2>2. len = actual /\ actual <= Len(s)
      BY <1>3, <1>4, <1>7
    <2>3. actual <= n
      BY <1>1, <1>2, <1>4, <2>1, <2>2
    <2>4. MinOf(len, n) = actual
      BY <1>1, <1>4, <2>2, <2>3 DEF MinOf
    <2>5. received = SubSeq(l, c + 1, c + actual)
      <3>1. c + actual <= Len(l) /\ \A i \in 1 .. actual : s[i] = l[c + i]
        BY <1>1, <1>4, <2>1, <2>2
      <3>2. s \in Seq(Byte) /\ l \in Seq(Byte) /\ c \in Nat /\ actual \in Nat /\ actual <= Len(s)
        BY <1>1, <1>4, <2>2
      <3>3. SubSeq(s, 1, actual) = SubSeq(l, c + 1, c + actual)
        BY <3>1, <3>2, SamePiece
      <3>4. QED
        BY <1>5, <3>3
    <2>6. received # PongPacket
      <3>1. received[1] = l[c + 1]
        <4>1. s[1] = l[c + 1]
          BY <1>1, <1>3, <2>1
        <4>2. received[1] = s[1]
          <5>1. s \in Seq(Byte) /\ actual \in Nat /\ 0 < actual /\ actual <= Len(s)
            BY <1>1, <1>4, <2>2
          <5>2. SubSeq(s, 1, actual)[1] = s[1]
            BY <5>1
          <5>3. QED
            BY <1>5, <5>2
        <4>3. QED
          BY <4>1, <4>2
      <3>2. c + 1 \in DOMAIN l
        BY <1>1, <1>4, <2>1, <2>2
      <3>3. l[c + 1] # PongPacket[1]
        BY <1>1, <3>2 DEF Clean
      <3>4. QED
        BY <3>1, <3>3
    <2>7. QED
      BY <1>1, <1>4, <2>2, <2>4, <2>5, <2>6
  <1>8. QED
    BY <1>1, <1>6, <1>7 DEF Owned, Held

(* gateway_usb_in_complete with status 0 keeps the session; when the host  *)
(* received what the ring gives up, nothing is skewed.                     *)
LEMMA CompletionIs ==
  ASSUME NEW u, UsbOK(u), NEW actual \in Nat, NEW received, NEW ok
  PROVE  LET v == Completion(u, actual, received, ok)
             len == IF 0 < actual /\ actual < u.inFlight THEN actual ELSE u.inFlight
         IN /\ Ports(u, v) /\ Keeps(u, v)
            /\ (/\ ~u.late /\ ~u.skewed /\ u.inReq = <<>>
                /\ SubSeq(u.log, u.consumed + 1, u.consumed + MinOf(len, u.tx.count))
                     = IF received = PongPacket THEN <<>> ELSE received) => Owned(v)
  <1>1. PICK len : len = IF 0 < actual /\ actual < u.inFlight THEN actual ELSE u.inFlight
    OBVIOUS
  <1>2. len \in Nat
    BY <1>1, UsbAssumption DEF UsbOK, FlagsOK
  <1>3. PICK a : a = [u EXCEPT !.progress = TRUE, !.inBusy = FALSE, !.inFlight = 0]
    OBVIOUS
  <1>4. FlagsOK(a) /\ SameRing(u, a)
    BY <1>3, UsbAssumption DEF UsbOK, FlagsOK, UsbFields, SameRing
  <1>5. UsbOK(a)
    BY <1>4, SameRingOK DEF UsbOK
  <1>6. /\ a.late = u.late /\ a.skewed = u.skewed /\ a.inBusy = FALSE /\ a.inReq = u.inReq
        /\ a.configured = u.configured /\ a.outReq = u.outReq /\ a.initSent = u.initSent
        /\ a.log = u.log /\ a.consumed = u.consumed /\ a.tx = u.tx
    BY <1>3 DEF UsbOK, FlagsOK, UsbFields
  <1>7. PICK b : b = TxConsume(a, len)
    OBVIOUS
  <1>8. UsbOK(b)
    BY <1>2, <1>5, <1>7, TxConsumeOK
  <1>9. /\ b.late = a.late /\ b.skewed = a.skewed /\ b.inBusy = a.inBusy /\ b.inReq = a.inReq
        /\ b.configured = a.configured /\ b.outReq = a.outReq /\ b.initSent = a.initSent
        /\ b.log = a.log /\ b.consumed = a.consumed + MinOf(len, a.tx.count)
    BY <1>5, <1>7 DEF TxConsume, UsbOK, FlagsOK, UsbFields
  <1>10. PICK k : k = KickTx(b, ok)
    OBVIOUS
  <1>11. UsbOK(k) /\ SameRing(b, k) /\ Ports(b, k) /\ Keeps(b, k) /\ (Owned(b) => Owned(k))
    BY <1>8, <1>10, KickTxOK, KickTxIs
  <1>12. k = InCompleteOk(u, actual, ok)
    BY <1>1, <1>3, <1>7, <1>10 DEF InCompleteOk
  <1>13. PICK x : x = IF SubSeq(u.log, u.consumed + 1, k.consumed)
                           = (IF received = PongPacket THEN <<>> ELSE received)
                        THEN k.skewed ELSE TRUE
    OBVIOUS
  <1>14. PICK v : v = Completion(u, actual, received, ok)
    OBVIOUS
  <1>15. v = [k EXCEPT !.skewed = x]
    BY <1>12, <1>13, <1>14 DEF Completion
  <1>16. /\ v.late = k.late /\ v.skewed = x /\ v.inBusy = k.inBusy
         /\ v.inReq = k.inReq /\ v.buf = k.buf /\ v.inFlight = k.inFlight
         /\ v.configured = k.configured /\ v.log = k.log /\ v.consumed = k.consumed
         /\ v.outReq = k.outReq /\ v.initSent = k.initSent
    BY <1>11, <1>15 DEF UsbOK, FlagsOK, UsbFields
  <1>17. Ports(u, v) /\ Keeps(u, v)
    BY <1>6, <1>9, <1>11, <1>16 DEF Ports, Keeps
  <1>18. k.consumed = u.consumed + MinOf(len, u.tx.count)
    BY <1>6, <1>9, <1>11 DEF SameRing
  <1>19. ASSUME ~u.late, ~u.skewed, u.inReq = <<>>,
                SubSeq(u.log, u.consumed + 1, u.consumed + MinOf(len, u.tx.count))
                  = IF received = PongPacket THEN <<>> ELSE received
         PROVE  Owned(v)
    <2>1. Idle(b)
      BY <1>6, <1>9, <1>19, Zenon DEF Idle
    <2>2. Owned(k)
      BY <1>11, <2>1, IdleIsOwned
    <2>3. x = k.skewed
      BY <1>13, <1>18, <1>19
    <2>4. QED
      BY <1>16, <2>2, <2>3, OwnedSame
  <1>20. QED
    BY <1>1, <1>14, <1>17, <1>19

(* gateway_usb_out_complete *)
LEMMA OutCompleteIs ==
  ASSUME NEW u, UsbOK(u), NEW packet \in {"PING", "CFG1", "short", "other", "error"},
         NEW pongOk, NEW kickOk, NEW outOk
  PROVE  LET v == OutComplete(u, packet, pongOk, kickOk, outOk)
         IN /\ Session(u) => Keeps(u, v) \/ Forgotten(v) \/ Opened(v)
            /\ (~LateCancel /\ Owned(u) /\ u.configured) => Owned(v) /\ OutOK(v)
  <1>1. PICK v : v = OutComplete(u, packet, pongOk, kickOk, outOk)
    OBVIOUS
  <1>2. CASE packet = "error"
    <2>1. v = [u EXCEPT !.outReq = FALSE]
      BY <1>1, <1>2 DEF OutComplete
    <2>2. /\ v.late = u.late /\ v.skewed = u.skewed /\ v.inBusy = u.inBusy
          /\ v.inReq = u.inReq /\ v.buf = u.buf /\ v.inFlight = u.inFlight
          /\ v.configured = u.configured /\ v.log = u.log /\ v.consumed = u.consumed
          /\ v.initSent = u.initSent
      BY <2>1 DEF UsbOK, FlagsOK, UsbFields
    <2>3. QED
      BY <1>1, <2>2, OwnedSame DEF Keeps, OutOK
  <1>3. PICK a : a = [u EXCEPT !.outReq = FALSE, !.hostReady = TRUE]
    OBVIOUS
  <1>4. FlagsOK(a) /\ SameRing(u, a)
    BY <1>3 DEF UsbOK, FlagsOK, UsbFields, SameRing
  <1>5. UsbOK(a)
    BY <1>4, SameRingOK DEF UsbOK
  <1>6. /\ a.late = u.late /\ a.skewed = u.skewed /\ a.inBusy = u.inBusy
        /\ a.inReq = u.inReq /\ a.buf = u.buf /\ a.inFlight = u.inFlight
        /\ a.configured = u.configured /\ a.log = u.log /\ a.consumed = u.consumed
        /\ a.initSent = u.initSent /\ a.outReq = FALSE
    BY <1>3 DEF UsbOK, FlagsOK, UsbFields
  <1>7. (Owned(u) => Owned(a)) /\ Keeps(u, a) /\ (Session(u) => Session(a))
    BY <1>6, OwnedSame DEF Keeps, Session
  <1>8. CASE packet \in {"short", "CFG1"}
    <2>1. v = QueueOut(a, outOk)
      BY <1>1, <1>3, <1>8 DEF OutComplete
    <2>2. Keeps(a, v) /\ (Owned(a) => Owned(v)) /\ (OutOK(a) => OutOK(v))
      BY <1>5, <2>1, QueueOutIs
    <2>3. QED
      BY <1>1, <1>6, <1>7, <2>2 DEF Keeps, OutOK
  <1>9. CASE packet \in {"PING", "other"}
    <2>1. PICK w : w = IF packet = "PING" THEN ResetStreamSession(a) ELSE a
      OBVIOUS
    <2>2. /\ UsbOK(w) /\ Ports(a, w) /\ (Keeps(a, w) \/ Forgotten(w))
          /\ (~LateCancel /\ Owned(a)) => Owned(w)
      <3>1. CASE packet = "PING"
        <4>1. w = ResetStreamSession(a)
          BY <2>1, <3>1
        <4>2. /\ UsbOK(w) /\ Ports(a, w) /\ Forgotten(w)
              /\ (~LateCancel /\ ~a.late /\ ~a.skewed /\ (a.inReq # <<>> => a.inBusy)) => Idle(w)
          BY <1>5, <4>1, ResetStreamSessionOK, ResetStreamSessionIs
        <4>3. QED
          BY <4>2, IdleIsOwned DEF Owned
      <3>2. CASE packet # "PING"
        <4>1. w = a
          BY <2>1, <3>2
        <4>2. QED
          BY <1>5, <4>1 DEF Ports, Keeps
      <3>3. QED
        BY <3>1, <3>2
    <2>3. PICK x : x = SendPong(w, pongOk)
      OBVIOUS
    <2>4. /\ UsbOK(x) /\ Ports(w, x) /\ Keeps(w, x) /\ ((Owned(w) /\ w.configured) => Owned(x))
      BY <2>2, <2>3, SendPongOK, SendPongIs
    <2>5. PICK y : y = EnqueueInitAndKick(x, kickOk)
      OBVIOUS
    <2>6. /\ UsbOK(y) /\ Ports(x, y) /\ (Owned(x) => Owned(y))
          /\ Session(x) => Keeps(x, y) \/ Opened(y)
      BY <2>4, <2>5, EnqueueInitAndKickOK, EnqueueInitAndKickIs
    <2>7. v = QueueOut(y, outOk)
      BY <1>1, <1>3, <1>9, <2>1, <2>3, <2>5 DEF OutComplete
    <2>8. Keeps(y, v) /\ (Owned(y) => Owned(v)) /\ (OutOK(y) => OutOK(v))
      BY <2>6, <2>7, QueueOutIs
    <2>9. w.configured = u.configured /\ y.outReq = FALSE
      BY <1>6, <2>2, <2>4, <2>6 DEF Ports
    <2>10. OutOK(v)
      BY <2>8, <2>9 DEF OutOK
    <2>11. (~LateCancel /\ Owned(u) /\ u.configured) => Owned(v)
      BY <1>7, <2>2, <2>4, <2>6, <2>8, <2>9
    <2>12. ASSUME Session(u) PROVE Keeps(u, v) \/ Forgotten(v) \/ Opened(v)
      <3>1. Keeps(u, w) \/ Forgotten(w)
        BY <1>7, <2>2, Zenon DEF Keeps, Forgotten
      <3>2. Keeps(u, x) \/ Forgotten(x)
        BY <2>4, <3>1, Zenon DEF Keeps, Forgotten
      <3>3. Session(x)
        <4>1. CASE Keeps(u, x)
          BY <2>12, <4>1 DEF Session, Keeps
        <4>2. CASE Forgotten(x)
          BY <4>2 DEF Session, Forgotten
        <4>3. QED
          BY <3>2, <4>1, <4>2
      <3>4. Keeps(x, y) \/ Opened(y)
        BY <2>6, <3>3
      <3>5. Keeps(u, y) \/ Forgotten(y) \/ Opened(y)
        BY <3>2, <3>4, Zenon DEF Keeps, Forgotten
      <3>6. QED
        BY <2>8, <3>5, Zenon DEF Keeps, Forgotten, Opened
    <2>13. QED
      BY <1>1, <2>10, <2>11, <2>12
  <1>10. QED
    BY <1>2, <1>8, <1>9

-----------------------------------------------------------------------------
(* What a callback does to the session: nothing, end it, or open a new one *)
(* with the init packet.                                                   *)
LEMMA BusKeepsSession ==
  ASSUME UsbOK(usb), Session(usb), BusNext
  PROVE  Keeps(usb, usb') \/ Forgotten(usb') \/ Opened(usb')
  <1>1. CASE HostReads
    <2>1. PICK actual \in 1 .. Len(usb.inReq), ok \in BOOLEAN :
            usb' = Completion([usb EXCEPT !.inReq = << >>], actual,
                              SubSeq(usb.buf, 1, MinOf(actual, Len(usb.buf))), ok)
      BY <1>1 DEF HostReads
    <2>2. PICK u, received : /\ u = [usb EXCEPT !.inReq = << >>]
                             /\ received = SubSeq(usb.buf, 1, MinOf(actual, Len(usb.buf)))
      OBVIOUS
    <2>3. FlagsOK(u) /\ SameRing(usb, u) /\ Keeps(usb, u)
      BY <2>2 DEF UsbOK, FlagsOK, UsbFields, SameRing, Keeps
    <2>4. UsbOK(u)
      BY <2>3, SameRingOK DEF UsbOK
    <2>5. actual \in Nat
      BY <2>1 DEF UsbOK, FlagsOK
    <2>6. Keeps(u, usb')
      BY <2>1, <2>2, <2>4, <2>5, CompletionIs
    <2>7. QED
      BY <2>3, <2>6 DEF Keeps
  <1>2. CASE InFails
    <2>1. PICK u : u = [usb EXCEPT !.inReq = << >>]
      OBVIOUS
    <2>2. FlagsOK(u) /\ SameRing(usb, u) /\ Keeps(usb, u)
      BY <2>1 DEF UsbOK, FlagsOK, UsbFields, SameRing, Keeps
    <2>3. UsbOK(u)
      BY <2>2, SameRingOK DEF UsbOK
    <2>4. usb' = InCompleteError(u)
      BY <1>2, <2>1 DEF InFails
    <2>5. Keeps(u, usb') \/ Forgotten(usb')
      BY <2>3, <2>4, InCompleteErrorIs
    <2>6. QED
      BY <2>2, <2>5 DEF Keeps
  <1>3. CASE LateCompletion
    <2>1. PICK u : u = [usb EXCEPT !.late = FALSE]
      OBVIOUS
    <2>2. FlagsOK(u) /\ SameRing(usb, u) /\ Keeps(usb, u)
      BY <2>1 DEF UsbOK, FlagsOK, UsbFields, SameRing, Keeps
    <2>3. UsbOK(u)
      BY <2>2, SameRingOK DEF UsbOK
    <2>4. PICK ok \in BOOLEAN : usb' \in {InCompleteError(u), Completion(u, 0, << >>, ok)}
      BY <1>3, <2>1 DEF LateCompletion
    <2>5. CASE usb' = InCompleteError(u)
      <3>1. Keeps(u, usb') \/ Forgotten(usb')
        BY <2>3, <2>5, InCompleteErrorIs
      <3>2. QED
        BY <2>2, <3>1 DEF Keeps
    <2>6. CASE usb' = Completion(u, 0, << >>, ok)
      <3>1. 0 \in Nat
        OBVIOUS
      <3>2. Keeps(u, usb')
        BY <2>3, <2>6, <3>1, CompletionIs
      <3>3. QED
        BY <2>2, <3>2 DEF Keeps
    <2>7. QED
      BY <2>4, <2>5, <2>6
  <1>4. CASE HostWrites
    <2>1. PICK packet \in {"PING", "CFG1", "short", "other", "error"}, pongOk \in BOOLEAN,
               kickOk \in BOOLEAN, outOk \in BOOLEAN :
            usb' = OutComplete(usb, packet, pongOk, kickOk, outOk)
      BY <1>4 DEF HostWrites
    <2>2. QED
      BY <2>1, OutCompleteIs
  <1>5. CASE SetAlt
    <2>1. PICK result \in SetAltResult, ok \in BOOLEAN : usb' = FunctionSetAlt(usb, result, ok)
      BY <1>5 DEF SetAlt
    <2>2. QED
      BY <2>1, FunctionSetAltIs
  <1>6. CASE Disable
    BY <1>6, FunctionDisableIs DEF Disable
  <1>7. CASE DisconnectOrSuspend
    BY <1>7, BusLostIs DEF DisconnectOrSuspend
  <1>8. QED
    BY <1>1, <1>2, <1>3, <1>4, <1>5, <1>6, <1>7 DEF BusNext

(* What a callback does to the account of the IN transfer, when it comes   *)
(* in while that is true.                                                  *)
LEMMA BusKeepsAccount ==
  ASSUME ~LateCancel, ~KeepsRequest, UsbOK(usb), Clean(usb.log), Owned(usb), OutOK(usb), BusNext
  PROVE  Owned(usb') /\ OutOK(usb')
  <1>1. CASE HostReads
    <2>1. PICK actual \in 1 .. Len(usb.inReq), ok \in BOOLEAN :
            usb' = Completion([usb EXCEPT !.inReq = << >>], actual,
                              SubSeq(usb.buf, 1, MinOf(actual, Len(usb.buf))), ok)
      BY <1>1 DEF HostReads
    <2>2. PICK u, received : /\ u = [usb EXCEPT !.inReq = << >>]
                             /\ received = SubSeq(usb.buf, 1, MinOf(actual, Len(usb.buf)))
      OBVIOUS
    <2>3. PICK len : len = IF 0 < actual /\ actual < usb.inFlight THEN actual ELSE usb.inFlight
      OBVIOUS
    <2>4. usb.inReq # << >>
      BY <1>1 DEF HostReads
    <2>5. SubSeq(usb.log, usb.consumed + 1, usb.consumed + MinOf(len, usb.tx.count))
            = IF received = PongPacket THEN <<>> ELSE received
      BY <2>1, <2>2, <2>3, <2>4, ReceivedIsConsumed, ZenonT(30)
    <2>6. FlagsOK(u) /\ SameRing(usb, u)
      <3>1. FlagsOK(u)
        BY <2>2 DEF UsbOK, FlagsOK, UsbFields
      <3>2. SameRing(usb, u)
        BY <2>2 DEF UsbOK, FlagsOK, UsbFields, SameRing
      <3>3. QED
        BY <3>1, <3>2
    <2>7. UsbOK(u)
      BY <2>6, SameRingOK DEF UsbOK
    <2>8. /\ u.inFlight = usb.inFlight /\ u.log = usb.log /\ u.consumed = usb.consumed
          /\ u.tx = usb.tx /\ u.late = usb.late /\ u.skewed = usb.skewed /\ u.inReq = <<>>
          /\ u.configured = usb.configured /\ u.outReq = usb.outReq
      BY <2>2 DEF UsbOK, FlagsOK, UsbFields
    <2>9. ~u.late /\ ~u.skewed
      BY <2>8, Zenon DEF Owned
    <2>10. actual \in Nat
      BY <2>1 DEF UsbOK, FlagsOK
    <2>11. len = IF 0 < actual /\ actual < u.inFlight THEN actual ELSE u.inFlight
      BY <2>3, <2>8
    <2>12. SubSeq(u.log, u.consumed + 1, u.consumed + MinOf(len, u.tx.count))
             = IF received = PongPacket THEN <<>> ELSE received
      BY <2>5, <2>8
    <2>13. PICK v : v = Completion(u, actual, received, ok)
      OBVIOUS
    <2>14. Ports(u, v) /\ Owned(v)
      BY <2>7, <2>8, <2>9, <2>10, <2>11, <2>12, <2>13, CompletionIs
    <2>15. usb' = v
      BY <2>1, <2>2, <2>13
    <2>16. OutOK(v)
      BY <2>8, <2>14, Zenon DEF Ports, OutOK
    <2>17. QED
      BY <2>14, <2>15, <2>16
  <1>2. CASE InFails
    <2>1. PICK u : u = [usb EXCEPT !.inReq = << >>]
      OBVIOUS
    <2>2. FlagsOK(u) /\ SameRing(usb, u)
      BY <2>1 DEF UsbOK, FlagsOK, UsbFields, SameRing
    <2>3. UsbOK(u)
      BY <2>2, SameRingOK DEF UsbOK
    <2>4. /\ u.late = usb.late /\ u.skewed = usb.skewed /\ u.inReq = <<>>
          /\ u.configured = usb.configured /\ u.outReq = usb.outReq
      BY <2>1 DEF UsbOK, FlagsOK, UsbFields
    <2>5. ~u.late /\ ~u.skewed
      BY <2>4, Zenon DEF Owned
    <2>6. usb' = InCompleteError(u)
      BY <1>2, <2>1 DEF InFails
    <2>7. Ports(u, usb') /\ Idle(usb')
      BY <2>3, <2>4, <2>5, <2>6, InCompleteErrorIs
    <2>8. QED
      BY <2>4, <2>7, IdleIsOwned, Zenon DEF Ports, OutOK
  <1>3. CASE LateCompletion
    BY <1>3 DEF LateCompletion, Owned
  <1>4. CASE HostWrites
    <2>1. PICK packet \in {"PING", "CFG1", "short", "other", "error"}, pongOk \in BOOLEAN,
               kickOk \in BOOLEAN, outOk \in BOOLEAN :
            usb' = OutComplete(usb, packet, pongOk, kickOk, outOk)
      BY <1>4 DEF HostWrites
    <2>2. usb.configured
      BY <1>4 DEF HostWrites, OutOK
    <2>3. QED
      BY <2>1, <2>2, OutCompleteIs
  <1>5. CASE SetAlt
    <2>1. PICK result \in SetAltResult, ok \in BOOLEAN : usb' = FunctionSetAlt(usb, result, ok)
      BY <1>5 DEF SetAlt
    <2>2. QED
      BY <2>1, FunctionSetAltIs
  <1>6. CASE Disable
    <2>1. usb' = FunctionDisable(usb) /\ ~usb.late
      BY <1>6 DEF Disable, Owned
    <2>2. ~usb'.outReq /\ Idle(usb')
      BY <2>1, FunctionDisableIs
    <2>3. QED
      BY <2>2, IdleIsOwned DEF OutOK
  <1>7. CASE DisconnectOrSuspend
    <2>1. usb' = BusLost(usb)
      BY <1>7 DEF DisconnectOrSuspend
    <2>2. Idle(usb') /\ OutOK(usb')
      BY <2>1, BusLostIs
    <2>3. QED
      BY <2>2, IdleIsOwned
  <1>8. QED
    BY <1>1, <1>2, <1>3, <1>4, <1>5, <1>6, <1>7 DEF BusNext

-----------------------------------------------------------------------------
(* The session while the callbacks stay out of the task's functions.  The  *)
(* flag proto_init_sent and the ring agree except where the task is on its *)
(* way from the one to the other.                                          *)
InitFirst(log) == \A i \in DOMAIN log : log[i] = InitPacket[1] <=> i = 1

SessionInv ==
  /\ InitFirst(usb.log)
  /\ task.pc \notin {"markInit", "unmark"} => Session(usb)
  /\ task.pc = "putInit"  => ~usb.initSent
  /\ task.pc = "markInit" => usb.log # <<>>
  /\ task.pc = "unmark"   => usb.log = <<>>
  /\ task.pc = "putMedia" => usb.initSent

(* The three things that can become of a session keep it in order. *)
LEMMA SessionMove ==
  ASSUME NEW u, NEW v, InitFirst(u.log), Session(u), Keeps(u, v) \/ Forgotten(v) \/ Opened(v)
  PROVE  InitFirst(v.log) /\ Session(v)
  <1>1. CASE Keeps(u, v)
    BY <1>1 DEF Keeps, Session
  <1>2. CASE Forgotten(v)
    BY <1>2 DEF Forgotten, Session, InitFirst
  <1>3. CASE Opened(v)
    <2>1. InitPacket # <<>> /\ InitFirst(InitPacket)
      BY DEF InitPacket, InitFirst
    <2>2. QED
      BY <1>3, <2>1 DEF Opened, Session
  <1>4. QED
    BY <1>1, <1>2, <1>3

(* A media packet behind the init packet. *)
LEMMA InitFirstAppend ==
  ASSUME NEW s \in Seq(Byte), NEW d \in Seq(Byte), InitFirst(s), s # <<>>,
         \A i \in 1 .. Len(d) : d[i] # InitPacket[1]
  PROVE  InitFirst(s \o d) /\ s \o d # <<>>
  <1>1. PICK n \in Nat, m \in Nat : n = Len(s) /\ m = Len(d)
    OBVIOUS
  <1>2. PICK t \in Seq(Byte) : t = s \o d
    BY ConcatParts
  <1>3. Len(t) = n + m /\ \A i \in 1 .. n + m : t[i] = IF i <= n THEN s[i] ELSE d[i - n]
    BY <1>1, <1>2, ConcatParts
  <1>4. n > 0
    BY <1>1
  <1>5. ASSUME NEW i \in 1 .. n + m PROVE t[i] = InitPacket[1] <=> i = 1
    <2>1. CASE i <= n
      <3>1. t[i] = s[i] /\ i \in DOMAIN s
        BY <1>1, <1>3, <2>1
      <3>2. QED
        BY <3>1 DEF InitFirst
    <2>2. CASE ~(i <= n)
      <3>1. t[i] = d[i - n] /\ i - n \in 1 .. Len(d) /\ i # 1
        BY <1>1, <1>3, <1>4, <2>2
      <3>2. QED
        BY <3>1
    <2>3. QED
      BY <2>1, <2>2
  <1>6. DOMAIN t = 1 .. n + m /\ t # <<>>
    BY <1>2, <1>3, <1>4
  <1>7. QED
    BY <1>2, <1>5, <1>6 DEF InitFirst

(* The bytes of a media packet are neither the init packet's nor the PONG's. *)
LEMMA MediaBytes ==
  ASSUME NEW n \in Nat \ {0}, NEW len \in Nat, NEW d, d = MediaHeader(n, len) \o MediaPayload(n, len)
  PROVE  /\ d \in Seq(Byte)
         /\ \A i \in 1 .. Len(d) : d[i] # InitPacket[1] /\ d[i] # PongPacket[1]
  <1>1. PICK a \in Seq(Byte), b \in Seq(Byte) : a = MediaHeader(n, len) /\ b = MediaPayload(n, len)
    BY MediaIsBytes
  <1>2. Len(a) = 1 /\ Len(b) = len /\ a[1] = <<n, 1, len + 1>> /\ \A i \in 1 .. len : b[i] = <<n, i + 1, len + 1>>
    BY <1>1 DEF MediaHeader, MediaPayload
  <1>3. /\ d \in Seq(Byte) /\ Len(d) = 1 + len
        /\ \A i \in 1 .. 1 + len : d[i] = IF i <= 1 THEN a[i] ELSE b[i - 1]
    <2>1. /\ a \o b \in Seq(Byte) /\ Len(a \o b) = Len(a) + Len(b)
          /\ \A i \in 1 .. Len(a) + Len(b) : (a \o b)[i] = IF i <= Len(a) THEN a[i] ELSE b[i - Len(a)]
      BY ConcatParts
    <2>2. QED
      BY <1>1, <1>2, <2>1, Zenon
  <1>4. ASSUME NEW i \in 1 .. 1 + len PROVE d[i][1] = n
    <2>1. d[i] = IF i <= 1 THEN a[i] ELSE b[i - 1]
      BY <1>3
    <2>2. CASE i = 1
      BY <1>2, <2>1, <2>2
    <2>3. CASE i # 1
      <3>1. i - 1 \in 1 .. len /\ ~(i <= 1)
        BY <2>3
      <3>2. QED
        BY <1>2, <2>1, <3>1
    <2>4. QED
      BY <2>2, <2>3
  <1>5. InitPacket[1][1] = 0 /\ PongPacket[1][1] = -1
    BY DEF InitPacket, PongPacket
  <1>6. ASSUME NEW i \in 1 .. 1 + len PROVE d[i] # InitPacket[1] /\ d[i] # PongPacket[1]
    <2>1. d[i][1] = n
      BY <1>4
    <2>2. n # 0 /\ n # -1
      OBVIOUS
    <2>3. QED
      BY <1>5, <2>1, <2>2, Zenon
  <1>7. QED
    BY <1>3, <1>6

(* Where the task goes. *)
LEMMA GotoIs ==
  ASSUME TaskOK, NEW p, Goto(p)
  PROVE  task'.pc = p /\ task'.job = task.job /\ task'.len = task.len
  BY DEF TaskOK, TaskFields, Goto

(* After the ring a pass goes on, or the loop starts again. *)
LEMMA AfterJobIs == AfterJob \in {"watch", "force"}
  BY DEF AfterJob

(* Nothing happens to the session in most of a pass. *)
LEMMA SessionStays ==
  ASSUME SessionInv, Keeps(usb, usb'), task.pc \notin {"markInit", "unmark"},
         task'.pc \notin {"putInit", "markInit", "unmark", "putMedia"}
  PROVE  SessionInv'
  <1>1. InitFirst(usb.log) /\ Session(usb)
    BY DEF SessionInv
  <1>2. InitFirst(usb'.log) /\ Session(usb')
    BY <1>1, SessionMove
  <1>3. QED
    BY <1>2 DEF SessionInv

(* The task writes the init packet only when there was none, and the flag  *)
(* only when there is one.                                                 *)
LEMMA TaskKeepsSession ==
  ASSUME UsbInv, SessionInv, TaskNext
  PROVE  SessionInv'
  <1> USE DEF UsbInv
  <1>1. CASE TaskForce
    <2>1. task'.pc \in {"setalt", "retry"}
      BY <1>1, GotoIs DEF TaskForce
    <2>2. Keeps(usb, usb') /\ task.pc = "force"
      BY <1>1 DEF TaskForce, Keeps
    <2>3. QED
      BY <2>1, <2>2, SessionStays
  <1>2. CASE TaskSetAlt
    <2>1. PICK result \in SetAltResult, ok \in BOOLEAN : usb' = FunctionSetAlt(usb, result, ok)
      BY <1>2 DEF TaskSetAlt
    <2>2. task'.pc = "retry" /\ task.pc = "setalt"
      BY <1>2, GotoIs DEF TaskSetAlt
    <2>3. InitFirst(usb.log) /\ Session(usb)
      BY <2>2 DEF SessionInv
    <2>4. InitFirst(usb'.log) /\ Session(usb')
      BY <2>1, <2>3, FunctionSetAltIs, SessionMove
    <2>5. QED
      BY <2>2, <2>4 DEF SessionInv
  <1>3. CASE TaskRetry
    <2>1. /\ usb' = usb /\ task.pc = "retry"
          /\ task'.pc \in {"kick", "putInit", "watch"} /\ (task'.pc = "putInit" => ~usb.initSent)
      BY <1>3 DEF TaskRetry, TaskOK, TaskFields
    <2>2. QED
      BY <2>1 DEF SessionInv
  <1>4. CASE TaskPutInit
    <2>1. /\ usb' = TxEnqueue(usb, InitPacket, <<>>) /\ task.pc = "putInit"
          /\ Goto(IF Fits(usb.tx, InitPacket, <<>>) THEN "markInit" ELSE AfterJob)
      BY <1>4 DEF TaskPutInit
    <2>2. InitFirst(usb.log) /\ Session(usb) /\ ~usb.initSent
      BY <2>1 DEF SessionInv
    <2>3. usb.log = <<>>
      BY <2>2 DEF Session
    <2>4. InitPacket \in Seq(Byte) /\ << >> \in Seq(Byte) /\ InitPacket \o << >> = InitPacket
      BY InitIsBytes
    <2>5. CASE Fits(usb.tx, InitPacket, <<>>)
      <3>1. task'.pc = "markInit"
        BY <2>1, <2>5, GotoIs
      <3>2. usb'.log = usb.log \o (InitPacket \o <<>>)
        BY <2>1, <2>4, <2>5, TxEnqueueIs, ZenonT(30)
      <3>3. usb'.log = InitPacket
        <4>1. usb'.log = << >> \o InitPacket
          BY <2>3, <2>4, <3>2, Zenon
        <4>2. QED
          BY <4>1 DEF InitPacket
      <3>4. InitPacket # <<>> /\ InitFirst(InitPacket)
        BY DEF InitPacket, InitFirst
      <3>5. QED
        BY <3>1, <3>3, <3>4 DEF SessionInv
    <2>6. CASE ~Fits(usb.tx, InitPacket, <<>>)
      <3>1. task'.pc \in {"watch", "force"}
        BY <2>1, <2>6, GotoIs, AfterJobIs
      <3>2. Keeps(usb, usb')
        BY <2>1, <2>4, <2>6, TxEnqueueIs DEF Keeps
      <3>3. QED
        BY <2>1, <3>1, <3>2, SessionStays
    <2>7. QED
      BY <2>5, <2>6
  <1>5. CASE TaskMarkInit
    <2>1. /\ usb' = [usb EXCEPT !.initSent = TRUE] /\ task.pc = "markInit"
          /\ Goto(IF task.job = "media" THEN "putMedia" ELSE "kick")
      BY <1>5 DEF TaskMarkInit
    <2>2. usb'.log = usb.log /\ usb'.initSent
      BY <2>1 DEF UsbOK, FlagsOK, UsbFields
    <2>3. InitFirst(usb.log) /\ usb.log # <<>>
      BY <2>1 DEF SessionInv
    <2>4. task'.pc \in {"putMedia", "kick"}
      BY <2>1, GotoIs
    <2>5. QED
      BY <2>2, <2>3, <2>4 DEF SessionInv, Session
  <1>6. CASE TaskKick
    <2>1. task.pc = "kick" /\ Goto(IF usb.configured /\ ~usb.inBusy THEN "peek" ELSE AfterJob)
      BY <1>6 DEF TaskKick
    <2>2. task'.pc \in {"peek", "watch", "force"}
      BY <2>1, GotoIs, AfterJobIs
    <2>3. Keeps(usb, usb')
      BY <1>6 DEF TaskKick, Keeps
    <2>4. QED
      BY <2>1, <2>2, <2>3, SessionStays
  <1>7. CASE TaskPeek
    <2>1. PICK chunk : chunk = PeekChunk(usb.tx, Chunk)
      OBVIOUS
    <2>2. \/ Goto(AfterJob) /\ usb' = usb
          \/ usb' = [usb EXCEPT !.buf = chunk] /\ task' = [task EXCEPT !.pc = "arm", !.len = Len(chunk)]
      BY <1>7, <2>1 DEF TaskPeek
    <2>3. task'.pc \in {"arm", "watch", "force"}
      BY <2>2, GotoIs, AfterJobIs DEF TaskOK, TaskFields
    <2>4. Keeps(usb, usb')
      BY <2>2 DEF Keeps, UsbOK, FlagsOK, UsbFields
    <2>5. task.pc = "peek"
      BY <1>7 DEF TaskPeek
    <2>6. QED
      BY <2>3, <2>4, <2>5, SessionStays
  <1>8. CASE TaskArm
    <2>1. task.pc = "arm" /\ task'.pc = "queue"
      BY <1>8, GotoIs DEF TaskArm
    <2>2. Keeps(usb, usb')
      BY <1>8 DEF TaskArm, Keeps, UsbOK, FlagsOK, UsbFields
    <2>3. QED
      BY <2>1, <2>2, SessionStays
  <1>9. CASE TaskQueue
    <2>1. task.pc = "queue" /\ Goto(AfterJob)
      BY <1>9 DEF TaskQueue
    <2>2. \/ usb' = [usb EXCEPT !.inReq = usb.buf]
          \/ usb' = [usb EXCEPT !.inBusy = FALSE, !.inFlight = 0]
      BY <1>9 DEF TaskQueue
    <2>3. Keeps(usb, usb')
      BY <2>2 DEF Keeps, UsbOK, FlagsOK, UsbFields
    <2>4. task'.pc \in {"watch", "force"}
      BY <2>1, GotoIs, AfterJobIs
    <2>5. QED
      BY <2>1, <2>3, <2>4, SessionStays
  <1>10. CASE TaskWatch
    <2>1. usb' = usb \/ usb' = [usb EXCEPT !.progress = FALSE]
      BY <1>10 DEF TaskWatch
    <2>2. Keeps(usb, usb')
      BY <2>1 DEF Keeps, UsbOK, FlagsOK, UsbFields
    <2>3. task.pc = "watch" /\ task'.pc \in {"poll", "cancel"}
      BY <1>10 DEF TaskWatch, TaskOK, TaskFields
    <2>4. QED
      BY <2>2, <2>3, SessionStays
  <1>11. CASE TaskCancel
    <2>1. task.pc = "cancel" /\ task'.pc = "clear"
      BY <1>11, GotoIs DEF TaskCancel
    <2>2. Keeps(usb, usb')
      BY <1>11, CancelInIs DEF TaskCancel
    <2>3. QED
      BY <2>1, <2>2, SessionStays
  <1>12. CASE TaskClear
    <2>1. task'.pc = "unmark"
      BY <1>12, GotoIs DEF TaskClear
    <2>2. usb'.log = <<>>
      BY <1>12, ClearRingOK DEF TaskClear, NoRing
    <2>3. InitFirst(<<>>)
      BY DEF InitFirst
    <2>4. QED
      BY <2>1, <2>2, <2>3 DEF SessionInv
  <1>13. CASE TaskUnmark
    <2>1. usb' = [usb EXCEPT !.initSent = FALSE, !.progress = FALSE] /\ task.pc = "unmark"
      BY <1>13 DEF TaskUnmark
    <2>2. ~usb'.initSent /\ usb'.log = usb.log
      BY <2>1 DEF UsbOK, FlagsOK, UsbFields
    <2>3. usb.log = <<>>
      BY <2>1 DEF SessionInv
    <2>4. task'.pc = "poll"
      BY <1>13 DEF TaskUnmark, TaskOK, TaskFields
    <2>5. InitFirst(<<>>)
      BY DEF InitFirst
    <2>6. QED
      BY <2>2, <2>3, <2>4, <2>5 DEF SessionInv, Session
  <1>14. CASE TaskPoll
    <2>1. usb' = usb /\ task.pc = "poll"
      BY <1>14 DEF TaskPoll
    <2>2. \/ Goto("force")
          \/ \E len \in PayloadLens :
               task' = [task EXCEPT !.job = "media", !.payload = len,
                                    !.pc = IF usb.initSent THEN "putMedia" ELSE "putInit"]
      BY <1>14, Zenon DEF TaskPoll
    <2>3. task'.pc \in {"force", "putMedia", "putInit"}
      BY <2>2, GotoIs DEF TaskOK, TaskFields
    <2>4. (task'.pc = "putMedia" => usb.initSent) /\ (task'.pc = "putInit" => ~usb.initSent)
      <3>1. CASE Goto("force")
        BY <3>1, GotoIs
      <3>2. CASE \E len \in PayloadLens :
                   task' = [task EXCEPT !.job = "media", !.payload = len,
                                        !.pc = IF usb.initSent THEN "putMedia" ELSE "putInit"]
        <4>1. task'.pc = IF usb.initSent THEN "putMedia" ELSE "putInit"
          BY <3>2 DEF TaskOK, TaskFields
        <4>2. QED
          BY <4>1
      <3>3. QED
        BY <2>2, <3>1, <3>2
    <2>5. QED
      BY <2>1, <2>3, <2>4 DEF SessionInv
  <1>15. CASE TaskPutMedia
    <2>1. media \in 1 .. MaxMedia /\ task.payload \in PayloadLens /\ task.pc = "putMedia"
      BY <1>15 DEF TaskPutMedia, TaskOK
    <2>2. media \in Nat \ {0} /\ media \in Nat /\ task.payload \in Nat
      <3>1. task.payload \in Nat
        BY <2>1, UsbAssumption, Zenon
      <3>2. MaxMedia \in Nat
        BY UsbAssumption
      <3>3. QED
        BY <2>1, <3>1, <3>2
    <2>3. PICK a \in Seq(Byte), b \in Seq(Byte) :
            a = MediaHeader(media, task.payload) /\ b = MediaPayload(media, task.payload)
      BY <2>2, MediaIsBytes
    <2>4. \/ usb' = usb /\ Goto(AfterJob)
          \/ /\ usb' = TxEnqueue(usb, a, b)
             /\ Goto(IF Fits(usb.tx, a, b) THEN "kick" ELSE AfterJob)
      BY <1>15, <2>3 DEF TaskPutMedia
    <2>5. task'.pc \in {"kick", "watch", "force"}
      BY <2>4, GotoIs, AfterJobIs
    <2>6. InitFirst(usb.log) /\ Session(usb) /\ usb.initSent
      BY <2>1 DEF SessionInv
    <2>7. usb.log # <<>> /\ usb.log \in Seq(Byte)
      BY <2>6 DEF Session, UsbOK, RingOK
    <2>8. CASE usb' = usb
      BY <2>5, <2>6, <2>8 DEF SessionInv
    <2>9. CASE usb' = TxEnqueue(usb, a, b) /\ ~Fits(usb.tx, a, b)
      <3>1. Keeps(usb, usb')
        BY <2>9, TxEnqueueIs DEF Keeps
      <3>2. QED
        BY <2>1, <2>5, <3>1, SessionStays
    <2>10. CASE usb' = TxEnqueue(usb, a, b) /\ Fits(usb.tx, a, b)
      <3>1. PICK d : d = a \o b
        OBVIOUS
      <3>2. d \in Seq(Byte) /\ \A i \in 1 .. Len(d) : d[i] # InitPacket[1]
        BY <2>2, <2>3, <3>1, MediaBytes
      <3>3. usb'.log = usb.log \o d /\ usb'.initSent = usb.initSent
        BY <2>10, <3>1, TxEnqueueIs
      <3>4. InitFirst(usb'.log) /\ usb'.log # <<>>
        BY <2>6, <2>7, <3>2, <3>3, InitFirstAppend
      <3>5. Session(usb')
        BY <2>6, <3>3, <3>4 DEF Session
      <3>6. QED
        BY <2>5, <3>4, <3>5 DEF SessionInv
    <2>11. QED
      BY <2>4, <2>8, <2>9, <2>10
  <1>16. QED
    BY <1>1, <1>2, <1>3, <1>4, <1>5, <1>6, <1>7, <1>8, <1>9, <1>10, <1>11, <1>12, <1>13, <1>14, <1>15
       DEF TaskNext

(* No step disturbs the session, when no callback comes in inside a        *)
(* function of the task.                                                   *)
LEMMA SessionNext ==
  ASSUME ~Preemptive, UsbInv, SessionInv, [Next]_vars
  PROVE  SessionInv'
  <1>1. CASE BusNext
    <2>1. task' = task /\ BetweenCalls
      BY <1>1 DEF BusNext, HostReads, InFails, LateCompletion, HostWrites, SetAlt, Disable,
                  DisconnectOrSuspend, Callback
    <2>2. InitFirst(usb.log) /\ Session(usb)
      BY <2>1 DEF SessionInv, BetweenCalls
    <2>3. InitFirst(usb'.log) /\ Session(usb')
      BY <1>1, <2>2, BusKeepsSession, SessionMove DEF UsbInv
    <2>4. QED
      BY <2>1, <2>3 DEF SessionInv, BetweenCalls
  <1>2. CASE TaskNext
    BY <1>2, TaskKeepsSession
  <1>3. CASE UNCHANGED vars
    BY <1>3 DEF vars, SessionInv
  <1>4. QED
    BY <1>1, <1>2, <1>3 DEF Next

(* The session's invariant. *)
THEOREM SessionInvariant == ASSUME ~Preemptive PROVE Spec => []SessionInv
  <1>1. Init => SessionInv
    BY DEF Init, UsbInit, SessionInv, InitFirst, Session
  <1>2. UsbInv /\ SessionInv /\ [Next]_vars => SessionInv'
    BY SessionNext
  <1>3. QED
    BY <1>1, <1>2, InductiveInvariant, PTL DEF Spec

(* A session's stream starts with the init packet and has no other one:    *)
(* gateway_usb_enqueue_init_packet tests proto_init_sent, writes, and sets *)
(* the flag, in three steps that only a callback could separate.           *)
THEOREM InitOnceAndFirstAlways == ASSUME ~Preemptive PROVE Spec => []InitOnceAndFirst
  <1>1. SessionInv => InitOnceAndFirst
    BY DEF SessionInv, InitFirst, InitOnceAndFirst
  <1>2. QED
    BY <1>1, SessionInvariant, PTL

-----------------------------------------------------------------------------
(* The IN transfer, when moreover usb_ep_dequeue completes what it cancels *)
(* and the stack drops the requests of a lost bus: away from usb_ep_queue  *)
(* the account is true, on the way to it there is no request yet, and what *)
(* kick_tx copied into in_buf is still what the ring would give.           *)
Strict == ~Preemptive /\ ~LateCancel /\ ~KeepsRequest

TransferInv ==
  /\ Clean(usb.log) /\ OutOK(usb) /\ ~usb.late /\ ~usb.skewed
  /\ task.pc # "queue" => Owned(usb)
  /\ task.pc \in {"peek", "arm", "clear"} => Idle(usb)
  /\ task.pc \in {"peek", "arm"} => usb.configured
  /\ task.pc \in {"arm", "queue"} => FromLog(usb, usb.buf) /\ task.len = Len(usb.buf)
  /\ task.pc = "queue" =>
       usb.configured /\ usb.inReq = <<>> /\ usb.inBusy /\ usb.inFlight = task.len

(* The packets of the ring are free of the PONG's byte, so the log is. *)
LEMMA RingStepClean ==
  ASSUME NEW u, NEW v, UsbOK(u), Clean(u.log), RingStep(u, v)
  PROVE  Clean(v.log)
  <1>1. ASSUME NEW p \in UsbPacket PROVE p \in Seq(Byte) /\ Clean(p)
    <2>1. CASE p = InitPacket
      <3>1. Clean(InitPacket)
        BY DEF InitPacket, PongPacket, Clean
      <3>2. QED
        BY <2>1, <3>1, InitIsBytes
    <2>2. ASSUME NEW n \in 1 .. MaxMedia, NEW len \in PayloadLens,
                 p = MediaHeader(n, len) \o MediaPayload(n, len)
          PROVE  p \in Seq(Byte) /\ Clean(p)
      <3>1. n \in Nat \ {0} /\ len \in Nat
        <4>1. MaxMedia \in Nat
          BY UsbAssumption
        <4>2. len \in Nat
          BY UsbAssumption, Zenon
        <4>3. QED
          BY <4>1, <4>2
      <3>2. p \in Seq(Byte) /\ \A i \in 1 .. Len(p) : p[i] # PongPacket[1]
        BY <2>2, <3>1, MediaBytes
      <3>3. QED
        BY <3>2 DEF Clean
    <2>3. QED
      BY <2>1, <2>2 DEF UsbPacket
  <1>2. CASE SameRing(u, v) \/ Dropped(u, v)
    BY <1>2 DEF SameRing, Dropped
  <1>3. CASE Restarted(v)
    <2>1. Clean(<< >>)
      BY DEF Clean
    <2>2. Clean(InitPacket)
      BY <1>1 DEF UsbPacket
    <2>3. QED
      BY <1>3, <2>1, <2>2 DEF Restarted, NoRing
  <1>4. ASSUME NEW p \in UsbPacket, Appended(u, v, p) PROVE Clean(v.log)
    <2>1. PICK s \in Seq(Byte), d \in Seq(Byte) : s = u.log /\ d = p
      BY <1>1 DEF UsbOK, RingOK
    <2>2. v.log = s \o d /\ Clean(s) /\ Clean(d)
      BY <1>1, <1>4, <2>1 DEF Appended
    <2>3. PICK n \in Nat, m \in Nat : n = Len(s) /\ m = Len(d)
      OBVIOUS
    <2>4. PICK t \in Seq(Byte) : t = s \o d
      BY ConcatParts
    <2>5. Len(t) = n + m /\ \A i \in 1 .. n + m : t[i] = IF i <= n THEN s[i] ELSE d[i - n]
      BY <2>3, <2>4, ConcatParts
    <2>6. ASSUME NEW i \in 1 .. n + m PROVE t[i] # PongPacket[1]
      <3>1. CASE i <= n
        <4>1. t[i] = s[i] /\ i \in DOMAIN s
          BY <2>3, <2>5, <3>1
        <4>2. QED
          BY <2>2, <4>1 DEF Clean
      <3>2. CASE ~(i <= n)
        <4>1. t[i] = d[i - n] /\ i - n \in DOMAIN d
          BY <2>3, <2>5, <3>2
        <4>2. QED
          BY <2>2, <4>1 DEF Clean
      <3>3. QED
        BY <3>1, <3>2
    <2>7. DOMAIN t = 1 .. n + m
      BY <2>5, <2>4
    <2>8. QED
      BY <2>2, <2>6, <2>7, <2>4 DEF Clean
  <1>5. QED
    BY <1>2, <1>3, <1>4 DEF RingStep

(* Where the task is away from kick_tx and the watchdog's reset, a true    *)
(* account is all there is to keep.                                        *)
LEMMA AccountStays ==
  ASSUME Clean(usb'.log), OutOK(usb'), Owned(usb'),
         task'.pc \notin {"peek", "arm", "queue", "clear"}
  PROVE  TransferInv'
  BY DEF TransferInv, Owned

(* Every step of the task keeps the account. *)
LEMMA TaskKeepsAccount ==
  ASSUME Strict, UsbInv, TransferInv, TaskNext, Clean(usb'.log)
  PROVE  TransferInv'
  <1> USE DEF UsbInv
  <1>1. CASE TaskForce
    <2>1. task'.pc \in {"setalt", "retry"}
      BY <1>1, GotoIs DEF TaskForce
    <2>2. usb' = usb /\ task.pc = "force"
      BY <1>1 DEF TaskForce
    <2>3. Owned(usb) /\ OutOK(usb)
      BY <2>2 DEF TransferInv
    <2>4. QED
      BY <2>1, <2>2, <2>3, AccountStays
  <1>2. CASE TaskSetAlt
    <2>1. PICK result \in SetAltResult, ok \in BOOLEAN : usb' = FunctionSetAlt(usb, result, ok)
      BY <1>2 DEF TaskSetAlt
    <2>2. task'.pc = "retry" /\ task.pc = "setalt"
      BY <1>2, GotoIs DEF TaskSetAlt
    <2>3. Owned(usb) /\ OutOK(usb)
      BY <2>2 DEF TransferInv
    <2>4. Owned(usb') /\ OutOK(usb')
      BY <2>1, <2>3, FunctionSetAltIs DEF Strict
    <2>5. QED
      BY <2>2, <2>4, AccountStays
  <1>3. CASE TaskRetry
    <2>1. /\ usb' = usb /\ task.pc = "retry"
          /\ task'.pc \in {"kick", "putInit", "watch"}
      BY <1>3 DEF TaskRetry, TaskOK, TaskFields
    <2>2. Owned(usb) /\ OutOK(usb)
      BY <2>1 DEF TransferInv
    <2>3. QED
      BY <2>1, <2>2, AccountStays
  <1>4. CASE TaskPutInit
    <2>1. /\ usb' = TxEnqueue(usb, InitPacket, <<>>) /\ task.pc = "putInit"
          /\ Goto(IF Fits(usb.tx, InitPacket, <<>>) THEN "markInit" ELSE AfterJob)
      BY <1>4 DEF TaskPutInit
    <2>2. Owned(usb) /\ OutOK(usb)
      BY <2>1 DEF TransferInv
    <2>3. Owned(usb') /\ Ports(usb, usb')
      BY <2>1, <2>2, InitIsBytes, TxEnqueueIs
    <2>4. OutOK(usb')
      BY <2>2, <2>3, Zenon DEF OutOK, Ports
    <2>5. task'.pc \in {"markInit", "watch", "force"}
      BY <2>1, GotoIs, AfterJobIs
    <2>6. QED
      BY <2>3, <2>4, <2>5, AccountStays
  <1>5. CASE TaskMarkInit
    <2>1. /\ usb' = [usb EXCEPT !.initSent = TRUE] /\ task.pc = "markInit"
          /\ Goto(IF task.job = "media" THEN "putMedia" ELSE "kick")
      BY <1>5 DEF TaskMarkInit
    <2>2. PICK v : v = usb'
      OBVIOUS
    <2>3. /\ v.late = usb.late /\ v.skewed = usb.skewed /\ v.inBusy = usb.inBusy
          /\ v.inReq = usb.inReq /\ v.buf = usb.buf /\ v.inFlight = usb.inFlight
          /\ v.configured = usb.configured /\ v.log = usb.log /\ v.consumed = usb.consumed
          /\ v.outReq = usb.outReq
      BY <2>1, <2>2 DEF UsbOK, FlagsOK, UsbFields
    <2>4. Owned(usb) /\ OutOK(usb)
      BY <2>1 DEF TransferInv
    <2>5. Owned(v) /\ OutOK(v)
      BY <2>3, <2>4, OwnedSame DEF OutOK
    <2>6. task'.pc \in {"putMedia", "kick"}
      BY <2>1, GotoIs
    <2>7. QED
      BY <2>2, <2>5, <2>6, AccountStays
  <1>6. CASE TaskKick
    <2>1. /\ task.pc = "kick" /\ usb' = usb
          /\ Goto(IF usb.configured /\ ~usb.inBusy THEN "peek" ELSE AfterJob)
      BY <1>6 DEF TaskKick
    <2>2. Owned(usb) /\ OutOK(usb)
      BY <2>1 DEF TransferInv
    <2>3. CASE usb.configured /\ ~usb.inBusy
      <3>1. Idle(usb)
        BY <2>2, <2>3 DEF Owned, Idle
      <3>2. task'.pc = "peek"
        BY <2>1, <2>3, GotoIs
      <3>3. QED
        BY <2>1, <2>2, <2>3, <3>1, <3>2 DEF TransferInv
    <2>4. CASE ~(usb.configured /\ ~usb.inBusy)
      <3>1. task'.pc \in {"watch", "force"}
        BY <2>1, <2>4, GotoIs, AfterJobIs
      <3>2. QED
        BY <2>1, <2>2, <3>1, AccountStays
    <2>5. QED
      BY <2>3, <2>4

  <1>7. CASE TaskPeek
    <2>1. PICK chunk \in Seq(Byte) : chunk = PeekChunk(usb.tx, Chunk) /\ Len(chunk) \in 0 .. Chunk
      BY PeekChunkOK
    <2>2. task.pc = "peek"
      BY <1>7 DEF TaskPeek
    <2>3. Idle(usb) /\ OutOK(usb) /\ usb.configured
      BY <2>2 DEF TransferInv
    <2>4. CASE chunk = <<>>
      <3>1. usb' = usb /\ Goto(AfterJob)
        BY <1>7, <2>1, <2>4 DEF TaskPeek
      <3>2. task'.pc \in {"watch", "force"}
        BY <3>1, GotoIs, AfterJobIs
      <3>3. QED
        BY <2>3, <3>1, <3>2, IdleIsOwned, AccountStays
    <2>5. CASE chunk # <<>>
      <3>1. /\ usb' = [usb EXCEPT !.buf = chunk]
            /\ task' = [task EXCEPT !.pc = "arm", !.len = Len(chunk)]
        BY <1>7, <2>1, <2>5 DEF TaskPeek
      <3>2. task'.pc = "arm" /\ task'.len = Len(chunk)
        BY <3>1 DEF TaskOK, TaskFields
      <3>3. PICK v : v = usb'
        OBVIOUS
      <3>4. /\ v.late = usb.late /\ v.skewed = usb.skewed /\ v.inBusy = usb.inBusy
            /\ v.inReq = usb.inReq /\ v.configured = usb.configured /\ v.log = usb.log
            /\ v.consumed = usb.consumed /\ v.outReq = usb.outReq /\ v.buf = chunk
        BY <3>1, <3>3 DEF UsbOK, FlagsOK, UsbFields
      <3>5. Idle(v) /\ OutOK(v) /\ v.configured
        BY <2>3, <3>4, Zenon DEF Idle, OutOK
      <3>6. FromLog(usb, chunk)
        BY <2>1, <2>5, PeekIsFromLog
      <3>7. FromLog(v, chunk)
        BY <3>4, <3>6 DEF FromLog
      <3>8. Owned(v)
        BY <3>5, IdleIsOwned
      <3>9. ~v.late /\ ~v.skewed
        BY <3>5 DEF Idle
      <3>10. QED
        BY <3>2, <3>3, <3>4, <3>5, <3>7, <3>8, <3>9 DEF TransferInv
    <2>6. QED
      BY <2>4, <2>5
  <1>8. CASE TaskArm
    <2>1. task.pc = "arm" /\ usb' = [usb EXCEPT !.inBusy = TRUE, !.inFlight = task.len] /\ Goto("queue")
      BY <1>8 DEF TaskArm
    <2>2. task'.pc = "queue" /\ task'.len = task.len
      BY <2>1, GotoIs
    <2>3. /\ Idle(usb) /\ OutOK(usb) /\ usb.configured
          /\ FromLog(usb, usb.buf) /\ task.len = Len(usb.buf)
      BY <2>1 DEF TransferInv
    <2>4. PICK v : v = usb'
      OBVIOUS
    <2>5. /\ v.late = usb.late /\ v.skewed = usb.skewed /\ v.inFlight = task.len
          /\ v.inReq = usb.inReq /\ v.configured = usb.configured /\ v.log = usb.log
          /\ v.consumed = usb.consumed /\ v.outReq = usb.outReq /\ v.buf = usb.buf
      BY <2>1, <2>4 DEF UsbOK, FlagsOK, UsbFields
    <2>6. v.inBusy
      BY <2>1, <2>4 DEF UsbOK, FlagsOK, UsbFields
    <2>7. ~v.late /\ ~v.skewed /\ v.configured /\ OutOK(v)
      BY <2>3, <2>5, Zenon DEF Idle, OutOK
    <2>8. v.inReq = <<>> /\ FromLog(v, v.buf) /\ task.len = Len(v.buf)
      BY <2>3, <2>5 DEF Idle, FromLog
    <2>9. QED
      BY <2>2, <2>4, <2>5, <2>6, <2>7, <2>8 DEF TransferInv
  <1>9. CASE TaskQueue
    <2>1. task.pc = "queue" /\ Goto(AfterJob)
      BY <1>9 DEF TaskQueue
    <2>2. task'.pc \in {"watch", "force"}
      BY <2>1, GotoIs, AfterJobIs
    <2>3. /\ OutOK(usb) /\ ~usb.late /\ ~usb.skewed
          /\ FromLog(usb, usb.buf) /\ task.len = Len(usb.buf)
          /\ usb.configured /\ usb.inReq = <<>> /\ usb.inBusy /\ usb.inFlight = task.len
      BY <2>1 DEF TransferInv
    <2>4. PICK v : v = usb'
      OBVIOUS
    <2>5. \/ v = [usb EXCEPT !.inReq = usb.buf]
          \/ v = [usb EXCEPT !.inBusy = FALSE, !.inFlight = 0]
      BY <1>9, <2>4 DEF TaskQueue
    <2>6. CASE v = [usb EXCEPT !.inReq = usb.buf]
      <3>1. /\ v.late = usb.late /\ v.skewed = usb.skewed /\ v.inFlight = usb.inFlight
            /\ v.inBusy = usb.inBusy /\ v.configured = usb.configured /\ v.log = usb.log
            /\ v.consumed = usb.consumed /\ v.outReq = usb.outReq /\ v.buf = usb.buf
            /\ v.inReq = usb.buf
        BY <2>6 DEF UsbOK, FlagsOK, UsbFields
      <3>2. ~v.late /\ ~v.skewed /\ v.inBusy /\ v.configured /\ OutOK(v)
        BY <2>3, <3>1, Zenon DEF OutOK
      <3>3. FromLog(v, v.inReq) /\ v.inFlight = Len(v.inReq) /\ v.buf = v.inReq
        BY <2>3, <3>1 DEF FromLog
      <3>4. v.inReq # <<>>
        BY <3>3 DEF FromLog
      <3>5. Owned(v)
        BY <3>2, <3>3, <3>4 DEF Owned, Held
      <3>6. QED
        BY <2>2, <2>4, <3>2, <3>5, AccountStays
    <2>7. CASE v = [usb EXCEPT !.inBusy = FALSE, !.inFlight = 0]
      <3>1. /\ v.late = usb.late /\ v.skewed = usb.skewed /\ v.configured = usb.configured
            /\ v.outReq = usb.outReq /\ v.inReq = usb.inReq
        BY <2>7 DEF UsbOK, FlagsOK, UsbFields
      <3>2. ~v.inBusy
        BY <2>7 DEF UsbOK, FlagsOK, UsbFields
      <3>3. ~v.late /\ ~v.skewed /\ OutOK(v)
        BY <2>3, <3>1, Zenon DEF OutOK
      <3>4. Idle(v)
        BY <2>3, <3>1, <3>2, <3>3 DEF Idle
      <3>5. QED
        BY <2>2, <2>4, <3>3, <3>4, IdleIsOwned, AccountStays
    <2>8. QED
      BY <2>5, <2>6, <2>7
  <1>10. CASE TaskWatch
    <2>1. PICK v : v = usb'
      OBVIOUS
    <2>2. v = usb \/ v = [usb EXCEPT !.progress = FALSE]
      BY <1>10, <2>1 DEF TaskWatch
    <2>3. task.pc = "watch" /\ task'.pc \in {"poll", "cancel"}
      BY <1>10 DEF TaskWatch, TaskOK, TaskFields
    <2>4. /\ v.late = usb.late /\ v.skewed = usb.skewed /\ v.inBusy = usb.inBusy
          /\ v.inReq = usb.inReq /\ v.buf = usb.buf /\ v.inFlight = usb.inFlight
          /\ v.configured = usb.configured /\ v.log = usb.log /\ v.consumed = usb.consumed
          /\ v.outReq = usb.outReq
      BY <2>2 DEF UsbOK, FlagsOK, UsbFields
    <2>5. Owned(usb) /\ OutOK(usb)
      BY <2>3 DEF TransferInv
    <2>6. Owned(v) /\ OutOK(v)
      BY <2>4, <2>5, OwnedSame DEF OutOK
    <2>7. QED
      BY <2>1, <2>3, <2>6, AccountStays
  <1>11. CASE TaskCancel
    <2>1. task.pc = "cancel" /\ task'.pc = "clear" /\ usb' = CancelIn(usb)
      BY <1>11, GotoIs DEF TaskCancel
    <2>2. Owned(usb) /\ OutOK(usb)
      BY <2>1 DEF TransferInv
    <2>3. Ports(usb, usb') /\ Idle(usb')
      BY <2>1, <2>2, CancelInIs DEF Strict, Owned
    <2>4. OutOK(usb')
      BY <2>2, <2>3, Zenon DEF OutOK, Ports
    <2>5. QED
      BY <2>1, <2>3, <2>4, IdleIsOwned DEF TransferInv, Idle
  <1>12. CASE TaskClear
    <2>1. task.pc = "clear" /\ task'.pc = "unmark" /\ usb' = ClearRing(usb)
      BY <1>12, GotoIs DEF TaskClear
    <2>2. Idle(usb) /\ OutOK(usb)
      BY <2>1 DEF TransferInv
    <2>3. PICK v : v = usb'
      OBVIOUS
    <2>4. /\ v.late = usb.late /\ v.inBusy = usb.inBusy /\ v.inReq = usb.inReq
          /\ v.configured = usb.configured /\ v.outReq = usb.outReq
      BY <2>1, <2>3 DEF ClearRing, UsbOK, FlagsOK, UsbFields
    <2>5. ~v.skewed
      BY <2>1, <2>3 DEF ClearRing, UsbOK, FlagsOK, UsbFields
    <2>6. Idle(v) /\ OutOK(v)
      BY <2>2, <2>4, <2>5, Zenon DEF Idle, OutOK
    <2>7. QED
      BY <2>1, <2>3, <2>6, IdleIsOwned, AccountStays
  <1>13. CASE TaskUnmark
    <2>1. usb' = [usb EXCEPT !.initSent = FALSE, !.progress = FALSE] /\ task.pc = "unmark"
      BY <1>13 DEF TaskUnmark
    <2>2. task'.pc = "poll"
      BY <1>13 DEF TaskUnmark, TaskOK, TaskFields
    <2>3. PICK v : v = usb'
      OBVIOUS
    <2>4. /\ v.late = usb.late /\ v.skewed = usb.skewed /\ v.inBusy = usb.inBusy
          /\ v.inReq = usb.inReq /\ v.buf = usb.buf /\ v.inFlight = usb.inFlight
          /\ v.configured = usb.configured /\ v.log = usb.log /\ v.consumed = usb.consumed
          /\ v.outReq = usb.outReq
      BY <2>1, <2>3 DEF UsbOK, FlagsOK, UsbFields
    <2>5. Owned(usb) /\ OutOK(usb)
      BY <2>1 DEF TransferInv
    <2>6. Owned(v) /\ OutOK(v)
      BY <2>4, <2>5, OwnedSame DEF OutOK
    <2>7. QED
      BY <2>2, <2>3, <2>6, AccountStays
  <1>14. CASE TaskPoll
    <2>1. usb' = usb /\ task.pc = "poll"
      BY <1>14 DEF TaskPoll
    <2>2. \/ Goto("force")
          \/ \E len \in PayloadLens :
               task' = [task EXCEPT !.job = "media", !.payload = len,
                                    !.pc = IF usb.initSent THEN "putMedia" ELSE "putInit"]
      BY <1>14, Zenon DEF TaskPoll
    <2>3. task'.pc \in {"force", "putMedia", "putInit"}
      BY <2>2, GotoIs DEF TaskOK, TaskFields
    <2>4. Owned(usb) /\ OutOK(usb)
      BY <2>1 DEF TransferInv
    <2>5. QED
      BY <2>1, <2>3, <2>4, AccountStays
  <1>15. CASE TaskPutMedia
    <2>1. media \in 1 .. MaxMedia /\ task.payload \in PayloadLens /\ task.pc = "putMedia"
      BY <1>15 DEF TaskPutMedia, TaskOK
    <2>2. media \in Nat /\ task.payload \in Nat
      <3>1. task.payload \in Nat
        BY <2>1, UsbAssumption, Zenon
      <3>2. MaxMedia \in Nat
        BY UsbAssumption
      <3>3. QED
        BY <2>1, <3>1, <3>2
    <2>3. PICK a \in Seq(Byte), b \in Seq(Byte) :
            a = MediaHeader(media, task.payload) /\ b = MediaPayload(media, task.payload)
      BY <2>2, MediaIsBytes
    <2>4. \/ usb' = usb /\ Goto(AfterJob)
          \/ /\ usb' = TxEnqueue(usb, a, b)
             /\ Goto(IF Fits(usb.tx, a, b) THEN "kick" ELSE AfterJob)
      BY <1>15, <2>3 DEF TaskPutMedia
    <2>5. task'.pc \in {"kick", "watch", "force"}
      BY <2>4, GotoIs, AfterJobIs
    <2>6. Owned(usb) /\ OutOK(usb)
      BY <2>1 DEF TransferInv
    <2>7. CASE usb' = usb
      BY <2>5, <2>6, <2>7, AccountStays
    <2>8. CASE usb' = TxEnqueue(usb, a, b)
      <3>1. Owned(usb') /\ Ports(usb, usb')
        BY <2>3, <2>6, <2>8, TxEnqueueIs
      <3>2. OutOK(usb')
        BY <2>6, <3>1, Zenon DEF OutOK, Ports
      <3>3. QED
        BY <2>5, <3>1, <3>2, AccountStays
    <2>9. QED
      BY <2>4, <2>7, <2>8
  <1>16. QED
    BY <1>1, <1>2, <1>3, <1>4, <1>5, <1>6, <1>7, <1>8, <1>9, <1>10, <1>11, <1>12, <1>13, <1>14, <1>15
       DEF TaskNext

(* No step falsifies the account, under the three assumptions on the       *)
(* controller and on preemption.                                           *)
LEMMA TransferNext ==
  ASSUME Strict, UsbInv, TransferInv, [Next]_vars
  PROVE  TransferInv'
  <1>1. Clean(usb'.log)
    <2>1. RingStep(usb, usb')
      BY InvNext
    <2>2. QED
      BY <2>1, RingStepClean DEF UsbInv, TransferInv
  <1>2. CASE BusNext
    <2>1. task' = task /\ BetweenCalls
      BY <1>2 DEF BusNext, HostReads, InFails, LateCompletion, HostWrites, SetAlt, Disable,
                  DisconnectOrSuspend, Callback, Strict
    <2>2. Clean(usb.log) /\ Owned(usb) /\ OutOK(usb)
      BY <2>1 DEF TransferInv, BetweenCalls
    <2>3. Owned(usb') /\ OutOK(usb')
      BY <1>2, <2>2, BusKeepsAccount DEF UsbInv, Strict
    <2>4. QED
      BY <1>1, <2>1, <2>3, AccountStays DEF BetweenCalls
  <1>3. CASE TaskNext
    BY <1>1, <1>3, TaskKeepsAccount
  <1>4. CASE UNCHANGED vars
    <2>1. usb' = usb /\ task' = task
      BY <1>4 DEF vars
    <2>2. QED
      BY <2>1 DEF TransferInv
  <1>5. QED
    BY <1>2, <1>3, <1>4 DEF Next

(* The invariant of the IN transfer. *)
THEOREM TransferInvariant == ASSUME Strict PROVE Spec => []TransferInv
  <1>1. Init => TransferInv
    BY DEF Init, UsbInit, TransferInv, Clean, OutOK, Owned, Held
  <1>2. UsbInv /\ TransferInv /\ [Next]_vars => TransferInv'
    BY TransferNext
  <1>3. QED
    BY <1>1, <1>2, InductiveInvariant, PTL DEF Spec

(* While the controller has the request, in_buf is what was handed over:   *)
(* neither kick_tx nor send_pong writes it when in_busy is set.            *)
THEOREM BufferOwnedAlways == ASSUME Strict PROVE Spec => []BufferOwned
  <1>1. TransferInv => BufferOwned
    BY DEF TransferInv, Owned, Held, BufferOwned
  <1>2. QED
    BY <1>1, TransferInvariant, PTL

(* in_busy is true exactly while there is a request, and in_flight_len     *)
(* bytes, or the shorter count the controller reports, are what the host   *)
(* received when it completes.                                             *)
THEOREM TransferTruthfulAlways == ASSUME Strict PROVE Spec => []TransferTruthful
  <1>1. TransferInv => TransferTruthful
    <2> SUFFICES ASSUME TransferInv PROVE TransferTruthful
      OBVIOUS
    <2>1. ConsumedIsReceived
      BY DEF TransferInv, ConsumedIsReceived
    <2>2. BusyMeansQueued
      BY DEF TransferInv, BusyMeansQueued, BetweenCalls, Owned
    <2>3. QED
      BY <2>1, <2>2 DEF TransferTruthful
  <1>2. QED
    BY <1>1, TransferInvariant, PTL

-----------------------------------------------------------------------------
(* ClientStartup: how a session starts.  First what the functions do to a  *)
(* PONG in the controller's hands: but for send_pong they queue none.      *)
Silent(u, v) == v.inReq = PongPacket => u.inReq = PongPacket

(* Two functions in a row. *)
LEMMA SilentThen ==
  ASSUME NEW u, NEW v, NEW w, Silent(u, v), Silent(v, w)
  PROVE  Silent(u, w)
  BY DEF Silent

(* No request is not the PONG. *)
LEMMA NoneIsSilent ==
  ASSUME NEW u, NEW v, v.inReq = u.inReq \/ v.inReq = <<>>
  PROVE  Silent(u, v)
  BY DEF Silent, PongPacket

(* What the ring gives is not the PONG. *)
LEMMA FromLogIsData ==
  ASSUME NEW u, UsbOK(u), Clean(u.log), NEW s \in Seq(Byte), FromLog(u, s)
  PROVE  /\ s[1] = u.log[u.consumed + 1] /\ u.consumed + 1 \in DOMAIN u.log
         /\ s[1] # PongPacket[1] /\ s # PongPacket
  <1>1. PICK l \in Seq(Byte), c \in Nat : l = u.log /\ c = u.consumed
    BY DEF UsbOK, RingOK
  <1>2. s # <<>> /\ c + Len(s) <= Len(l) /\ \A i \in 1 .. Len(s) : s[i] = l[c + i]
    BY <1>1 DEF FromLog
  <1>3. 1 \in 1 .. Len(s) /\ c + 1 \in DOMAIN l
    BY <1>2
  <1>4. s[1] = l[c + 1]
    BY <1>2, <1>3
  <1>5. l[c + 1] # PongPacket[1]
    BY <1>1, <1>3 DEF Clean
  <1>6. QED
    BY <1>1, <1>3, <1>4, <1>5

(* gateway_usb_cancel_in_transfer takes the request back. *)
LEMMA CancelIsSilent ==
  ASSUME NEW u, UsbOK(u)
  PROVE  Silent(u, CancelIn(u))
  <1>1. PICK d : d = IF u.inBusy THEN Dequeue(u) ELSE [u EXCEPT !.resetting = FALSE]
    OBVIOUS
  <1>2. PICK c : c = [d EXCEPT !.inBusy = FALSE, !.inFlight = 0]
    OBVIOUS
  <1>3. DOMAIN d = UsbFields /\ (d.inReq = u.inReq \/ d.inReq = <<>>)
    BY <1>1 DEF Dequeue, UsbOK, FlagsOK, UsbFields
  <1>4. c.inReq = d.inReq /\ c = CancelIn(u)
    BY <1>1, <1>2, <1>3 DEF CancelIn, UsbFields
  <1>5. QED
    BY <1>3, <1>4, NoneIsSilent

(* gateway_usb_reset_stream_session: the same, and the ring is cleared. *)
LEMMA ResetIsSilent ==
  ASSUME NEW u, UsbOK(u)
  PROVE  Silent(u, ResetStreamSession(u))
  <1>1. PICK c : c = CancelIn(u)
    OBVIOUS
  <1>2. UsbOK(c) /\ Silent(u, c)
    BY <1>1, CancelInOK, CancelIsSilent
  <1>3. TxReset(c).inReq = c.inReq
    BY <1>2, TxResetIs
  <1>4. QED
    BY <1>1, <1>2, <1>3 DEF ResetStreamSession, Silent

(* gateway_usb_in_complete with an error status. *)
LEMMA InCompleteErrorIsSilent ==
  ASSUME NEW u, UsbOK(u)
  PROVE  Silent(u, InCompleteError(u))
  <1>1. PICK w : w = [u EXCEPT !.progress = TRUE, !.inBusy = FALSE, !.inFlight = 0]
    OBVIOUS
  <1>2. FlagsOK(w) /\ SameRing(u, w)
    BY <1>1, UsbAssumption DEF UsbOK, FlagsOK, UsbFields, SameRing
  <1>3. UsbOK(w)
    BY <1>2, SameRingOK DEF UsbOK
  <1>4. w.inReq = u.inReq
    BY <1>1 DEF UsbOK, FlagsOK, UsbFields
  <1>5. PICK v : v = InCompleteError(u)
    OBVIOUS
  <1>6. v = [w EXCEPT !.resetting = FALSE] \/ v = ResetStreamSession(w)
    BY <1>1, <1>5 DEF InCompleteError
  <1>7. CASE v = [w EXCEPT !.resetting = FALSE]
    <2>1. v.inReq = w.inReq
      BY <1>2, <1>7 DEF FlagsOK, UsbFields
    <2>2. QED
      BY <1>4, <1>5, <2>1, NoneIsSilent
  <1>8. CASE v = ResetStreamSession(w)
    <2>1. Silent(w, v)
      BY <1>3, <1>8, ResetIsSilent
    <2>2. QED
      BY <1>4, <1>5, <2>1 DEF Silent
  <1>9. QED
    BY <1>6, <1>7, <1>8

(* The controller gives its IN request back with an error. *)
LEMMA FailInIsSilent ==
  ASSUME NEW u, UsbOK(u)
  PROVE  Silent(u, FailIn(u))
  <1>1. CASE u.inReq = <<>>
    BY <1>1 DEF FailIn, Silent
  <1>2. CASE u.inReq # <<>>
    <2>1. PICK w : w = [u EXCEPT !.inReq = << >>]
      OBVIOUS
    <2>2. FlagsOK(w) /\ SameRing(u, w)
      BY <2>1 DEF UsbOK, FlagsOK, UsbFields, SameRing
    <2>3. UsbOK(w)
      BY <2>2, SameRingOK DEF UsbOK
    <2>4. w.inReq = <<>>
      BY <2>1 DEF UsbOK, FlagsOK, UsbFields
    <2>5. FailIn(u) = InCompleteError(w)
      BY <1>2, <2>1 DEF FailIn
    <2>6. QED
      BY <2>3, <2>4, <2>5, InCompleteErrorIsSilent, NoneIsSilent, SilentThen
  <1>3. QED
    BY <1>1, <1>2

(* gateway_usb_function_disable *)
LEMMA FunctionDisableIsSilent ==
  ASSUME NEW u, UsbOK(u)
  PROVE  Silent(u, FunctionDisable(u))
  <1>1. PICK a : a = [u EXCEPT !.configured = FALSE, !.inBusy = FALSE]
    OBVIOUS
  <1>2. FlagsOK(a) /\ SameRing(u, a) /\ a.inReq = u.inReq
    BY <1>1 DEF UsbOK, FlagsOK, UsbFields, SameRing
  <1>3. UsbOK(a)
    BY <1>2, SameRingOK DEF UsbOK
  <1>4. PICK b : b = TxReset(a)
    OBVIOUS
  <1>5. UsbOK(b) /\ b.inReq = a.inReq
    BY <1>3, <1>4, TxResetOK, TxResetIs
  <1>6. PICK c : c = FailIn(b)
    OBVIOUS
  <1>7. UsbOK(c) /\ Silent(b, c)
    BY <1>5, <1>6, FailInOK, FailInIsSilent
  <1>8. PICK v : v = FunctionDisable(u)
    OBVIOUS
  <1>9. v = [c EXCEPT !.outReq = FALSE]
    BY <1>1, <1>4, <1>6, <1>8 DEF FunctionDisable
  <1>10. v.inReq = c.inReq
    BY <1>7, <1>9 DEF UsbOK, FlagsOK, UsbFields
  <1>11. QED
    BY <1>2, <1>5, <1>7, <1>8, <1>10 DEF Silent

(* After a set_alt that went well nothing is busy. *)
LEMMA FunctionSetAltIsSilent ==
  ASSUME NEW u, UsbOK(u), NEW result \in SetAltResult, NEW ok
  PROVE  LET v == FunctionSetAlt(u, result, ok)
         IN Silent(u, v) /\ (result = "done" => v.inBusy = FALSE)
  <1>1. PICK a : a = IF u.configured THEN FunctionDisable(u) ELSE u
    OBVIOUS
  <1>2. UsbOK(a) /\ Silent(u, a)
    <2>1. CASE u.configured
      BY <1>1, <2>1, FunctionDisableOK, FunctionDisableIsSilent
    <2>2. CASE ~u.configured
      BY <1>1, <2>2 DEF Silent
    <2>3. QED
      BY <2>1, <2>2
  <1>3. PICK v : v = FunctionSetAlt(u, result, ok)
    OBVIOUS
  <1>4. CASE result = "noIn"
    BY <1>1, <1>2, <1>3, <1>4 DEF FunctionSetAlt
  <1>5. CASE result = "noOut"
    <2>1. v = FailIn(a)
      BY <1>1, <1>3, <1>5 DEF FunctionSetAlt
    <2>2. QED
      BY <1>2, <1>3, <1>5, <2>1, FailInIsSilent, SilentThen
  <1>6. CASE result = "noRequest"
    <2>1. v = FunctionDisable(a)
      BY <1>1, <1>3, <1>6 DEF FunctionSetAlt
    <2>2. QED
      BY <1>2, <1>3, <1>6, <2>1, FunctionDisableIsSilent, SilentThen
  <1>7. CASE result = "done"
    <2>1. PICK b : b = [a EXCEPT !.configured = TRUE, !.inBusy = FALSE, !.hostReady = FALSE]
      OBVIOUS
    <2>2. FlagsOK(b) /\ SameRing(a, b)
      BY <1>2, <2>1 DEF UsbOK, FlagsOK, UsbFields, SameRing
    <2>3. UsbOK(b)
      BY <1>2, <2>2, SameRingOK DEF UsbOK
    <2>4. b.inReq = a.inReq /\ b.inBusy = FALSE
      BY <1>2, <2>1 DEF UsbOK, FlagsOK, UsbFields
    <2>5. PICK c : c = TxReset(b)
      OBVIOUS
    <2>6. UsbOK(c) /\ c.inBusy = b.inBusy /\ c.inReq = b.inReq
      BY <2>3, <2>5, TxResetOK, TxResetIs
    <2>7. v = QueueOut(c, ok)
      BY <1>1, <1>3, <1>7, <2>1, <2>5 DEF FunctionSetAlt
    <2>8. v = c \/ v = [c EXCEPT !.outReq = TRUE]
      BY <2>7 DEF QueueOut
    <2>9. v.inReq = c.inReq /\ v.inBusy = c.inBusy
      BY <2>6, <2>8 DEF UsbOK, FlagsOK, UsbFields
    <2>10. v.inReq = a.inReq /\ v.inBusy = FALSE
      BY <2>4, <2>6, <2>9
    <2>11. QED
      BY <1>2, <1>3, <2>10 DEF Silent
  <1>8. QED
    BY <1>4, <1>5, <1>6, <1>7 DEF SetAltResult

(* gateway_usb_disconnect and gateway_usb_suspend *)
LEMMA BusLostIsSilent ==
  ASSUME NEW u, UsbOK(u)
  PROVE  Silent(u, BusLost(u))
  <1>1. PICK f, a : f = FailIn(u) /\ a = IF KeepsRequest THEN u ELSE [f EXCEPT !.outReq = FALSE]
    OBVIOUS
  <1>2. UsbOK(f) /\ Silent(u, f)
    BY <1>1, FailInOK, FailInIsSilent
  <1>3. UsbOK(a) /\ Silent(u, a)
    <2>1. CASE KeepsRequest
      BY <1>1, <2>1 DEF Silent
    <2>2. CASE ~KeepsRequest
      <3>1. a = [f EXCEPT !.outReq = FALSE]
        BY <1>1, <2>2
      <3>2. FlagsOK(a) /\ SameRing(f, a) /\ a.inReq = f.inReq
        BY <1>2, <3>1 DEF UsbOK, FlagsOK, UsbFields, SameRing
      <3>3. UsbOK(a)
        BY <1>2, <3>2, SameRingOK DEF UsbOK
      <3>4. QED
        BY <1>2, <3>2, <3>3 DEF Silent
    <2>3. QED
      BY <2>1, <2>2
  <1>4. PICK b : b = [a EXCEPT !.configured = FALSE, !.inBusy = FALSE]
    OBVIOUS
  <1>5. FlagsOK(b) /\ SameRing(a, b) /\ b.inReq = a.inReq
    BY <1>3, <1>4 DEF UsbOK, FlagsOK, UsbFields, SameRing
  <1>6. UsbOK(b)
    BY <1>3, <1>5, SameRingOK DEF UsbOK
  <1>7. BusLost(u) = TxReset(b)
    BY <1>1, <1>4 DEF BusLost
  <1>8. QED
    BY <1>3, <1>5, <1>6, <1>7, TxResetIs DEF Silent

(* gateway_usb_kick_tx queues a chunk of the ring. *)
LEMMA KickTxIsSilent ==
  ASSUME NEW u, UsbOK(u), Clean(u.log), NEW ok
  PROVE  Silent(u, KickTx(u, ok))
  <1>1. PICK chunk \in Seq(Byte) : chunk = PeekChunk(u.tx, Chunk)
    BY PeekChunkOK
  <1>2. PICK v : v = KickTx(u, ok)
    OBVIOUS
  <1>3. CASE ~u.configured \/ u.inBusy \/ chunk = << >>
    <2>1. v = u
      BY <1>1, <1>2, <1>3 DEF KickTx
    <2>2. QED
      BY <1>2, <2>1 DEF Silent
  <1>4. CASE ~(~u.configured \/ u.inBusy \/ chunk = << >>) /\ Accepts(u, ok)
    <2>1. v = [u EXCEPT !.buf = chunk, !.inReq = chunk, !.inBusy = TRUE, !.inFlight = Len(chunk)]
      BY <1>1, <1>2, <1>4 DEF KickTx
    <2>2. v.inReq = chunk
      BY <2>1 DEF UsbOK, FlagsOK, UsbFields
    <2>3. chunk # PongPacket
      BY <1>1, <1>4, PeekIsFromLog, FromLogIsData
    <2>4. QED
      BY <1>2, <2>2, <2>3 DEF Silent
  <1>5. CASE ~(~u.configured \/ u.inBusy \/ chunk = << >>) /\ ~Accepts(u, ok)
    <2>1. v = [u EXCEPT !.buf = chunk, !.inBusy = FALSE, !.inFlight = 0]
      BY <1>1, <1>2, <1>5 DEF KickTx
    <2>2. v.inReq = u.inReq
      BY <2>1 DEF UsbOK, FlagsOK, UsbFields
    <2>3. QED
      BY <1>2, <2>2 DEF Silent
  <1>6. QED
    BY <1>3, <1>4, <1>5

(* What becomes of the stream while the host does not read: it is cleared, *)
(* or stays, or grows.                                                     *)
Streamed(u, v) ==
  \/ v.log = <<>>
  \/ v.consumed = u.consumed /\ (v.log = u.log \/ \E d \in Seq(Byte) : v.log = u.log \o d)

(* A function that leaves the ring alone, or clears it. *)
LEMMA RingIsStreamed ==
  ASSUME NEW u, NEW v, SameRing(u, v) \/ NoRing(v)
  PROVE  Streamed(u, v)
  BY DEF SameRing, NoRing, Streamed

(* A field of usb that is neither the request nor the ring is set. *)
LEMMA SameIsQuiet ==
  ASSUME NEW u, NEW v, SameRing(u, v), v.inReq = u.inReq
  PROVE  Silent(u, v) /\ Streamed(u, v)
  BY RingIsStreamed DEF Silent

(* gateway_usb_tx_enqueue appends a packet, or nothing. *)
LEMMA TxEnqueueIsQuiet ==
  ASSUME NEW u, UsbOK(u), NEW a \in Seq(Byte), NEW b \in Seq(Byte)
  PROVE  Silent(u, TxEnqueue(u, a, b)) /\ Streamed(u, TxEnqueue(u, a, b))
  <1>1. PICK v : v = TxEnqueue(u, a, b)
    OBVIOUS
  <1>2. v.inReq = u.inReq /\ v.consumed = u.consumed
    BY <1>1 DEF TxEnqueue, UsbOK, FlagsOK, UsbFields
  <1>3. v.log = u.log \o (a \o b) \/ v.log = u.log
    BY <1>1, TxEnqueueIs
  <1>4. a \o b \in Seq(Byte)
    BY ConcatParts
  <1>5. QED
    BY <1>1, <1>2, <1>3, <1>4, Zenon DEF Silent, Streamed

(* The task queues only what the ring gave. *)
LEMMA TaskIsQuiet ==
  ASSUME UsbInv, TransferInv, TaskNext
  PROVE  Silent(usb, usb') /\ Streamed(usb, usb')
  <1> USE DEF UsbInv
  <1>1. CASE TaskForce \/ TaskRetry \/ TaskKick \/ TaskPoll
    <2>1. usb' = usb
      BY <1>1 DEF TaskForce, TaskRetry, TaskKick, TaskPoll
    <2>2. QED
      BY <2>1 DEF Silent, Streamed
  <1>2. CASE TaskSetAlt
    <2>1. PICK result \in SetAltResult, ok \in BOOLEAN : usb' = FunctionSetAlt(usb, result, ok)
      BY <1>2 DEF TaskSetAlt
    <2>2. QED
      BY <2>1, FunctionSetAltIsSilent, FunctionSetAltOK, RingIsStreamed
  <1>3. CASE TaskPutInit
    BY <1>3, InitIsBytes, TxEnqueueIsQuiet DEF TaskPutInit
  <1>4. CASE TaskMarkInit
    <2>1. SameRing(usb, usb') /\ usb'.inReq = usb.inReq
      BY <1>4 DEF TaskMarkInit, UsbOK, FlagsOK, UsbFields, SameRing
    <2>2. QED
      BY <2>1, SameIsQuiet
  <1>5. CASE TaskPeek
    <2>1. PICK chunk : chunk = PeekChunk(usb.tx, Chunk)
      OBVIOUS
    <2>2. usb' = usb \/ usb' = [usb EXCEPT !.buf = chunk]
      BY <1>5, <2>1 DEF TaskPeek
    <2>3. SameRing(usb, usb') /\ usb'.inReq = usb.inReq
      BY <2>2 DEF UsbOK, FlagsOK, UsbFields, SameRing
    <2>4. QED
      BY <2>3, SameIsQuiet
  <1>6. CASE TaskArm
    <2>1. usb' = [usb EXCEPT !.inBusy = TRUE, !.inFlight = task.len]
      BY <1>6 DEF TaskArm
    <2>2. SameRing(usb, usb') /\ usb'.inReq = usb.inReq
      BY <2>1 DEF UsbOK, FlagsOK, UsbFields, SameRing
    <2>3. QED
      BY <2>2, SameIsQuiet
  <1>7. CASE TaskQueue
    <2>1. \/ usb' = [usb EXCEPT !.inReq = usb.buf]
          \/ usb' = [usb EXCEPT !.inBusy = FALSE, !.inFlight = 0]
      BY <1>7 DEF TaskQueue
    <2>2. CASE usb' = [usb EXCEPT !.inReq = usb.buf]
      <3>1. SameRing(usb, usb') /\ usb'.inReq = usb.buf
        BY <2>2 DEF UsbOK, FlagsOK, UsbFields, SameRing
      <3>2. FromLog(usb, usb.buf) /\ Clean(usb.log) /\ usb.buf \in Seq(Byte)
        BY <1>7 DEF TaskQueue, TransferInv, UsbOK, FlagsOK
      <3>3. usb.buf # PongPacket
        BY <3>2, FromLogIsData
      <3>4. QED
        BY <3>1, <3>3, RingIsStreamed DEF Silent
    <2>3. CASE usb' = [usb EXCEPT !.inBusy = FALSE, !.inFlight = 0]
      <3>1. SameRing(usb, usb') /\ usb'.inReq = usb.inReq
        BY <2>3 DEF UsbOK, FlagsOK, UsbFields, SameRing
      <3>2. QED
        BY <3>1, SameIsQuiet
    <2>4. QED
      BY <2>1, <2>2, <2>3
  <1>8. CASE TaskWatch
    <2>1. usb' = usb \/ usb' = [usb EXCEPT !.progress = FALSE]
      BY <1>8 DEF TaskWatch
    <2>2. SameRing(usb, usb') /\ usb'.inReq = usb.inReq
      BY <2>1 DEF UsbOK, FlagsOK, UsbFields, SameRing
    <2>3. QED
      BY <2>2, SameIsQuiet
  <1>9. CASE TaskCancel
    BY <1>9, CancelInOK, CancelIsSilent, RingIsStreamed DEF TaskCancel
  <1>10. CASE TaskClear
    <2>1. usb'.inReq = usb.inReq
      BY <1>10 DEF TaskClear, ClearRing, UsbOK, FlagsOK, UsbFields
    <2>2. NoRing(usb')
      BY <1>10, ClearRingOK DEF TaskClear
    <2>3. QED
      BY <2>1, <2>2, NoneIsSilent, RingIsStreamed
  <1>11. CASE TaskUnmark
    <2>1. SameRing(usb, usb') /\ usb'.inReq = usb.inReq
      BY <1>11 DEF TaskUnmark, UsbOK, FlagsOK, UsbFields, SameRing
    <2>2. QED
      BY <2>1, SameIsQuiet
  <1>12. CASE TaskPutMedia
    <2>1. media \in Nat /\ task.payload \in Nat
      <3>1. media \in 1 .. MaxMedia /\ task.payload \in PayloadLens
        BY <1>12 DEF TaskPutMedia, TaskOK
      <3>2. task.payload \in Nat
        BY <3>1, UsbAssumption, Zenon
      <3>3. MaxMedia \in Nat
        BY UsbAssumption
      <3>4. QED
        BY <3>1, <3>2, <3>3
    <2>2. PICK a \in Seq(Byte), b \in Seq(Byte) :
            a = MediaHeader(media, task.payload) /\ b = MediaPayload(media, task.payload)
      BY <2>1, MediaIsBytes
    <2>3. usb' = usb \/ usb' = TxEnqueue(usb, a, b)
      BY <1>12, <2>2 DEF TaskPutMedia
    <2>4. CASE usb' = usb
      BY <2>4 DEF Silent, Streamed
    <2>5. CASE usb' = TxEnqueue(usb, a, b)
      BY <2>5, TxEnqueueIsQuiet
    <2>6. QED
      BY <2>3, <2>4, <2>5
  <1>13. QED
    BY <1>1, <1>2, <1>3, <1>4, <1>5, <1>6, <1>7, <1>8, <1>9, <1>10, <1>11, <1>12 DEF TaskNext

(* The firmware without the client's packets. *)
LEMMA FirmwareIsQuiet ==
  ASSUME UsbInv, TransferInv, Firmware
  PROVE  Silent(usb, usb') /\ Streamed(usb, usb')
  <1> USE DEF UsbInv
  <1>1. CASE TaskNext
    BY <1>1, TaskIsQuiet
  <1>2. CASE InFails
    <2>1. usb' = FailIn(usb)
      BY <1>2 DEF InFails, FailIn
    <2>2. QED
      BY <2>1, FailInOK, FailInIsSilent, RingIsStreamed
  <1>3. CASE SetAlt
    <2>1. PICK result \in SetAltResult, ok \in BOOLEAN : usb' = FunctionSetAlt(usb, result, ok)
      BY <1>3 DEF SetAlt
    <2>2. QED
      BY <2>1, FunctionSetAltIsSilent, FunctionSetAltOK, RingIsStreamed
  <1>4. CASE Disable
    BY <1>4, FunctionDisableOK, FunctionDisableIsSilent, RingIsStreamed DEF Disable
  <1>5. CASE DisconnectOrSuspend
    BY <1>5, BusLostOK, BusLostIsSilent, RingIsStreamed DEF DisconnectOrSuspend
  <1>6. QED
    BY <1>1, <1>2, <1>3, <1>4, <1>5 DEF Firmware

(* gateway_usb_out_complete queues a PONG for a PING only. *)
LEMMA ConfigIsQuiet ==
  ASSUME NEW u, UsbOK(u), NEW packet \in {"CFG1", "error"}, NEW pongOk, NEW kickOk, NEW outOk
  PROVE  LET v == OutComplete(u, packet, pongOk, kickOk, outOk) IN Silent(u, v) /\ Streamed(u, v)
  <1>1. PICK v : v = OutComplete(u, packet, pongOk, kickOk, outOk)
    OBVIOUS
  <1>2. CASE packet = "error"
    <2>1. v = [u EXCEPT !.outReq = FALSE]
      BY <1>1, <1>2 DEF OutComplete
    <2>2. SameRing(u, v) /\ v.inReq = u.inReq
      BY <2>1 DEF UsbOK, FlagsOK, UsbFields, SameRing
    <2>3. QED
      BY <1>1, <2>2, SameIsQuiet
  <1>3. CASE packet = "CFG1"
    <2>1. PICK w : w = [u EXCEPT !.outReq = FALSE, !.hostReady = TRUE]
      OBVIOUS
    <2>2. v = QueueOut(w, outOk)
      BY <1>1, <1>3, <2>1 DEF OutComplete
    <2>3. v = w \/ v = [w EXCEPT !.outReq = TRUE]
      BY <2>2 DEF QueueOut
    <2>4. FlagsOK(w) /\ SameRing(u, w) /\ w.inReq = u.inReq
      BY <2>1 DEF UsbOK, FlagsOK, UsbFields, SameRing
    <2>5. SameRing(w, v) /\ v.inReq = w.inReq
      BY <2>3, <2>4 DEF FlagsOK, UsbFields, SameRing
    <2>6. SameRing(u, v) /\ v.inReq = u.inReq
      BY <2>4, <2>5 DEF SameRing
    <2>7. QED
      BY <1>1, <2>6, SameIsQuiet
  <1>4. QED
    BY <1>2, <1>3

(* The device's part of the invariant, which holds of AmebaUsb for any     *)
(* host, and its steps for this client.                                    *)
DeviceInv == UsbInv /\ SessionInv /\ TransferInv

(* Every step of AmebaUsb keeps the device's part. *)
LEMMA DeviceNext ==
  ASSUME Strict, DeviceInv, [Next]_vars
  PROVE  DeviceInv'
  BY InvNext, SessionNext, TransferNext DEF DeviceInv, Strict

(* The count of events stays within its bound. *)
LEMMA EventsOK ==
  ASSUME UsbInv, NEW b \in BOOLEAN, Event \/ EventIf(b) \/ UNCHANGED events
  PROVE  events' \in 0 .. MaxEvents
  BY UsbAssumption DEF UsbInv, TaskOK, Event, EventIf

(* Nothing of the device moves but the count of events. *)
LEMMA SameDevice ==
  ASSUME DeviceInv, usb' = usb, task' = task, media' = media, events' \in 0 .. MaxEvents
  PROVE  DeviceInv'
  BY DEF DeviceInv, UsbInv, TaskOK, SessionInv, TransferInv

(* A callback between the task's functions. *)
LEMMA CallbackKeeps ==
  ASSUME Strict, DeviceInv, Callback, events' \in 0 .. MaxEvents,
         UsbOK(usb'), Keeps(usb, usb') \/ Forgotten(usb') \/ Opened(usb'),
         Owned(usb) => Owned(usb') /\ OutOK(usb')
  PROVE  DeviceInv'
  <1>1. BetweenCalls /\ task' = task /\ media' = media
    BY DEF Strict, Callback
  <1>2. UsbInv'
    BY <1>1 DEF DeviceInv, UsbInv, TaskOK
  <1>3. InitFirst(usb'.log) /\ Session(usb')
    <2>1. InitFirst(usb.log) /\ Session(usb)
      BY <1>1 DEF DeviceInv, SessionInv, BetweenCalls
    <2>2. QED
      BY <2>1, SessionMove
  <1>4. SessionInv'
    BY <1>1, <1>3 DEF SessionInv, BetweenCalls
  <1>5. Clean(usb'.log)
    <2>1. Clean(usb.log)
      BY DEF DeviceInv, TransferInv
    <2>2. Clean(<<>>) /\ Clean(InitPacket)
      BY DEF Clean, InitPacket, PongPacket
    <2>3. QED
      BY <2>1, <2>2 DEF Keeps, Forgotten, Opened
  <1>6. Owned(usb') /\ OutOK(usb')
    BY <1>1 DEF DeviceInv, TransferInv, BetweenCalls
  <1>7. TransferInv'
    <2>1. task'.pc \notin {"peek", "arm", "queue", "clear"}
      BY <1>1 DEF BetweenCalls
    <2>2. QED
      BY <1>5, <1>6, <2>1, AccountStays
  <1>8. QED
    BY <1>2, <1>4, <1>7 DEF DeviceInv

(* A transfer that the client receives: the PONG, or what the ring gives   *)
(* up; no PONG follows it.                                                 *)
LEMMA ReceivesIs ==
  ASSUME Strict, DeviceInv, Receives
  PROVE  /\ DeviceInv'
         /\ usb'.log = usb.log /\ usb'.inReq # PongPacket
         /\ usb.buf = usb.inReq /\ usb.buf \in Seq(Byte) /\ usb.buf # <<>>
         /\ IsPong(usb.buf) => usb.buf = PongPacket
         /\ SubSeq(usb.log, usb.consumed + 1, usb'.consumed)
              = IF usb.buf = PongPacket THEN <<>> ELSE usb.buf
  <1>1. BetweenCalls /\ Callback /\ usb.inReq # <<>>
    BY DEF Strict, Receives, Callback
  <1>2. UsbOK(usb) /\ Owned(usb) /\ Clean(usb.log)
    BY <1>1 DEF DeviceInv, UsbInv, TransferInv, BetweenCalls
  <1>3. usb.buf = usb.inReq
    BY <1>1, <1>2 DEF Owned, Held
  <1>4. PICK b \in Seq(Byte), n \in Nat \ {0} : b = usb.buf /\ b = usb.inReq /\ n = Len(b) /\ b # <<>>
    <2>1. usb.buf \in Seq(Byte)
      BY <1>2 DEF UsbOK, FlagsOK
    <2>2. Len(usb.buf) \in Nat \ {0}
      BY <1>1, <1>3, <2>1
    <2>3. QED
      BY <1>1, <1>3, <2>1, <2>2
  <1>5. PICK ok \in BOOLEAN : EventIf(~ok) /\ usb' = Completion([usb EXCEPT !.inReq = <<>>], n, b, ok)
    BY <1>4 DEF Receives
  <1>6. SubSeq(b, 1, MinOf(n, Len(b))) = b
    <2>1. MinOf(n, Len(b)) = n
      BY <1>4 DEF MinOf
    <2>2. SubSeq(b, 1, n) \in Seq(Byte) /\ Len(SubSeq(b, 1, n)) = n
      BY <1>4
    <2>3. \A i \in 1 .. n : SubSeq(b, 1, n)[i] = b[i]
      BY <1>4
    <2>4. QED
      BY <1>4, <2>1, <2>2, <2>3, SeqEqual
  <1>7. HostReads
    <2>1. n \in 1 .. Len(usb.inReq) /\ ~(n < Len(usb.inReq))
      BY <1>4
    <2>2. EventIf(~ok \/ n < Len(usb.inReq))
      BY <1>5, <2>1
    <2>3. usb' = Completion([usb EXCEPT !.inReq = <<>>], n, SubSeq(usb.buf, 1, MinOf(n, Len(usb.buf))), ok)
      BY <1>4, <1>5, <1>6
    <2>4. QED
      BY <1>1, <2>1, <2>2, <2>3 DEF HostReads
  <1>8. DeviceInv'
    BY <1>7, DeviceNext DEF Next, BusNext
  <1>9. PICK u : u = [usb EXCEPT !.inReq = << >>]
    OBVIOUS
  <1>10. UsbOK(u) /\ u.log = usb.log /\ u.consumed = usb.consumed /\ u.inReq = <<>>
    <2>1. FlagsOK(u) /\ SameRing(usb, u) /\ u.inReq = <<>>
      BY <1>2, <1>9 DEF UsbOK, FlagsOK, UsbFields, SameRing
    <2>2. QED
      BY <1>2, <2>1, SameRingOK DEF UsbOK, SameRing
  <1>11. usb'.log = usb.log
    <2>1. usb' = Completion(u, n, b, ok) /\ n \in Nat
      BY <1>5, <1>9
    <2>2. Keeps(u, usb')
      BY <1>10, <2>1, CompletionIs
    <2>3. QED
      BY <1>10, <2>2 DEF Keeps
  <1>12. PICK k : k = InCompleteOk(u, n, ok)
    OBVIOUS
  <1>13. UsbOK(k)
    BY <1>10, <1>12, InCompleteOkOK
  <1>14. PICK s : s = IF b = PongPacket THEN <<>> ELSE b
    OBVIOUS
  <1>15. usb' = [k EXCEPT !.skewed = IF SubSeq(u.log, u.consumed + 1, k.consumed) = s THEN k.skewed ELSE TRUE]
    BY <1>5, <1>9, <1>12, <1>14 DEF Completion
  <1>16. SubSeq(usb.log, usb.consumed + 1, usb'.consumed) = s
    <2>1. /\ usb'.consumed = k.consumed
          /\ usb'.skewed = IF SubSeq(u.log, u.consumed + 1, k.consumed) = s THEN k.skewed ELSE TRUE
      BY <1>13, <1>15 DEF UsbOK, FlagsOK, UsbFields
    <2>2. usb'.skewed # TRUE
      BY <1>8 DEF DeviceInv, TransferInv
    <2>3. SubSeq(u.log, u.consumed + 1, k.consumed) = s
      BY <2>1, <2>2
    <2>4. QED
      BY <1>10, <2>1, <2>3
  <1>17. usb'.inReq # PongPacket
    <2>1. PICK len : len = IF 0 < n /\ n < u.inFlight THEN n ELSE u.inFlight
      OBVIOUS
    <2>2. len \in Nat
      BY <1>10, <2>1, UsbAssumption DEF UsbOK, FlagsOK
    <2>3. PICK a : a = [u EXCEPT !.progress = TRUE, !.inBusy = FALSE, !.inFlight = 0]
      OBVIOUS
    <2>4. FlagsOK(a) /\ SameRing(u, a) /\ a.inReq = u.inReq
      <3>1. FlagsOK(u)
        BY <1>10 DEF UsbOK
      <3>2. QED
        BY <2>3, <3>1, UsbAssumption DEF FlagsOK, UsbFields, SameRing
    <2>5. UsbOK(a)
      BY <1>10, <2>4, SameRingOK DEF UsbOK
    <2>6. PICK c : c = TxConsume(a, len)
      OBVIOUS
    <2>7. UsbOK(c)
      BY <2>2, <2>5, <2>6, TxConsumeOK
    <2>8. c.inReq = a.inReq /\ c.log = a.log
      BY <2>5, <2>6 DEF TxConsume, UsbOK, FlagsOK, UsbFields
    <2>9. k = KickTx(c, ok)
      BY <1>12, <2>1, <2>3, <2>6 DEF InCompleteOk
    <2>10. Clean(c.log)
      BY <1>2, <1>10, <2>4, <2>8 DEF SameRing
    <2>11. Silent(c, k)
      BY <2>7, <2>9, <2>10, KickTxIsSilent
    <2>12. c.inReq = <<>>
      BY <1>10, <2>4, <2>8
    <2>13. k.inReq # PongPacket
      BY <2>11, <2>12 DEF Silent, PongPacket
    <2>14. usb'.inReq = k.inReq
      BY <1>13, <1>15 DEF UsbOK, FlagsOK, UsbFields
    <2>15. QED
      BY <2>13, <2>14
  <1>18. IsPong(b) => b = PongPacket
    <2>1. b = PongPacket \/ FromLog(usb, b)
      BY <1>1, <1>2, <1>4 DEF Owned, Held
    <2>2. FromLog(usb, b) => b[1] # PongPacket[1]
      BY <1>2, FromLogIsData
    <2>3. QED
      BY <2>1, <2>2 DEF IsPong
  <1>19. QED
    BY <1>1, <1>3, <1>4, <1>8, <1>11, <1>14, <1>16, <1>17, <1>18

(* What a piece of the log behind the first c bytes is. *)
LEMMA PieceBehind ==
  ASSUME NEW l \in Seq(Byte), NEW c \in Nat, NEW d \in Nat, c <= Len(l), d <= Len(l),
         NEW b \in Seq(Byte), b # <<>>, SubSeq(l, c + 1, d) = b
  PROVE  /\ Len(b) = d - c /\ c < d /\ b[1] = l[c + 1]
         /\ SubSeq(l, 1, c) \in Seq(Byte) /\ Len(SubSeq(l, 1, c)) = c
         /\ SubSeq(l, 1, c) \o b = SubSeq(l, 1, d)
  <1>1. c < d
    <2>1. d <= c => SubSeq(l, c + 1, d) = <<>>
      OBVIOUS
    <2>2. QED
      BY <2>1
  <1>2. PICK n \in Nat : n = d - c /\ d = c + n
    BY <1>1
  <1>3. Len(b) = n /\ \A i \in 1 .. n : b[i] = l[c + i]
    BY <1>2, PieceParts
  <1>4. PICK x \in Seq(Byte) : x = SubSeq(l, 1, c) /\ Len(x) = c /\ \A i \in 1 .. c : x[i] = l[i]
    <2>1. 0 \in Nat /\ 0 + c <= Len(l)
      OBVIOUS
    <2>2. /\ SubSeq(l, 0 + 1, 0 + c) \in Seq(Byte) /\ Len(SubSeq(l, 0 + 1, 0 + c)) = c
          /\ \A i \in 1 .. c : SubSeq(l, 0 + 1, 0 + c)[i] = l[0 + i]
      BY <2>1, PieceParts
    <2>3. 0 + 1 = 1 /\ 0 + c = c /\ \A i \in 1 .. c : 0 + i = i
      OBVIOUS
    <2>4. QED
      BY <2>2, <2>3
  <1>5. PICK y \in Seq(Byte) : y = SubSeq(l, 1, d) /\ Len(y) = d /\ \A i \in 1 .. d : y[i] = l[i]
    <2>1. 0 \in Nat /\ 0 + d <= Len(l)
      OBVIOUS
    <2>2. /\ SubSeq(l, 0 + 1, 0 + d) \in Seq(Byte) /\ Len(SubSeq(l, 0 + 1, 0 + d)) = d
          /\ \A i \in 1 .. d : SubSeq(l, 0 + 1, 0 + d)[i] = l[0 + i]
      BY <2>1, PieceParts
    <2>3. 0 + 1 = 1 /\ 0 + d = d /\ \A i \in 1 .. d : 0 + i = i
      OBVIOUS
    <2>4. QED
      BY <2>2, <2>3
  <1>6. PICK z \in Seq(Byte) : z = x \o b
    BY ConcatParts
  <1>7. Len(z) = d /\ \A i \in 1 .. c + n : z[i] = IF i <= c THEN x[i] ELSE b[i - c]
    BY <1>2, <1>3, <1>4, <1>6, ConcatParts
  <1>8. ASSUME NEW i \in 1 .. d PROVE z[i] = y[i]
    <2>1. i \in 1 .. c + n
      BY <1>2
    <2>2. CASE i <= c
      <3>1. i \in 1 .. c
        BY <2>2
      <3>2. z[i] = x[i]
        BY <1>7, <2>1, <2>2
      <3>3. QED
        BY <1>4, <1>5, <3>1, <3>2
    <2>3. CASE ~(i <= c)
      <3>1. i - c \in 1 .. n /\ c + (i - c) = i
        BY <1>2, <2>3
      <3>2. z[i] = b[i - c]
        BY <1>7, <2>1, <2>3
      <3>3. b[i - c] = l[c + (i - c)]
        BY <1>3, <3>1
      <3>4. QED
        BY <1>5, <3>1, <3>2, <3>3
    <2>4. QED
      BY <2>2, <2>3
  <1>9. z = y
    BY <1>5, <1>7, <1>8, SeqEqual
  <1>10. b[1] = l[c + 1]
    BY <1>1, <1>2, <1>3
  <1>11. QED
    BY <1>1, <1>2, <1>3, <1>4, <1>5, <1>6, <1>9, <1>10

(* What the client and the packets on their way are at each place of the   *)
(* start-up.  The session that a waiting client has is its own or an older *)
(* one; it is its own once it saw the PONG, and no PING is on its way then *)
(* that could begin another.                                               *)
CliOK(c) ==
  c \in [pc : {"before", "flush", "config", "ping", "wait", "up", "failed"}, attempt : {1, 2},
         flushed : 0 .. MaxFlush, gotPong : BOOLEAN, got : Seq(Byte)]

OutPacket == [kind : {"none", "PING", "CFG1"}, seq : 0 .. 2]

LinkOK(l) ==
  l \in [out : OutPacket, pong : 0 .. 2, session : 0 .. 2, intact : BOOLEAN]

Ordered(c, l) ==
  /\ l.out # Nothing => l.out.kind \in {"PING", "CFG1"}
  /\ c.pc = "before" => c.attempt = 1 /\ c.gotPong = FALSE
  /\ c.pc \in {"before", "flush"} => c.flushed < MaxFlush
  /\ c.pc \in {"flush", "config", "ping"} =>
       /\ l.session < c.attempt /\ c.gotPong = FALSE
       /\ l.out.kind = "PING" => l.out.seq < c.attempt
  /\ c.pc = "wait" =>
       /\ l.session <= c.attempt /\ (c.gotPong = TRUE => l.session = c.attempt)
       /\ l.out # Nothing => l.out.kind = "PING" /\ l.out.seq = c.attempt /\ l.session < c.attempt
  /\ c.pc = "up" => l.out = Nothing /\ c.gotPong = TRUE /\ c.got # <<>>

(* The PONG that the controller holds is the last session's, and after the *)
(* client has seen it there is no other.                                   *)
Ponged(c, l, u) ==
  /\ c.pc \in {"wait", "up"} /\ c.gotPong = TRUE => u.inReq # PongPacket
  /\ c.pc # "before" /\ u.inReq = PongPacket => l.pong = l.session

StartInv ==
  /\ DeviceInv
  /\ CliOK(cli) /\ LinkOK(link) /\ Ordered(cli, link) /\ Ponged(cli, link, usb)
  /\ NothingSkipped

(* Nothing on its way is one of the values of link.out. *)
LEMMA NothingIsOut == Nothing \in OutPacket /\ Nothing.kind = "none"
  BY DEF Nothing, OutPacket

(* A device that moves without the client and without a PING. *)
LEMMA DeviceMoves ==
  ASSUME StartInv, DeviceInv', cli' = cli, LinkOK(link'),
         link'.pong = link.pong, link'.session = link.session, link'.out \in {link.out, Nothing},
         link'.intact => StaysIntact, Silent(usb, usb'), Streamed(usb, usb')
  PROVE  StartInv'
  <1>1. Ordered(cli', link')
    <2>1. Nothing.kind = "none"
      BY DEF Nothing
    <2>2. PICK l : l = link'
      OBVIOUS
    <2>3. Ordered(cli, link) /\ l.session = link.session /\ (l.out = link.out \/ l.out = Nothing)
      BY <2>2 DEF StartInv
    <2>4. Ordered(cli, l)
      BY <2>1, <2>3 DEF Ordered
    <2>5. QED
      BY <2>2, <2>4
  <1>2. Ponged(cli', link', usb')
    BY DEF StartInv, Ponged, Silent
  <1>3. NothingSkipped'
    <2>1. SUFFICES ASSUME cli.pc = "up", link'.intact
                   PROVE  Len(cli.got) = usb'.consumed /\ cli.got = SubSeq(usb'.log, 1, usb'.consumed)
      BY DEF NothingSkipped
    <2>2. StaysIntact
      BY <2>1
    <2>3. Len(cli.got) = usb.consumed /\ cli.got = SubSeq(usb.log, 1, usb.consumed)
      BY <2>1, <2>2 DEF StartInv, NothingSkipped, StaysIntact
    <2>4. PICK l \in Seq(Byte), c \in Nat, m \in Seq(Byte) :
            l = usb.log /\ c = usb.consumed /\ m = usb'.log /\ c <= Len(l)
      <3>1. usb.log \in Seq(Byte) /\ usb'.log \in Seq(Byte) /\ usb.consumed \in Nat
        BY DEF StartInv, DeviceInv, UsbInv, UsbOK, RingOK
      <3>2. usb.tx.count \in Nat
        BY RingParts DEF StartInv, DeviceInv, UsbInv, UsbOK, RingOK
      <3>3. Len(usb.log) = usb.consumed + usb.tx.count
        BY Zenon DEF StartInv, DeviceInv, UsbInv, UsbOK, RingOK
      <3>4. QED
        BY <3>1, <3>2, <3>3
    <2>5. cli.got \in Seq(Byte) /\ cli.got # <<>>
      BY <2>1 DEF StartInv, CliOK, Ordered
    <2>6. c > 0
      BY <2>3, <2>4, <2>5
    <2>7. Len(m) >= Len(l)
      BY <2>2, <2>4 DEF StaysIntact
    <2>8. m # <<>>
      BY <2>4, <2>6, <2>7
    <2>9. usb'.consumed = c /\ (m = l \/ \E d \in Seq(Byte) : m = l \o d)
      BY <2>4, <2>8 DEF Streamed
    <2>10. CASE m = l
      BY <2>3, <2>4, <2>9, <2>10
    <2>11. ASSUME NEW d \in Seq(Byte), m = l \o d
           PROVE  SubSeq(m, 1, c) = SubSeq(l, 1, c)
      <3>1. Len(m) = Len(l) + Len(d) /\ \A i \in 1 .. Len(l) + Len(d) : m[i] = IF i <= Len(l) THEN l[i] ELSE d[i - Len(l)]
        BY <2>11, ConcatParts
      <3>2. \A i \in 1 .. c : i \in 1 .. Len(l) + Len(d) /\ i <= Len(l) /\ 0 + i = i
        BY <2>4
      <3>6. c <= Len(m) /\ \A i \in 1 .. c : m[i] = l[0 + i]
        BY <2>4, <3>1, <3>2
      <3>3. SubSeq(m, 1, c) = SubSeq(l, 0 + 1, 0 + c)
        <4>1. 0 \in Nat /\ 0 + c <= Len(l)
          BY <2>4
        <4>2. QED
          BY <3>6, <4>1, SamePiece
      <3>4. 0 + 1 = 1 /\ 0 + c = c
        OBVIOUS
      <3>5. QED
        BY <3>3, <3>4
    <2>12. SubSeq(m, 1, c) = SubSeq(l, 1, c)
      BY <2>9, <2>11
    <2>13. QED
      BY <2>3, <2>4, <2>9, <2>12
  <1>4. CliOK(cli')
    BY DEF StartInv
  <1>5. QED
    BY <1>1, <1>2, <1>3, <1>4 DEF StartInv

(* The firmware's own steps. *)
LEMMA FirmwareStarts ==
  ASSUME Strict, StartInv, Firmware
  PROVE  StartInv'
  <1>1. DeviceInv'
    BY DeviceNext DEF StartInv, Firmware, Next, BusNext
  <1>2. Silent(usb, usb') /\ Streamed(usb, usb')
    BY FirmwareIsQuiet DEF StartInv, DeviceInv
  <1>3. LinkOK(link) /\ link.out \in OutPacket
    BY DEF StartInv, LinkOK
  <1>4. PICK b \in BOOLEAN : b = StaysIntact
    BY <1>3 DEF StaysIntact, LinkOK
  <1>5. PICK o \in OutPacket : o \in {link.out, Nothing} /\ link' = [link EXCEPT !.out = o, !.intact = b]
    <2>1. PICK o : o = IF usb.outReq /\ ~usb'.outReq THEN Nothing ELSE link.out
      OBVIOUS
    <2>2. link' = [link EXCEPT !.intact = StaysIntact, !.out = o]
      BY <2>1 DEF Firmware
    <2>3. link' = [link EXCEPT !.out = o, !.intact = b]
      BY <1>3, <1>4, <2>2 DEF LinkOK
    <2>4. o \in {link.out, Nothing}
      BY <2>1
    <2>5. QED
      BY <1>3, <2>3, <2>4, NothingIsOut
  <1>6. /\ LinkOK(link') /\ link'.pong = link.pong /\ link'.session = link.session
        /\ link'.out = o /\ link'.intact = b
    <2>1. PICK m : m = link'
      OBVIOUS
    <2>2. m = [link EXCEPT !.out = o, !.intact = b]
      BY <1>5, <2>1
    <2>3. LinkOK(m) /\ m.out = o /\ m.intact = b /\ m.pong = link.pong /\ m.session = link.session
      BY <1>3, <2>2 DEF LinkOK
    <2>4. QED
      BY <2>1, <2>3
  <1>7. cli' = cli
    BY DEF Firmware
  <1>8. QED
    BY <1>1, <1>2, <1>4, <1>5, <1>6, <1>7, DeviceMoves

(* gateway_usb_out_complete with the client's packet.                      *)
LEMMA OutStarts ==
  ASSUME Strict, StartInv, FirmwareOut
  PROVE  StartInv'
  <1>1. PICK pongOk \in BOOLEAN, kickOk \in BOOLEAN, outOk \in BOOLEAN :
          /\ EventIf(~(pongOk /\ kickOk /\ outOk))
          /\ usb' = OutComplete(usb, link.out.kind, pongOk, kickOk, outOk)
          /\ link' = IF link.out.kind = "PING"
                       THEN [out |-> Nothing, pong |-> link.out.seq, session |-> link.out.seq,
                             intact |-> TRUE]
                       ELSE [link EXCEPT !.out = Nothing, !.intact = StaysIntact]
    BY DEF FirmwareOut
  <1>2. Callback /\ usb.outReq /\ link.out # Nothing /\ cli' = cli
    BY DEF FirmwareOut
  <1>3. link.out.kind \in {"PING", "CFG1"}
    BY <1>2 DEF StartInv, Ordered
  <1>4. UsbOK(usb) /\ UsbInv
    BY DEF StartInv, DeviceInv, UsbInv
  <1>5. DeviceInv'
    <2>1. events' \in 0 .. MaxEvents
      BY <1>1, <1>4, EventsOK
    <2>2. UsbOK(usb')
      BY <1>1, <1>3, <1>4, OutCompleteOK
    <2>3. Session(usb)
      BY <1>2 DEF Strict, Callback, BetweenCalls, StartInv, DeviceInv, SessionInv
    <2>4. usb.configured
      BY <1>2 DEF StartInv, DeviceInv, TransferInv, OutOK
    <2>5. /\ Keeps(usb, usb') \/ Forgotten(usb') \/ Opened(usb')
          /\ Owned(usb) => Owned(usb') /\ OutOK(usb')
      BY <1>1, <1>3, <1>4, <2>3, <2>4, OutCompleteIs DEF Strict
    <2>6. QED
      BY <1>2, <2>1, <2>2, <2>5, CallbackKeeps DEF StartInv
  <1>6. CASE link.out.kind = "CFG1"
    <2>1. Silent(usb, usb') /\ Streamed(usb, usb')
      BY <1>1, <1>4, <1>6, ConfigIsQuiet
    <2>2. PICK b \in BOOLEAN : b = StaysIntact /\ link' = [link EXCEPT !.out = Nothing, !.intact = b]
      <3>1. StaysIntact \in BOOLEAN
        BY DEF StaysIntact, StartInv, LinkOK
      <3>2. QED
        BY <1>1, <1>6, <3>1
    <2>3. LinkOK(link)
      BY DEF StartInv
    <2>4. /\ LinkOK(link') /\ link'.pong = link.pong /\ link'.session = link.session
          /\ link'.out = Nothing /\ link'.intact = b
      <3>1. PICK m : m = link'
        OBVIOUS
      <3>2. m = [link EXCEPT !.out = Nothing, !.intact = b] /\ Nothing \in OutPacket
        BY <2>2, <3>1, NothingIsOut
      <3>3. /\ LinkOK(m) /\ m.out = Nothing /\ m.intact = b
            /\ m.pong = link.pong /\ m.session = link.session
        BY <2>3, <3>2 DEF LinkOK
      <3>4. QED
        BY <3>1, <3>3
    <2>5. QED
      BY <1>2, <1>5, <2>1, <2>2, <2>4, DeviceMoves
  <1>7. CASE link.out.kind = "PING"
    <2>1. PICK n \in 0 .. 2 : n = link.out.seq
      BY DEF StartInv, LinkOK, OutPacket
    <2>2. link' = [out |-> Nothing, pong |-> n, session |-> n, intact |-> TRUE]
      BY <1>1, <1>7, <2>1
    <2>3. link'.out = Nothing /\ link'.pong = n /\ link'.session = n /\ LinkOK(link')
      BY <2>2, NothingIsOut DEF LinkOK
    <2>4. cli.pc # "up"
      BY <1>2 DEF StartInv, Ordered
    <2>5. cli.pc = "wait" => n = cli.attempt /\ cli.gotPong = FALSE
      <3>1. CASE cli.pc = "wait"
        <4>1. n = cli.attempt /\ link.session < cli.attempt /\ (cli.gotPong = TRUE => link.session = cli.attempt)
          BY <1>2, <2>1, <3>1 DEF StartInv, Ordered
        <4>2. cli.attempt \in Int /\ link.session \in Int /\ cli.gotPong \in BOOLEAN
          BY DEF StartInv, CliOK, LinkOK
        <4>3. link.session # cli.attempt
          BY <4>1, <4>2
        <4>4. cli.gotPong # TRUE
          BY <4>1, <4>3, Zenon
        <4>5. QED
          BY <4>1, <4>2, <4>4
      <3>2. QED
        BY <3>1
    <2>6. cli.pc \in {"flush", "config", "ping"} => n < cli.attempt /\ cli.gotPong = FALSE
      BY <1>7, <2>1 DEF StartInv, Ordered
    <2>7. Ordered(cli, link')
      <3>1. PICK l : l = link'
        OBVIOUS
      <3>2. l.out = Nothing /\ l.session = n /\ Nothing.kind = "none"
        BY <2>3, <3>1 DEF Nothing
      <3>3. /\ cli.pc = "before" => cli.attempt = 1 /\ cli.gotPong = FALSE
            /\ cli.pc \in {"before", "flush"} => cli.flushed < MaxFlush
        BY DEF StartInv, Ordered
      <3>4. cli.attempt \in {1, 2}
        BY DEF StartInv, CliOK
      <3>5. Ordered(cli, l)
        BY <2>4, <2>5, <2>6, <3>2, <3>3, <3>4 DEF Ordered
      <3>6. QED
        BY <3>1, <3>5
    <2>8. Ponged(cli, link', usb')
      BY <2>3, <2>4, <2>5 DEF Ponged
    <2>9. NothingSkipped'
      BY <1>2, <2>4 DEF NothingSkipped
    <2>10. CliOK(cli)
      BY DEF StartInv
    <2>11. QED
      BY <1>2, <1>5, <2>3, <2>7, <2>8, <2>9, <2>10 DEF StartInv
  <1>8. QED
    BY <1>3, <1>6, <1>7

(* An OUT transfer that fails: the packet is gone. *)
LEMMA OutFailsStarts ==
  ASSUME Strict, StartInv, FirmwareOutFails
  PROVE  StartInv'
  <1>1. HostWrites
    BY DEF FirmwareOutFails, HostWrites
  <1>2. DeviceInv'
    BY <1>1, DeviceNext DEF StartInv, Next, BusNext
  <1>3. UsbOK(usb) /\ LinkOK(link)
    BY DEF StartInv, DeviceInv, UsbInv
  <1>4. /\ usb' = OutComplete(usb, "error", TRUE, TRUE, TRUE) /\ cli' = cli
        /\ link' = [link EXCEPT !.out = Nothing]
    BY DEF FirmwareOutFails
  <1>5. Silent(usb, usb') /\ Streamed(usb, usb')
    BY <1>3, <1>4, ConfigIsQuiet
  <1>6. LinkOK(link')
    BY <1>3, <1>4, NothingIsOut DEF LinkOK
  <1>7. /\ link'.pong = link.pong /\ link'.session = link.session /\ link'.out = Nothing
        /\ link'.intact = link.intact
    BY <1>3, <1>4 DEF LinkOK
  <1>8. usb'.log = usb.log /\ usb.log \in Seq(Byte)
    BY <1>3, <1>4 DEF OutComplete, UsbOK, FlagsOK, RingOK, UsbFields
  <1>9. link'.intact => StaysIntact
    BY <1>7, <1>8 DEF StaysIntact
  <1>10. QED
    BY <1>2, <1>4, <1>5, <1>6, <1>7, <1>9, DeviceMoves

(* A bulk-OUT transfer puts the packet on its way and does no more. *)
LEMMA SendsIs ==
  ASSUME StartInv, NEW kind \in {"PING", "CFG1"}, Sends(kind), events' \in 0 .. MaxEvents
  PROVE  /\ DeviceInv' /\ usb' = usb /\ LinkOK(link')
         /\ link'.out.kind = kind /\ link'.out.seq = cli.attempt /\ link'.out # Nothing
         /\ link'.pong = link.pong /\ link'.session = link.session /\ link'.intact = link.intact
  <1>1. DeviceInv' /\ usb' = usb
    BY SameDevice DEF Sends, StartInv
  <1>2. PICK n \in {1, 2} : n = cli.attempt
    BY DEF StartInv, CliOK
  <1>3. PICK o : o = [kind |-> kind, seq |-> n]
    OBVIOUS
  <1>4. o \in OutPacket /\ o.kind = kind /\ o.seq = n /\ o # Nothing
    BY <1>3 DEF OutPacket, Nothing
  <1>5. link' = [link EXCEPT !.out = o] /\ LinkOK(link)
    BY <1>2, <1>3 DEF Sends, StartInv
  <1>6. /\ LinkOK(link') /\ link'.out = o
        /\ link'.pong = link.pong /\ link'.session = link.session /\ link'.intact = link.intact
    BY <1>4, <1>5 DEF LinkOK
  <1>7. QED
    BY <1>1, <1>2, <1>4, <1>6

(* The process before this one sends its PING. *)
LEMMA EarlierStarts ==
  ASSUME StartInv, EarlierClient
  PROVE  StartInv'
  <1>1. cli.pc = "before" /\ Sends("PING") /\ Event /\ cli' = cli
    BY DEF EarlierClient
  <1>2. events' \in 0 .. MaxEvents
    BY <1>1, EventsOK DEF StartInv, DeviceInv
  <1>3. /\ DeviceInv' /\ usb' = usb /\ LinkOK(link') /\ link'.out.kind = "PING"
        /\ link'.pong = link.pong /\ link'.session = link.session
    BY <1>1, <1>2, SendsIs
  <1>4. Ordered(cli, link')
    BY <1>1, <1>3 DEF StartInv, Ordered
  <1>5. Ponged(cli, link', usb')
    BY <1>1 DEF Ponged
  <1>6. NothingSkipped' /\ CliOK(cli)
    BY <1>1 DEF NothingSkipped, StartInv
  <1>7. QED
    BY <1>1, <1>3, <1>4, <1>5, <1>6 DEF StartInv

(* The device answers the selection of its setting: the firmware forgets   *)
(* the session and nothing is queued.                                      *)
LEMMA OpensStarts ==
  ASSUME Strict, StartInv, Opens
  PROVE  StartInv'
  <1>1. /\ Callback /\ cli.pc = "before" /\ usb' = FunctionSetAlt(usb, "done", TRUE)
        /\ link' = [link EXCEPT !.out = Nothing, !.session = 0, !.intact = FALSE]
        /\ cli' = [cli EXCEPT !.pc = "flush"] /\ events' = events
    BY DEF Opens
  <1>2. UsbOK(usb) /\ UsbInv /\ CliOK(cli) /\ LinkOK(link) /\ "done" \in SetAltResult
    BY DEF StartInv, DeviceInv, UsbInv, SetAltResult
  <1>3. Owned(usb) /\ OutOK(usb)
    BY <1>1 DEF Strict, Callback, BetweenCalls, StartInv, DeviceInv, TransferInv
  <1>4. UsbOK(usb') /\ (Keeps(usb, usb') \/ Forgotten(usb')) /\ Owned(usb') /\ OutOK(usb')
    BY <1>1, <1>2, <1>3, FunctionSetAltOK, FunctionSetAltIs DEF Strict
  <1>5. DeviceInv'
    <2>1. events' \in 0 .. MaxEvents
      BY <1>1, <1>2 DEF UsbInv, TaskOK
    <2>2. QED
      BY <1>1, <1>4, <2>1, CallbackKeeps DEF StartInv
  <1>6. usb'.inReq # PongPacket
    <2>1. usb'.inBusy = FALSE
      BY <1>1, <1>2, FunctionSetAltIsSilent
    <2>2. usb'.inReq = <<>>
      BY <1>4, <2>1 DEF Owned
    <2>3. QED
      BY <2>2 DEF PongPacket
  <1>7. LinkOK(link') /\ link'.out = Nothing /\ link'.session = 0 /\ Nothing.kind = "none"
    <2>1. PICK m : m = link'
      OBVIOUS
    <2>2. m = [link EXCEPT !.out = Nothing, !.session = 0, !.intact = FALSE]
      BY <1>1, <2>1
    <2>3. m = [out |-> Nothing, pong |-> link.pong, session |-> 0, intact |-> FALSE]
      BY <1>2, <2>2 DEF LinkOK
    <2>4. LinkOK(m) /\ m.out = Nothing /\ m.session = 0
      <3>1. link.pong \in 0 .. 2
        BY <1>2 DEF LinkOK
      <3>2. QED
        BY <2>3, <3>1, NothingIsOut DEF LinkOK
    <2>5. QED
      BY <2>1, <2>4, NothingIsOut
  <1>8. /\ CliOK(cli') /\ cli'.pc = "flush" /\ cli'.attempt = cli.attempt
        /\ cli'.gotPong = cli.gotPong /\ cli'.flushed = cli.flushed
    BY <1>1, <1>2 DEF CliOK
  <1>9. cli.attempt = 1 /\ cli.gotPong = FALSE /\ cli.flushed < MaxFlush
    BY <1>1 DEF StartInv, Ordered
  <1>10. Ordered(cli', link')
    BY <1>7, <1>8, <1>9 DEF Ordered
  <1>11. Ponged(cli', link', usb') /\ NothingSkipped'
    BY <1>6, <1>8 DEF Ponged, NothingSkipped
  <1>12. QED
    BY <1>5, <1>7, <1>8, <1>10, <1>11 DEF StartInv

(* The client reads and stays short of the stream. *)
LEMMA ReadsStart ==
  ASSUME Strict, StartInv, Receives, CliOK(cli'), Ordered(cli', link), cli.pc # "before",
         cli'.pc # "up"
  PROVE  StartInv'
  <1>1. DeviceInv' /\ usb'.inReq # PongPacket
    BY ReceivesIs DEF StartInv
  <1>2. LinkOK(link)
    BY DEF StartInv
  <1>3. PICK b \in BOOLEAN : b = StaysIntact
    BY <1>2 DEF StaysIntact, LinkOK
  <1>4. link' = [link EXCEPT !.intact = b]
    BY <1>3 DEF Receives
  <1>5. LinkOK(link') /\ link'.out = link.out /\ link'.session = link.session
    BY <1>2, <1>4 DEF LinkOK
  <1>6. Ordered(cli', link')
    BY <1>5 DEF Ordered
  <1>7. Ponged(cli', link', usb') /\ NothingSkipped'
    BY <1>1 DEF Ponged, NothingSkipped
  <1>8. QED
    BY <1>1, <1>5, <1>6, <1>7 DEF StartInv

(* The flush loop throws a transfer away. *)
LEMMA FlushesStarts ==
  ASSUME Strict, StartInv, Flushes
  PROVE  StartInv'
  <1>1. PICK n \in Int : n = cli.flushed + 1 /\ cli.pc = "flush" /\ Receives
    BY DEF Flushes, StartInv, CliOK
  <1>2. PICK p : p = IF n >= MaxFlush THEN "config" ELSE "flush"
    OBVIOUS
  <1>3. cli' = [cli EXCEPT !.flushed = n, !.pc = p]
    BY <1>1, <1>2 DEF Flushes
  <1>4. CliOK(cli) /\ cli.flushed < MaxFlush /\ MaxFlush \in Nat /\ cli.flushed \in 0 .. MaxFlush
    BY <1>1, StartupAssumption DEF StartInv, Ordered, CliOK
  <1>5. n \in 0 .. MaxFlush /\ (p = "config" \/ (p = "flush" /\ n < MaxFlush))
    BY <1>1, <1>4, <1>2
  <1>6. /\ CliOK(cli') /\ cli'.pc = p /\ cli'.flushed = n
        /\ cli'.attempt = cli.attempt /\ cli'.gotPong = cli.gotPong
    BY <1>3, <1>4, <1>5 DEF CliOK
  <1>7. Ordered(cli', link)
    BY <1>1, <1>5, <1>6 DEF StartInv, Ordered
  <1>8. QED
    BY <1>1, <1>5, <1>6, <1>7, ReadsStart

(* Only the client moves, and stays short of the stream. *)
LEMMA ClientStarts ==
  ASSUME StartInv, usb' = usb, link' = link, task' = task, media' = media,
         events' \in 0 .. MaxEvents,
         CliOK(cli'), Ordered(cli', link), cli.pc # "before", cli'.pc # "up",
         cli'.pc = "wait" => cli'.gotPong = FALSE
  PROVE  StartInv'
  <1>1. DeviceInv'
    BY SameDevice DEF StartInv
  <1>2. Ponged(cli', link', usb')
    BY DEF StartInv, Ponged
  <1>3. NothingSkipped'
    BY DEF NothingSkipped
  <1>4. QED
    BY <1>1, <1>2, <1>3 DEF StartInv

(* The flush loop ends. *)
LEMMA FlushEndsStarts ==
  ASSUME StartInv, FlushEnds
  PROVE  StartInv'
  <1>1. /\ cli.pc = "flush" /\ cli' = [cli EXCEPT !.pc = "config"]
        /\ usb' = usb /\ link' = link /\ task' = task /\ media' = media /\ events' = events
    BY DEF FlushEnds, ClientOnly
  <1>2. CliOK(cli)
    BY DEF StartInv
  <1>3. /\ CliOK(cli') /\ cli'.pc = "config"
        /\ cli'.attempt = cli.attempt /\ cli'.gotPong = cli.gotPong
    BY <1>1, <1>2 DEF CliOK
  <1>4. Ordered(cli', link)
    BY <1>1, <1>3 DEF StartInv, Ordered
  <1>5. events' \in 0 .. MaxEvents
    BY <1>1 DEF StartInv, DeviceInv, UsbInv, TaskOK
  <1>6. QED
    BY <1>1, <1>3, <1>4, <1>5, ClientStarts

(* send_usb_upstream_config, if there is a configuration to send. *)
LEMMA SendsConfigStarts ==
  ASSUME StartInv, SendsConfig
  PROVE  StartInv'
  <1>1. cli.pc = "config" /\ cli' = [cli EXCEPT !.pc = "ping"] /\ CliOK(cli)
    BY DEF SendsConfig, StartInv
  <1>2. /\ CliOK(cli') /\ cli'.pc = "ping"
        /\ cli'.attempt = cli.attempt /\ cli'.gotPong = cli.gotPong
    BY <1>1 DEF CliOK
  <1>3. events' = events
    BY DEF SendsConfig, ClientOnly
  <1>4. events' \in 0 .. MaxEvents
    BY <1>3 DEF StartInv, DeviceInv, UsbInv, TaskOK
  <1>5. CASE ClientOnly
    <2>1. Ordered(cli', link)
      BY <1>1, <1>2 DEF StartInv, Ordered
    <2>2. QED
      BY <1>1, <1>2, <1>4, <1>5, <2>1, ClientStarts DEF ClientOnly
  <1>6. CASE Sends("CFG1")
    <2>1. /\ DeviceInv' /\ usb' = usb /\ LinkOK(link') /\ link'.out.kind = "CFG1"
          /\ link'.pong = link.pong /\ link'.session = link.session
      BY <1>4, <1>6, SendsIs
    <2>2. Ordered(cli', link')
      BY <1>1, <1>2, <2>1 DEF StartInv, Ordered
    <2>3. Ponged(cli', link', usb') /\ NothingSkipped'
      BY <1>1, <1>2, <2>1 DEF StartInv, Ponged, NothingSkipped
    <2>4. QED
      BY <1>2, <2>1, <2>2, <2>3 DEF StartInv
  <1>7. QED
    BY <1>5, <1>6 DEF SendsConfig

(* The PING: no younger one is on its way, and none of its number was handled. *)
LEMMA SendsPingStarts ==
  ASSUME StartInv, SendsPing
  PROVE  StartInv'
  <1>1. /\ cli.pc = "ping" /\ cli' = [cli EXCEPT !.pc = "wait"] /\ CliOK(cli)
        /\ Sends("PING") /\ events' = events
    BY DEF SendsPing, StartInv
  <1>2. /\ CliOK(cli') /\ cli'.pc = "wait"
        /\ cli'.attempt = cli.attempt /\ cli'.gotPong = cli.gotPong
    BY <1>1 DEF CliOK
  <1>3. events' \in 0 .. MaxEvents
    BY <1>1 DEF StartInv, DeviceInv, UsbInv, TaskOK
  <1>4. /\ DeviceInv' /\ usb' = usb /\ LinkOK(link') /\ link'.out.kind = "PING"
        /\ link'.out.seq = cli.attempt /\ link'.pong = link.pong /\ link'.session = link.session
    BY <1>1, <1>3, SendsIs
  <1>5. link.session < cli.attempt /\ cli.gotPong = FALSE
    BY <1>1 DEF StartInv, Ordered
  <1>6. link.session <= cli.attempt
    <2>1. link.session \in Int /\ cli.attempt \in Int
      BY DEF StartInv, LinkOK, CliOK
    <2>2. QED
      BY <1>5, <2>1
  <1>7. Ordered(cli', link')
    BY <1>2, <1>4, <1>5, <1>6 DEF Ordered
  <1>8. Ponged(cli', link', usb') /\ NothingSkipped'
    BY <1>1, <1>2, <1>4, <1>5 DEF StartInv, Ponged, NothingSkipped
  <1>9. QED
    BY <1>2, <1>4, <1>7, <1>8 DEF StartInv

(* A second attempt begins only after the first one, with a higher number. *)
LEMMA FailedStarts ==
  ASSUME StartInv, cli.pc \in {"config", "ping", "wait"}, cli' = Failed,
         usb' = usb, link' = link, task' = task, media' = media, events' \in 0 .. MaxEvents
  PROVE  StartInv'
  <1>1. CliOK(cli) /\ LinkOK(link) /\ Nothing.kind = "none"
    BY NothingIsOut DEF StartInv
  <1>2. CASE cli.attempt = 1
    <2>1. cli' = [cli EXCEPT !.pc = "flush", !.attempt = 2, !.flushed = 0, !.gotPong = FALSE]
      BY <1>2 DEF Failed
    <2>2. 0 \in 0 .. MaxFlush /\ 0 < MaxFlush
      BY StartupAssumption
    <2>3. /\ CliOK(cli') /\ cli'.pc = "flush" /\ cli'.attempt = 2 /\ cli'.flushed = 0
          /\ cli'.gotPong = FALSE
      BY <1>1, <2>1, <2>2 DEF CliOK
    <2>4. link.session < 2 /\ (link.out.kind = "PING" => link.out.seq < 2)
      <3>1. link.session \in Int /\ link.out.seq \in Int
        BY <1>1 DEF LinkOK, OutPacket
      <3>2. CASE cli.pc = "wait"
        <4>1. link.session <= 1 /\ (link.out # Nothing => link.out.seq = 1)
          BY <1>2, <3>2 DEF StartInv, Ordered
        <4>2. link.out.kind = "PING" => link.out # Nothing
          BY <1>1
        <4>3. QED
          BY <3>1, <4>1, <4>2
      <3>3. CASE cli.pc \in {"config", "ping"}
        <4>1. link.session < 1 /\ (link.out.kind = "PING" => link.out.seq < 1)
          BY <1>2, <3>3 DEF StartInv, Ordered
        <4>2. QED
          BY <3>1, <4>1
      <3>4. QED
        BY <3>2, <3>3
    <2>5. Ordered(cli', link)
      BY <2>2, <2>3, <2>4 DEF StartInv, Ordered
    <2>6. QED
      BY <2>3, <2>5, ClientStarts
  <1>3. CASE cli.attempt # 1
    <2>1. cli' = [cli EXCEPT !.pc = "failed"]
      BY <1>3 DEF Failed
    <2>2. CliOK(cli') /\ cli'.pc = "failed"
      BY <1>1, <2>1 DEF CliOK
    <2>3. Ordered(cli', link)
      BY <2>2 DEF StartInv, Ordered
    <2>4. QED
      BY <2>2, <2>3, ClientStarts
  <1>4. QED
    BY <1>2, <1>3

(* The 4 s are over. *)
LEMMA WaitEndsStarts ==
  ASSUME StartInv, WaitEnds
  PROVE  StartInv'
  <1>1. events' = events
    BY DEF WaitEnds, ClientOnly
  <1>2. events' \in 0 .. MaxEvents
    BY <1>1 DEF StartInv, DeviceInv, UsbInv, TaskOK
  <1>3. QED
    BY <1>2, FailedStarts DEF WaitEnds, ClientOnly

(* An attempt fails earlier. *)
LEMMA AttemptFailsStarts ==
  ASSUME StartInv, AttemptFails
  PROVE  StartInv'
  <1>1. events' \in 0 .. MaxEvents
    BY EventsOK DEF AttemptFails, StartInv, DeviceInv
  <1>2. QED
    BY <1>1, FailedStarts DEF AttemptFails

(* What was read is a part of the log. *)
LEMMA ReadIsLogged ==
  ASSUME NEW u, UsbOK(u)
  PROVE  u.log \in Seq(Byte) /\ u.consumed \in Nat /\ u.consumed <= Len(u.log)
  <1>1. u.log \in Seq(Byte) /\ u.consumed \in Nat
    BY DEF UsbOK, RingOK
  <1>2. u.tx.count \in Nat
    BY RingParts DEF UsbOK, RingOK
  <1>3. Len(u.log) = u.consumed + u.tx.count
    BY Zenon DEF UsbOK, RingOK
  <1>4. QED
    BY <1>1, <1>2, <1>3

(* A transfer of data extends what was read of the log. *)
LEMMA PieceReceived ==
  ASSUME Strict, DeviceInv, Receives, usb.buf # PongPacket
  PROVE  /\ usb.log \in Seq(Byte) /\ usb.consumed \in Nat /\ usb'.consumed \in Nat
         /\ usb'.log = usb.log /\ usb'.consumed <= Len(usb.log) /\ usb.consumed < usb'.consumed
         /\ usb.buf \in Seq(Byte) /\ Len(usb.buf) = usb'.consumed - usb.consumed
         /\ usb.buf[1] = usb.log[usb.consumed + 1]
         /\ SubSeq(usb.log, 1, usb.consumed) \o usb.buf = SubSeq(usb.log, 1, usb'.consumed)
  <1>1. /\ DeviceInv' /\ usb'.log = usb.log /\ usb.buf \in Seq(Byte) /\ usb.buf # <<>>
        /\ SubSeq(usb.log, usb.consumed + 1, usb'.consumed) = usb.buf
    BY ReceivesIs
  <1>2. usb.log \in Seq(Byte) /\ usb.consumed \in Nat /\ usb.consumed <= Len(usb.log)
    BY ReadIsLogged DEF DeviceInv, UsbInv
  <1>3. usb'.consumed \in Nat /\ usb'.consumed <= Len(usb.log)
    <2>1. usb'.consumed \in Nat /\ usb'.consumed <= Len(usb'.log)
      BY <1>1, ReadIsLogged DEF DeviceInv, UsbInv
    <2>2. QED
      BY <1>1, <2>1
  <1>4. PICK l \in Seq(Byte) : l = usb.log
    BY <1>2
  <1>5. PICK b \in Seq(Byte) : b = usb.buf
    BY <1>1
  <1>6. PICK c \in Nat : c = usb.consumed
    BY <1>2
  <1>7. PICK d \in Nat : d = usb'.consumed
    BY <1>3
  <1>8. c <= Len(l) /\ d <= Len(l) /\ b # <<>> /\ SubSeq(l, c + 1, d) = b
    BY <1>1, <1>2, <1>3, <1>4, <1>5, <1>6, <1>7
  <1>9. /\ Len(b) = d - c /\ c < d /\ b[1] = l[c + 1]
        /\ SubSeq(l, 1, c) \o b = SubSeq(l, 1, d)
    BY <1>8, PieceBehind
  <1>10. QED
    BY <1>1, <1>2, <1>3, <1>4, <1>5, <1>6, <1>7, <1>9

(* The transfer that the client takes for the init packet: nothing of the  *)
(* session was read before it.                                             *)
LEMMA InitIsRead ==
  ASSUME Strict, StartInv, Receives, cli.pc = "wait", cli.gotPong = TRUE, IsInit(usb.buf)
  PROVE  /\ usb.buf \in Seq(Byte) /\ usb.buf # <<>> /\ link.out = Nothing
         /\ link.session = cli.attempt
         /\ Len(usb.buf) = usb'.consumed /\ usb.buf = SubSeq(usb'.log, 1, usb'.consumed)
  <1>1. DeviceInv /\ usb.buf = usb.inReq /\ usb.buf \in Seq(Byte) /\ usb.buf # <<>>
    BY ReceivesIs DEF StartInv
  <1>2. usb.buf # PongPacket
    BY <1>1 DEF StartInv, Ponged
  <1>3. PICK l \in Seq(Byte) : l = usb.log /\ l = usb'.log
    BY <1>1, <1>2, PieceReceived
  <1>4. PICK c \in Nat : c = usb.consumed
    BY <1>1, <1>2, PieceReceived
  <1>5. PICK d \in Nat : d = usb'.consumed
    BY <1>1, <1>2, PieceReceived
  <1>6. PICK b \in Seq(Byte) : b = usb.buf
    BY <1>1
  <1>7. /\ d <= Len(l) /\ c < d /\ Len(b) = d - c /\ b[1] = l[c + 1]
        /\ SubSeq(l, 1, c) \o b = SubSeq(l, 1, d)
    BY <1>1, <1>2, <1>3, <1>4, <1>5, <1>6, PieceReceived
  <1>8. c = 0
    <2>1. InitFirst(l) /\ b[1] = InitPacket[1]
      BY <1>1, <1>3, <1>6 DEF DeviceInv, SessionInv, IsInit
    <2>2. c + 1 \in DOMAIN l
      BY <1>7
    <2>3. c + 1 = 1
      BY <1>7, <2>1, <2>2, Zenon DEF InitFirst
    <2>4. QED
      BY <2>3
  <1>9. b = SubSeq(l, 1, d) /\ Len(b) = d
    <2>1. SubSeq(l, 1, 0) = <<>>
      OBVIOUS
    <2>2. <<>> \o b = b
      OBVIOUS
    <2>3. QED
      BY <1>7, <1>8, <2>1, <2>2
  <1>10. link.session = cli.attempt /\ link.out = Nothing
    <2>1. /\ link.session = cli.attempt
          /\ link.out # Nothing => link.session < cli.attempt
      BY DEF StartInv, Ordered
    <2>2. link.session \in Int /\ cli.attempt \in Int
      BY DEF StartInv, LinkOK, CliOK
    <2>3. ~(link.session < cli.attempt)
      BY <2>1, <2>2
    <2>4. QED
      BY <2>1, <2>3
  <1>11. QED
    BY <1>1, <1>3, <1>5, <1>6, <1>9, <1>10

(* One transfer of the waiting loop. *)
LEMMA WaitsStarts ==
  ASSUME Strict, StartInv, Waits
  PROVE  StartInv' /\ (cli'.pc = "up" => link.session = cli.attempt)
  <1>1. cli.pc = "wait" /\ Receives /\ cli' = Takes(usb.buf) /\ CliOK(cli) /\ DeviceInv
    BY DEF Waits, StartInv
  <1>2. /\ DeviceInv' /\ usb'.inReq # PongPacket /\ usb.buf = usb.inReq /\ usb.buf \in Seq(Byte)
        /\ (IsPong(usb.buf) => usb.buf = PongPacket)
    BY <1>1, ReceivesIs
  <1>3. CASE cli.gotPong /\ IsInit(usb.buf)
    <2>1. cli' = [cli EXCEPT !.pc = "up", !.got = usb.buf]
      <3>1. ~IsPong(usb.buf)
        BY <1>3 DEF IsInit, IsPong, InitPacket, PongPacket
      <3>2. QED
        BY <1>1, <1>3, <3>1 DEF Takes
    <2>2. cli.gotPong = TRUE
      BY <1>3
    <2>3. /\ CliOK(cli') /\ cli'.pc = "up" /\ cli'.got = usb.buf /\ cli'.gotPong = TRUE
          /\ cli'.attempt = cli.attempt
      BY <1>1, <1>2, <2>1, <2>2 DEF CliOK
    <2>4. /\ usb.buf # <<>> /\ link.out = Nothing /\ link.session = cli.attempt
          /\ Len(usb.buf) = usb'.consumed /\ usb.buf = SubSeq(usb'.log, 1, usb'.consumed)
      BY <1>1, <1>3, <2>2, InitIsRead
    <2>5. PICK b \in BOOLEAN : b = StaysIntact
      BY DEF StaysIntact, StartInv, LinkOK
    <2>6. LinkOK(link') /\ link'.out = Nothing
      <3>1. PICK m : m = link'
        OBVIOUS
      <3>2. m = [link EXCEPT !.intact = b] /\ LinkOK(link)
        BY <1>1, <2>5, <3>1 DEF Receives, StartInv
      <3>3. LinkOK(m) /\ m.out = Nothing
        BY <2>4, <3>2 DEF LinkOK
      <3>4. QED
        BY <3>1, <3>3
    <2>7. Ordered(cli', link')
      BY <2>3, <2>4, <2>6 DEF Ordered
    <2>8. Ponged(cli', link', usb')
      BY <1>2 DEF Ponged
    <2>9. NothingSkipped'
      BY <2>3, <2>4 DEF NothingSkipped
    <2>10. QED
      BY <1>2, <2>3, <2>4, <2>6, <2>7, <2>8, <2>9 DEF StartInv
  <1>4. CASE ~(cli.gotPong /\ IsInit(usb.buf)) /\ IsPong(usb.buf) /\ link.pong = cli.attempt
    <2>1. cli' = [cli EXCEPT !.gotPong = TRUE]
      BY <1>1, <1>4 DEF Takes
    <2>2. CliOK(cli') /\ cli'.pc = "wait" /\ cli'.attempt = cli.attempt /\ cli'.gotPong = TRUE
      BY <1>1, <2>1 DEF CliOK
    <2>3. usb.inReq = PongPacket
      BY <1>2, <1>4
    <2>4. link.pong = link.session
      BY <1>1, <2>3 DEF StartInv, Ponged
    <2>5. link.session = cli.attempt
      BY <1>4, <2>4
    <2>6. Ordered(cli', link)
      BY <1>1, <2>2, <2>5 DEF StartInv, Ordered
    <2>7. QED
      BY <1>1, <2>2, <2>6, ReadsStart
  <1>5. CASE ~(cli.gotPong /\ IsInit(usb.buf)) /\ ~(IsPong(usb.buf) /\ link.pong = cli.attempt)
    <2>1. cli' = cli
      BY <1>1, <1>5 DEF Takes
    <2>2. Ordered(cli', link) /\ CliOK(cli')
      BY <2>1 DEF StartInv
    <2>3. QED
      BY <1>1, <2>1, <2>2, ReadsStart
  <1>6. QED
    BY <1>3, <1>4, <1>5

(* The reader goes on behind what the client has. *)
LEMMA StreamsStarts ==
  ASSUME Strict, StartInv, Streams
  PROVE  StartInv'
  <1>1. /\ cli.pc = "up" /\ Receives /\ cli' = [cli EXCEPT !.got = cli.got \o usb.buf]
        /\ CliOK(cli) /\ DeviceInv /\ LinkOK(link)
    BY DEF Streams, StartInv
  <1>2. cli.got \in Seq(Byte) /\ cli.got # <<>> /\ cli.gotPong = TRUE /\ link.out = Nothing
    BY <1>1 DEF StartInv, Ordered, CliOK
  <1>3. DeviceInv' /\ usb'.inReq # PongPacket /\ usb.buf = usb.inReq /\ usb.buf \in Seq(Byte)
    BY <1>1, ReceivesIs
  <1>4. usb.buf # PongPacket
    BY <1>1, <1>2, <1>3 DEF StartInv, Ponged
  <1>5. PICK g \in Seq(Byte) : g = cli.got \o usb.buf /\ g # <<>> /\ Len(g) = Len(cli.got) + Len(usb.buf)
    <2>1. PICK x \in Seq(Byte) : x = cli.got /\ x # <<>>
      BY <1>2
    <2>2. PICK y \in Seq(Byte) : y = usb.buf
      BY <1>3
    <2>3. x \o y \in Seq(Byte) /\ Len(x \o y) = Len(x) + Len(y)
      BY ConcatParts
    <2>4. Len(x) > 0 /\ Len(y) >= 0 /\ Len(x) \in Int /\ Len(y) \in Int
      BY <2>1
    <2>5. x \o y # <<>>
      BY <2>3, <2>4
    <2>6. QED
      BY <2>1, <2>2, <2>3, <2>5
  <1>6. CliOK(cli') /\ cli'.pc = "up" /\ cli'.got = g /\ cli'.gotPong = TRUE
    BY <1>1, <1>2, <1>5 DEF CliOK
  <1>7. PICK b \in BOOLEAN : b = StaysIntact
    BY <1>1 DEF StaysIntact, LinkOK
  <1>8. LinkOK(link') /\ link'.out = Nothing /\ link'.intact = b
    <2>1. PICK m : m = link'
      OBVIOUS
    <2>2. m = [link EXCEPT !.intact = b]
      BY <1>1, <1>7, <2>1 DEF Receives
    <2>3. LinkOK(m) /\ m.out = Nothing /\ m.intact = b
      BY <1>1, <1>2, <2>2 DEF LinkOK
    <2>4. QED
      BY <2>1, <2>3
  <1>9. Ordered(cli', link')
    BY <1>5, <1>6, <1>8 DEF Ordered
  <1>10. Ponged(cli', link', usb')
    BY <1>3 DEF Ponged
  <1>11. NothingSkipped'
    <2>1. SUFFICES ASSUME b = TRUE
                   PROVE  Len(g) = usb'.consumed /\ g = SubSeq(usb'.log, 1, usb'.consumed)
      BY <1>6, <1>8 DEF NothingSkipped
    <2>2. Len(cli.got) = usb.consumed /\ cli.got = SubSeq(usb.log, 1, usb.consumed)
      BY <1>1, <1>7, <2>1 DEF StaysIntact, StartInv, NothingSkipped
    <2>3. /\ usb.consumed \in Nat /\ usb'.consumed \in Nat /\ usb'.log = usb.log
          /\ Len(usb.buf) = usb'.consumed - usb.consumed
          /\ SubSeq(usb.log, 1, usb.consumed) \o usb.buf = SubSeq(usb.log, 1, usb'.consumed)
      BY <1>1, <1>4, PieceReceived
    <2>4. Len(g) = usb'.consumed
      BY <1>5, <2>2, <2>3
    <2>5. g = SubSeq(usb'.log, 1, usb'.consumed)
      BY <1>5, <2>2, <2>3, Zenon
    <2>6. QED
      BY <2>4, <2>5
  <1>12. QED
    BY <1>3, <1>6, <1>8, <1>9, <1>10, <1>11 DEF StartInv

(* Before the first transfer. *)
LEMMA StartBegins ==
  ASSUME StartupInit
  PROVE  StartInv
  <1>1. Init
    BY DEF StartupInit
  <1>2. DeviceInv
    <2>1. UsbInv
      BY <1>1, InvInit
    <2>2. SessionInv
      BY <1>1 DEF Init, UsbInit, SessionInv, InitFirst, Session
    <2>3. TransferInv
      BY <1>1 DEF Init, UsbInit, TransferInv, Clean, OutOK, Owned, Held
    <2>4. QED
      BY <2>1, <2>2, <2>3 DEF DeviceInv
  <1>3. PICK c : c = cli /\ c = [pc |-> "before", attempt |-> 1, flushed |-> 0, gotPong |-> FALSE, got |-> <<>>]
    BY DEF StartupInit
  <1>4. PICK l : l = link /\ l = [out |-> Nothing, pong |-> 0, session |-> 0, intact |-> FALSE]
    BY DEF StartupInit
  <1>5. <<>> \in Seq(Byte) /\ 0 \in 0 .. MaxFlush /\ 0 < MaxFlush
    BY StartupAssumption
  <1>6. CliOK(c)
    BY <1>3, <1>5 DEF CliOK
  <1>7. LinkOK(l)
    BY <1>4, NothingIsOut DEF LinkOK
  <1>8. Ordered(c, l)
    BY <1>3, <1>4, <1>5, NothingIsOut DEF Ordered
  <1>9. Ponged(c, l, usb)
    BY <1>3 DEF Ponged
  <1>10. NothingSkipped
    BY <1>3 DEF NothingSkipped
  <1>11. QED
    BY <1>2, <1>3, <1>4, <1>6, <1>7, <1>8, <1>9, <1>10 DEF StartInv

(* Every step of the two programs, and where a stream begins. *)
LEMMA StartNext ==
  ASSUME Strict, StartInv, [StartupNext]_startupVars
  PROVE  StartInv' /\ (cli.pc # "up" /\ cli'.pc = "up" => link.session = cli.attempt)
  <1>1. CASE UNCHANGED startupVars
    <2>1. /\ usb' = usb /\ task' = task /\ media' = media /\ events' = events
          /\ cli' = cli /\ link' = link
      BY <1>1 DEF startupVars
    <2>2. DeviceInv'
      <3>1. events' \in 0 .. MaxEvents
        BY <2>1 DEF StartInv, DeviceInv, UsbInv, TaskOK
      <3>2. QED
        BY <2>1, <3>1, SameDevice DEF StartInv
    <2>3. NothingSkipped'
      BY <2>1 DEF StartInv, NothingSkipped
    <2>4. QED
      BY <2>1, <2>2, <2>3 DEF StartInv
  <1>2. CASE Firmware
    BY <1>2, FirmwareStarts DEF Firmware
  <1>3. CASE FirmwareOut
    BY <1>3, OutStarts DEF FirmwareOut
  <1>4. CASE FirmwareOutFails
    BY <1>4, OutFailsStarts DEF FirmwareOutFails
  <1>5. CASE EarlierClient
    BY <1>5, EarlierStarts DEF EarlierClient
  <1>6. CASE Opens
    <2>1. cli' = [cli EXCEPT !.pc = "flush"] /\ CliOK(cli)
      BY <1>6 DEF Opens, StartInv
    <2>2. cli'.pc # "up"
      BY <2>1 DEF CliOK
    <2>3. QED
      BY <1>6, <2>2, OpensStarts
  <1>7. CASE Flushes
    <2>1. PICK p : p \in {"config", "flush"} /\ \E n : cli' = [cli EXCEPT !.flushed = n, !.pc = p]
      BY <1>7 DEF Flushes
    <2>2. cli'.pc # "up"
      BY <2>1 DEF StartInv, CliOK
    <2>3. QED
      BY <1>7, <2>2, FlushesStarts
  <1>8. CASE FlushEnds
    <2>1. cli'.pc # "up"
      BY <1>8 DEF FlushEnds, StartInv, CliOK
    <2>2. QED
      BY <1>8, <2>1, FlushEndsStarts
  <1>9. CASE SendsConfig
    <2>1. cli'.pc # "up"
      BY <1>9 DEF SendsConfig, StartInv, CliOK
    <2>2. QED
      BY <1>9, <2>1, SendsConfigStarts
  <1>10. CASE SendsPing
    <2>1. cli'.pc # "up"
      BY <1>10 DEF SendsPing, StartInv, CliOK
    <2>2. QED
      BY <1>10, <2>1, SendsPingStarts
  <1>11. CASE Waits
    BY <1>11, WaitsStarts
  <1>12. ASSUME cli' = Failed PROVE cli'.pc # "up"
    BY <1>12 DEF Failed, StartInv, CliOK
  <1>13. CASE WaitEnds
    BY <1>12, <1>13, WaitEndsStarts DEF WaitEnds
  <1>14. CASE Streams
    BY <1>14, StreamsStarts DEF Streams
  <1>15. CASE AttemptFails
    BY <1>12, <1>15, AttemptFailsStarts DEF AttemptFails
  <1>16. QED
    BY <1>1, <1>2, <1>3, <1>4, <1>5, <1>6, <1>7, <1>8, <1>9, <1>10, <1>11, <1>13, <1>14, <1>15
    DEF StartupNext, ClientNext

(* What the parts say together. *)
LEMMA StartIsSound ==
  ASSUME StartInv
  PROVE  StartupTypeOK /\ NothingSkipped
  <1>1. CliOK(cli) /\ LinkOK(link) /\ NothingSkipped
    BY DEF StartInv
  <1>2. QED
    BY <1>1 DEF StartupTypeOK, CliOK, LinkOK, OutPacket

(* A client that comes up has the stream from the first byte of the        *)
(* session its own PING began, whatever the process before it, the first   *)
(* attempt, a reset by the firmware or a lost transfer left behind, and    *)
(* as long as that session lasts it misses no byte.                        *)
THEOREM StartsFreshAlways == ASSUME Strict PROVE StartupSpec => StartsFresh
  <1>1. StartupInit => StartInv
    BY StartBegins
  <1>2. StartInv /\ [StartupNext]_startupVars =>
          StartInv' /\ [cli.pc # "up" /\ cli'.pc = "up" => link.session = cli.attempt]_startupVars
    BY StartNext
  <1>3. StartInv => StartupTypeOK /\ NothingSkipped
    BY StartIsSound
  <1>4. QED
    BY <1>1, <1>2, <1>3, PTL DEF StartupSpec, StartsFresh, InitIsFresh
=============================================================================
