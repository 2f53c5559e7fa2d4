--------------------------- MODULE AmebaUsbProofs ---------------------------
(***************************************************************************)
(* What holds of AmebaUsb for every ring size, chunk size, set of payload  *)
(* lengths and every behaviour of the bus: the types, that the ring is a   *)
(* FIFO of the accepted bytes, that only whole packets are accepted, and   *)
(* that the ring implements PacketFifo.                                    *)
(*                                                                         *)
(* The state of the USB side is one record that the functions of the file  *)
(* rewrite field by field.  So there is one lemma per function, which says *)
(* that it keeps UsbOK and what it does to the ring (nothing, empty it,    *)
(* append a packet, drop bytes at the front); the actions follow from the  *)
(* functions they call.                                                    *)
(***************************************************************************)
EXTENDS AmebaUsb, TLAPS

-----------------------------------------------------------------------------
(* What the ring operations of TxRing do, for every ring size: each lemma  *)
(* relates the index arithmetic to the sequence of bytes the ring holds.   *)

(* The only two cases of "% RingSize" that occur: one wrap at most. *)
LEMMA ModSmall ==
  ASSUME NEW x \in Nat, NEW n \in Nat \ {0}
  PROVE  /\ x < n => x % n = x
         /\ n <= x /\ x < n + n => x % n = x - n
         /\ x % n \in 0 .. n - 1
  OBVIOUS

(* Concatenation, and equality of sequences element by element. *)
LEMMA ConcatParts ==
  ASSUME NEW S, NEW a \in Seq(S), NEW b \in Seq(S)
  PROVE  /\ a \o b \in Seq(S)
         /\ Len(a \o b) = Len(a) + Len(b)
         /\ \A i \in 1 .. Len(a) + Len(b) :
              (a \o b)[i] = IF i <= Len(a) THEN a[i] ELSE b[i - Len(a)]
  OBVIOUS

(* What is left of a sequence without its first n elements.                *)
LEMMA SubSeqParts ==
  ASSUME NEW S, NEW a \in Seq(S), NEW c \in Nat, c = Len(a), NEW n \in 0 .. c
  PROVE  /\ SubSeq(a, n + 1, c) \in Seq(S)
         /\ Len(SubSeq(a, n + 1, c)) = c - n
         /\ \A i \in 1 .. c - n : SubSeq(a, n + 1, c)[i] = a[n + i]
  OBVIOUS

(* Sequences are equal when their lengths and elements are.                *)
LEMMA SeqEqual ==
  ASSUME NEW S, NEW a \in Seq(S), NEW b \in Seq(S), Len(a) = Len(b),
         \A i \in 1 .. Len(a) : a[i] = b[i]
  PROVE  a = b
  OBVIOUS

(* An index below twice the size of the ring wraps at most once.           *)
LEMMA WrapOnce ==
  ASSUME NEW x \in Nat, x < RingSize + RingSize
  PROVE  /\ x < RingSize => Wrap(x) = x
         /\ ~(x < RingSize) => Wrap(x) = x - RingSize
         /\ Wrap(x) \in Slot
  <1>1. CASE x < RingSize
    BY <1>1, ModSmall, RingSizeAssumption DEF Slot, Wrap
  <1>2. CASE ~(x < RingSize)
    <2>1. x % RingSize = x - RingSize
      BY <1>2, RingSizeAssumption
    <2>2. QED
      BY <1>2, <2>1, ModSmall, RingSizeAssumption DEF Slot, Wrap
  <1>3. QED
    BY <1>1, <1>2

(* Moving the tail first and counting on from there is one wrap as well. *)
LEMMA WrapTwice ==
  ASSUME NEW t \in Nat, t < RingSize, NEW n \in Nat, NEW i \in Nat, n + i <= RingSize
  PROVE  Wrap(Wrap(t + n) + i) = Wrap(t + (n + i))
  <1>1. /\ t + n < RingSize => Wrap(t + n) = t + n
        /\ ~(t + n < RingSize) => Wrap(t + n) = t + n - RingSize
    BY WrapOnce, RingSizeAssumption
  <1>2. /\ t + (n + i) < RingSize => Wrap(t + (n + i)) = t + (n + i)
        /\ ~(t + (n + i) < RingSize) => Wrap(t + (n + i)) = t + (n + i) - RingSize
    BY WrapOnce, RingSizeAssumption
  <1>3. PICK y \in Nat : y = Wrap(t + n) + i
    BY <1>1, RingSizeAssumption
  <1>4. y < RingSize + RingSize
    BY <1>1, <1>3, RingSizeAssumption
  <1>5. /\ y < RingSize => Wrap(y) = y
        /\ ~(y < RingSize) => Wrap(y) = y - RingSize
    BY <1>4, WrapOnce
  <1>6. QED
    BY <1>1, <1>2, <1>3, <1>5, RingSizeAssumption

(* The parts of a ring. *)
LEMMA RingParts ==
  ASSUME NEW B, NEW r \in RingOf(B)
  PROVE  /\ r.mem \in [Slot -> B] /\ r.head \in Slot /\ r.tail \in Slot
         /\ r.count \in 0 .. RingSize
         /\ r.head \in Nat /\ r.tail \in Nat /\ r.count \in Nat /\ RingSize \in Nat \ {0}
  BY RingSizeAssumption DEF RingOf, Slot

(* The contents are a sequence of count bytes. *)
LEMMA ContentsIsSeq ==
  ASSUME NEW B, NEW r \in RingOf(B)
  PROVE  /\ Contents(r) \in Seq(B)
         /\ Len(Contents(r)) = r.count
         /\ \A i \in 1 .. r.count : Contents(r)[i] = r.mem[Wrap(r.tail + i - 1)]
  <1>1. ASSUME NEW t \in Slot, NEW c \in 0 .. RingSize, NEW i \in 1 .. c
        PROVE  Wrap(t + i - 1) \in Slot
    BY WrapOnce, RingSizeAssumption DEF Slot
  <1>2. \A i \in 1 .. r.count : r.mem[Wrap(r.tail + i - 1)] \in B
    BY <1>1, RingParts
  <1>3. QED
    BY <1>2, RingParts, SMTT(30) DEF Contents

(* An emptied ring holds nothing. *)
LEMMA ClearedHoldsNothing ==
  ASSUME NEW B, NEW r \in RingOf(B)
  PROVE  /\ Cleared(r) \in RingOf(B)
         /\ WellFormed(Cleared(r))
         /\ Contents(Cleared(r)) = << >>
  <1>1. Wrap(0) = 0
    BY RingSizeAssumption, WrapOnce
  <1>2. QED
    BY <1>1, RingSizeAssumption DEF Cleared, RingOf, WellFormed, Contents, Slot

(* The two memcpy of ring_write put data[k] at slot pos + k - 1, wrapped   *)
(* once, and touch no other slot.                                          *)
LEMMA RingWriteAt ==
  ASSUME NEW B, NEW mem \in [Slot -> B], NEW pos \in Slot, NEW d \in Seq(B),
         Len(d) <= RingSize
  PROVE  /\ RingWrite(mem, pos, d) \in [Slot -> B]
         /\ \A k \in 1 .. Len(d) :
              /\ pos + k - 1 < RingSize => RingWrite(mem, pos, d)[pos + k - 1] = d[k]
              /\ ~(pos + k - 1 < RingSize) => RingWrite(mem, pos, d)[pos + k - 1 - RingSize] = d[k]
         /\ \A p \in Slot :
              /\ p >= pos + Len(d) => RingWrite(mem, pos, d)[p] = mem[p]
              /\ p < pos /\ p + RingSize >= pos + Len(d) => RingWrite(mem, pos, d)[p] = mem[p]
  <1> DEFINE first == MinOf(Len(d), RingSize - pos)
             second == Len(d) - first
             w == RingWrite(mem, pos, d)
  <1>1. /\ Len(d) \in Nat /\ pos \in Nat /\ pos < RingSize /\ RingSize \in Nat
        /\ first \in Nat /\ second \in Nat
        /\ first = IF Len(d) < RingSize - pos THEN Len(d) ELSE RingSize - pos
    BY RingSizeAssumption DEF Slot, MinOf
  <1>2. w = [p \in Slot |-> IF p < second THEN d[first + p + 1]
                            ELSE IF pos <= p /\ p < pos + first THEN d[p - pos + 1] ELSE mem[p]]
    BY DEF RingWrite
  <1>3. \A k \in 1 .. Len(d) : d[k] \in B
    OBVIOUS
  <1>4. second = Len(d) - first
    OBVIOUS
  <1> HIDE DEF first, second, w
  <1>5. w \in [Slot -> B]
    BY <1>1, <1>2, <1>3, <1>4 DEF Slot
  <1>6. ASSUME NEW k \in 1 .. Len(d)
        PROVE  /\ pos + k - 1 < RingSize => w[pos + k - 1] = d[k]
               /\ ~(pos + k - 1 < RingSize) => w[pos + k - 1 - RingSize] = d[k]
    BY <1>1, <1>2, <1>4 DEF Slot
  <1>7. ASSUME NEW p \in Slot
        PROVE  /\ p >= pos + Len(d) => w[p] = mem[p]
               /\ p < pos /\ p + RingSize >= pos + Len(d) => w[p] = mem[p]
    BY <1>1, <1>2, <1>4 DEF Slot
  <1>8. QED
    BY <1>5, <1>6, <1>7 DEF w

(* Slot by slot from tail on: count bytes as they were, then those of d.   *)
WrittenBehind(mem, head, tail, count, d) ==
  \A i \in 1 .. count + Len(d) :
    /\ i <= count => RingWrite(mem, head, d)[Wrap(tail + i - 1)] = mem[Wrap(tail + i - 1)]
    /\ ~(i <= count) => RingWrite(mem, head, d)[Wrap(tail + i - 1)] = d[i - count]

(* Writing at the head leaves the bytes from tail to head alone and puts   *)
(* the new ones behind them.                                               *)
LEMMA WriteAtHead ==
  ASSUME NEW B, NEW mem \in [Slot -> B], NEW head \in Slot, NEW tail \in Slot,
         NEW count \in 0 .. RingSize, head = Wrap(tail + count),
         NEW d \in Seq(B), NEW n \in Nat, n = Len(d), count + n <= RingSize
  PROVE  WrittenBehind(mem, head, tail, count, d)
  <1> SUFFICES ASSUME NEW i \in 1 .. count + n
               PROVE  /\ i <= count => RingWrite(mem, head, d)[Wrap(tail + i - 1)] = mem[Wrap(tail + i - 1)]
                      /\ ~(i <= count) => RingWrite(mem, head, d)[Wrap(tail + i - 1)] = d[i - count]
    BY Zenon DEF WrittenBehind
  <1> DEFINE w == RingWrite(mem, head, d)
  <1>1. RingSize \in Nat \ {0} /\ tail \in Nat /\ tail < RingSize
    BY RingSizeAssumption DEF Slot
  <1>2. /\ tail + count < RingSize => head = tail + count
        /\ ~(tail + count < RingSize) => head = tail + count - RingSize
    BY <1>1, WrapOnce
  <1>3. PICK x \in Nat : x = tail + i - 1
    BY <1>1
  <1>4. /\ Wrap(x) \in Slot
        /\ x < RingSize => Wrap(x) = x
        /\ ~(x < RingSize) => Wrap(x) = x - RingSize
    BY <1>1, <1>3, WrapOnce
  <1>5. CASE i <= count
    <2>1. \A p \in Slot : /\ p >= head + n => w[p] = mem[p]
                          /\ p < head /\ p + RingSize >= head + n => w[p] = mem[p]
      <3>1. Len(d) <= RingSize
        BY <1>1
      <3>2. \A p \in Slot : /\ p >= head + Len(d) => w[p] = mem[p]
                            /\ p < head /\ p + RingSize >= head + Len(d) => w[p] = mem[p]
        BY <3>1, RingWriteAt, SMTT(30)
      <3>3. QED
        BY <3>2, Zenon
    <2>2. \/ Wrap(x) >= head + n
          \/ Wrap(x) < head /\ Wrap(x) + RingSize >= head + n
      BY <1>1, <1>2, <1>3, <1>4, <1>5, SMTT(30)
    <2>3. w[Wrap(x)] = mem[Wrap(x)]
      <3> HIDE DEF w
      <3> QED BY <1>4, <2>1, <2>2
    <2>4. QED
      BY <1>3, <1>5, <2>3
  <1>6. CASE ~(i <= count)
    <2>1. PICK k \in 1 .. n : k = i - count
      BY <1>6
    <2>2. /\ head + k - 1 < RingSize => w[head + k - 1] = d[k]
          /\ ~(head + k - 1 < RingSize) => w[head + k - 1 - RingSize] = d[k]
      <3>1. Len(d) <= RingSize /\ k \in 1 .. Len(d)
        BY <1>1
      <3>2. QED
        BY <3>1, RingWriteAt
    <2>3. Wrap(x) = IF head + k - 1 < RingSize THEN head + k - 1 ELSE head + k - 1 - RingSize
      BY <1>1, <1>2, <1>3, <1>4, <2>1
    <2>4. w[Wrap(x)] = d[k]
      <3> HIDE DEF w
      <3> QED BY <2>2, <2>3
    <2>5. QED
      BY <1>3, <1>6, <2>1, <2>4
  <1>7. QED
    BY <1>5, <1>6

(* Putting data at the head appends it to the contents. *)
LEMMA PutAppends ==
  ASSUME NEW B, NEW r \in RingOf(B), WellFormed(r), NEW d \in Seq(B), Len(d) <= FreeSpace(r)
  PROVE  /\ Put(r, d) \in RingOf(B)
         /\ WellFormed(Put(r, d))
         /\ FreeSpace(Put(r, d)) = FreeSpace(r) - Len(d)
         /\ Contents(Put(r, d)) = Contents(r) \o d
  <1>1. PICK m \in [Slot -> B], h \in Slot, t \in Slot, c \in 0 .. RingSize :
          r = [mem |-> m, head |-> h, tail |-> t, count |-> c]
    BY DEF RingOf
  <1>2. PICK n \in Nat : n = Len(d)
    OBVIOUS
  <1>3. PICK q : q = Put(r, d)
    OBVIOUS
  <1>4. /\ RingSize \in Nat \ {0} /\ h \in Nat /\ h < RingSize /\ t \in Nat /\ t < RingSize
        /\ c + n <= RingSize /\ h = Wrap(t + c)
    BY <1>1, <1>2, RingSizeAssumption DEF Slot, FreeSpace, WellFormed
  <1>5. q = [mem |-> RingWrite(m, h, d), head |-> Wrap(h + n), tail |-> t, count |-> c + n]
    BY <1>1, <1>2, <1>3 DEF Put
  <1>6. q \in RingOf(B)
    <2>1. RingWrite(m, h, d) \in [Slot -> B]
      BY <1>1, <1>2, <1>4, RingWriteAt
    <2>2. Wrap(h + n) \in Slot
      BY <1>2, <1>4, WrapOnce
    <2>3. QED
      BY <1>1, <1>2, <1>4, <1>5, <2>1, <2>2 DEF RingOf
  <1>7. WellFormed(q)
    <2>1. Wrap(t + (c + n)) = Wrap(h + n)
      <3>1. /\ t + c < RingSize => h = t + c
            /\ ~(t + c < RingSize) => h = t + c - RingSize
        BY <1>1, <1>4, WrapOnce
      <3>2. /\ t + (c + n) < RingSize => Wrap(t + (c + n)) = t + (c + n)
            /\ ~(t + (c + n) < RingSize) => Wrap(t + (c + n)) = t + (c + n) - RingSize
        BY <1>1, <1>2, <1>4, WrapOnce
      <3>3. /\ h + n < RingSize => Wrap(h + n) = h + n
            /\ ~(h + n < RingSize) => Wrap(h + n) = h + n - RingSize
        <4>1. n <= RingSize
          BY <1>2, <1>4
        <4>2. h + n \in Nat /\ h + n < RingSize + RingSize
          BY <1>4, <4>1
        <4>3. QED
          BY <1>4, <4>2, WrapOnce
      <3>4. QED
        BY <1>4, <3>1, <3>2, <3>3
    <2>2. QED
      BY <1>5, <2>1 DEF WellFormed
  <1>8. FreeSpace(q) = FreeSpace(r) - n
    BY <1>1, <1>2, <1>4, <1>5 DEF FreeSpace
  <1>9. Contents(q) = Contents(r) \o d
    <2>1. /\ Contents(r) \in Seq(B) /\ Len(Contents(r)) = c
          /\ \A i \in 1 .. c : Contents(r)[i] = m[Wrap(t + i - 1)]
      BY <1>1, ContentsIsSeq
    <2>2. /\ Contents(q) \in Seq(B) /\ Len(Contents(q)) = c + n
          /\ \A i \in 1 .. c + n : Contents(q)[i] = RingWrite(m, h, d)[Wrap(t + i - 1)]
      <3>1. /\ Contents(q) \in Seq(B) /\ Len(Contents(q)) = q.count
            /\ \A i \in 1 .. q.count : Contents(q)[i] = q.mem[Wrap(q.tail + i - 1)]
        BY <1>6, ContentsIsSeq
      <3>2. q.count = c + n /\ q.tail = t /\ q.mem = RingWrite(m, h, d)
        BY <1>5
      <3>3. QED
        BY <3>1, <3>2, Zenon
    <2>3. \A i \in 1 .. c + n :
            /\ i <= c => RingWrite(m, h, d)[Wrap(t + i - 1)] = m[Wrap(t + i - 1)]
            /\ ~(i <= c) => RingWrite(m, h, d)[Wrap(t + i - 1)] = d[i - c]
      <3>1. m \in [Slot -> B] /\ h \in Slot /\ t \in Slot /\ c \in 0 .. RingSize
        BY <1>1
      <3>2. h = Wrap(t + c) /\ n \in Nat /\ n = Len(d) /\ c + n <= RingSize
        BY <1>2, <1>4
      <3>3. WrittenBehind(m, h, t, c, d)
        BY <3>1, <3>2, WriteAtHead
      <3>4. QED
        BY <1>2, <3>3, Zenon DEF WrittenBehind
    <2>4. ASSUME NEW i \in 1 .. c + n
          PROVE  Contents(q)[i] = (Contents(r) \o d)[i]
      <3>1. Contents(q)[i] = IF i <= c THEN m[Wrap(t + i - 1)] ELSE d[i - c]
        BY <1>4, <2>2, <2>3
      <3>2. (Contents(r) \o d)[i] = IF i <= c THEN Contents(r)[i] ELSE d[i - c]
        BY <1>2, <2>1, ConcatParts
      <3>3. QED
        BY <1>1, <1>2, <2>1, <3>1, <3>2
    <2>5. Contents(r) \o d \in Seq(B) /\ Len(Contents(r) \o d) = c + n
      BY <1>2, <2>1, ConcatParts
    <2>6. PICK x \in Seq(B), y \in Seq(B) : x = Contents(q) /\ y = Contents(r) \o d
      BY <2>2, <2>5, Zenon
    <2>7. Len(x) = Len(y) /\ \A i \in 1 .. Len(x) : x[i] = y[i]
      BY <2>2, <2>4, <2>5, <2>6, Zenon
    <2>8. QED
      BY <2>6, <2>7, SeqEqual, Zenon
  <1>10. QED
    BY <1>2, <1>3, <1>6, <1>7, <1>8, <1>9

(* enqueue_packet appends header and payload when both fit and leaves the  *)
(* ring as it is when they do not: no packet is ever truncated.            *)
LEMMA EnqueueAllOrNothing ==
  ASSUME NEW B, NEW r \in RingOf(B), WellFormed(r), NEW a \in Seq(B), NEW b \in Seq(B)
  PROVE  /\ EnqueuePacket(r, a, b) \in RingOf(B)
         /\ WellFormed(EnqueuePacket(r, a, b))
         /\ Fits(r, a, b) => Contents(EnqueuePacket(r, a, b)) = Contents(r) \o a \o b
         /\ ~Fits(r, a, b) => EnqueuePacket(r, a, b) = r
  <1>1. CASE Fits(r, a, b)
    <2>1. Len(a) \in Nat /\ Len(b) \in Nat /\ FreeSpace(r) \in Nat /\ Len(a) + Len(b) <= FreeSpace(r)
      BY <1>1, RingParts DEF Fits, FreeSpace
    <2>2. Len(a) <= FreeSpace(r)
      BY <2>1
    <2>3. PICK q : q = Put(r, a)
      OBVIOUS
    <2>4. q \in RingOf(B) /\ WellFormed(q) /\ FreeSpace(q) = FreeSpace(r) - Len(a)
          /\ Contents(q) = Contents(r) \o a
      BY <2>2, <2>3, PutAppends
    <2>5. Len(b) <= FreeSpace(q)
      BY <2>1, <2>4
    <2>6. Put(q, b) \in RingOf(B) /\ WellFormed(Put(q, b)) /\ Contents(Put(q, b)) = Contents(q) \o b
      BY <2>4, <2>5, PutAppends
    <2>7. EnqueuePacket(r, a, b) = Put(q, b)
      BY <1>1, <2>3 DEF EnqueuePacket
    <2>8. QED
      BY <1>1, <2>4, <2>6, <2>7
  <1>2. CASE ~Fits(r, a, b)
    BY <1>2 DEF EnqueuePacket
  <1>3. QED
    BY <1>1, <1>2

(* consume_chunk drops bytes from the front, never more than there are. *)
LEMMA ConsumeDropsFront ==
  ASSUME NEW B, NEW r \in RingOf(B), WellFormed(r), NEW len \in Nat, NEW n, n = MinOf(len, r.count)
  PROVE  /\ ConsumeChunk(r, len) \in RingOf(B)
         /\ WellFormed(ConsumeChunk(r, len))
         /\ n \in 0 .. r.count
         /\ ConsumeChunk(r, len).count = r.count - n
         /\ Contents(ConsumeChunk(r, len)) = SubSeq(Contents(r), n + 1, r.count)
  <1>1. PICK m \in [Slot -> B], h \in Slot, t \in Slot, c \in 0 .. RingSize :
          r = [mem |-> m, head |-> h, tail |-> t, count |-> c]
    BY DEF RingOf
  <1>2. /\ RingSize \in Nat \ {0} /\ t \in Nat /\ t < RingSize /\ c \in Nat /\ c <= RingSize
        /\ h = Wrap(t + c) /\ n \in Nat /\ n <= c
    BY <1>1, RingSizeAssumption DEF Slot, WellFormed, MinOf
  <1>3. PICK q : q = ConsumeChunk(r, len)
    OBVIOUS
  <1>4. q = [mem |-> m, head |-> h, tail |-> Wrap(t + n), count |-> c - n]
    BY <1>1, <1>3 DEF ConsumeChunk
  <1>5. /\ Wrap(t + n) \in Slot
        /\ t + n < RingSize => Wrap(t + n) = t + n
        /\ ~(t + n < RingSize) => Wrap(t + n) = t + n - RingSize
    BY <1>2, WrapOnce
  <1>6. q \in RingOf(B)
    BY <1>1, <1>2, <1>4, <1>5 DEF RingOf
  <1>7. ASSUME NEW i \in 0 .. c - n PROVE Wrap(Wrap(t + n) + i) = Wrap(t + (n + i))
    <2>1. t \in Nat /\ t < RingSize /\ n \in Nat /\ i \in Nat /\ n + i <= RingSize
      BY <1>2
    <2>2. QED
      BY <2>1, WrapTwice
  <1>8. WellFormed(q)
    <2>1. Wrap(Wrap(t + n) + (c - n)) = Wrap(t + (n + (c - n)))
      BY <1>2, <1>7
    <2>2. n + (c - n) = c
      BY <1>2
    <2>3. QED
      BY <1>2, <1>4, <2>1, <2>2 DEF WellFormed
  <1>9. Contents(q) = SubSeq(Contents(r), n + 1, c)
    <2>1. /\ Contents(r) \in Seq(B) /\ Len(Contents(r)) = c
          /\ \A i \in 1 .. c : Contents(r)[i] = m[Wrap(t + i - 1)]
      BY <1>1, ContentsIsSeq
    <2>2. /\ Contents(q) \in Seq(B) /\ Len(Contents(q)) = c - n
          /\ \A i \in 1 .. c - n : Contents(q)[i] = m[Wrap(Wrap(t + n) + i - 1)]
      <3>1. /\ Contents(q) \in Seq(B) /\ Len(Contents(q)) = q.count
            /\ \A i \in 1 .. q.count : Contents(q)[i] = q.mem[Wrap(q.tail + i - 1)]
        BY <1>6, ContentsIsSeq
      <3>2. q.count = c - n /\ q.tail = Wrap(t + n) /\ q.mem = m
        BY <1>4
      <3>3. QED
        BY <3>1, <3>2, Zenon
    <2>3. /\ SubSeq(Contents(r), n + 1, c) \in Seq(B)
          /\ Len(SubSeq(Contents(r), n + 1, c)) = c - n
          /\ \A i \in 1 .. c - n : SubSeq(Contents(r), n + 1, c)[i] = Contents(r)[n + i]
      <3>1. PICK s \in Seq(B) : s = Contents(r)
        BY <2>1, Zenon
      <3>2. c \in Nat /\ c = Len(s) /\ n \in 0 .. c
        BY <1>2, <2>1, <3>1
      <3>3. /\ SubSeq(s, n + 1, c) \in Seq(B)
            /\ Len(SubSeq(s, n + 1, c)) = c - n
            /\ \A i \in 1 .. c - n : SubSeq(s, n + 1, c)[i] = s[n + i]
        BY <3>2, SubSeqParts, SMTT(30)
      <3>4. QED
        BY <3>1, <3>3, Zenon
    <2>4. \A i \in 1 .. c - n : Contents(q)[i] = Contents(r)[n + i]
      <3> TAKE i \in 1 .. c - n
      <3>1. i - 1 \in 0 .. c - n /\ n + i \in 1 .. c
        BY <1>2
      <3>2. Wrap(Wrap(t + n) + (i - 1)) = Wrap(t + (n + (i - 1)))
        BY <1>7, <3>1
      <3>3. /\ Wrap(t + n) + (i - 1) = Wrap(t + n) + i - 1
            /\ t + (n + (i - 1)) = t + (n + i) - 1
        BY <1>2, <1>5 DEF Slot
      <3>4. Contents(q)[i] = m[Wrap(t + (n + i) - 1)]
        BY <2>2, <3>2, <3>3
      <3>5. Contents(r)[n + i] = m[Wrap(t + (n + i) - 1)]
        BY <2>1, <3>1
      <3>6. QED
        BY <3>4, <3>5
    <2>5. PICK x \in Seq(B), y \in Seq(B) : x = Contents(q) /\ y = SubSeq(Contents(r), n + 1, c)
      BY <2>2, <2>3, Zenon
    <2>6. Len(x) = Len(y) /\ \A i \in 1 .. Len(x) : x[i] = y[i]
      BY <2>2, <2>3, <2>4, <2>5, Zenon
    <2>7. QED
      BY <2>5, <2>6, SeqEqual, Zenon
  <1>10. c = r.count /\ n \in 0 .. c /\ q.count = c - n
    BY <1>1, <1>2, <1>4
  <1>11. QED
    BY <1>3, <1>6, <1>8, <1>9, <1>10

(* peek_chunk copies the first bytes of the contents. *)
LEMMA PeekIsPrefix ==
  ASSUME NEW B, NEW r \in RingOf(B), NEW max \in Nat
  PROVE  PeekChunk(r, max) = SubSeq(Contents(r), 1, MinOf(r.count, max))
  <1>1. PICK m \in [Slot -> B], h \in Slot, t \in Slot, c \in 0 .. RingSize :
          r = [mem |-> m, head |-> h, tail |-> t, count |-> c]
    BY DEF RingOf
  <1>2. PICK n \in 0 .. c : n = MinOf(c, max)
    BY <1>1, RingSizeAssumption DEF MinOf
  <1>3. RingSize \in Nat \ {0} /\ t \in Nat /\ t < RingSize /\ c \in Nat /\ c <= RingSize /\ n \in Nat
    BY <1>1, <1>2, RingSizeAssumption DEF Slot
  <1>4. \A i \in 1 .. n : /\ i <= RingSize - t => Wrap(t + i - 1) = t + i - 1
                          /\ ~(i <= RingSize - t) => Wrap(t + i - 1) = i - (RingSize - t) - 1
    BY <1>2, <1>3, WrapOnce
  <1>5. PeekChunk(r, max) = [i \in 1 .. n |-> m[Wrap(t + i - 1)]]
    BY <1>1, <1>2, <1>3, <1>4 DEF PeekChunk
  <1>6. /\ Contents(r) \in Seq(B) /\ Len(Contents(r)) = c
        /\ \A i \in 1 .. c : Contents(r)[i] = m[Wrap(t + i - 1)]
    BY <1>1, ContentsIsSeq
  <1>7. SubSeq(Contents(r), 1, n) = [i \in 1 .. n |-> Contents(r)[i]]
    BY <1>2, <1>3, <1>6
  <1>8. r.count = c
    BY <1>1
  <1>9. \A i \in 1 .. n : Contents(r)[i] = m[Wrap(t + i - 1)]
    BY <1>2, <1>3, <1>6
  <1>10. QED
    BY <1>2, <1>5, <1>7, <1>8, <1>9

-----------------------------------------------------------------------------
(* The fields of usb. *)
UsbFields == {"configured", "hostReady", "initSent", "inBusy", "inFlight", "resetting",
              "progress", "buf", "tx", "inReq", "late", "outReq", "log", "consumed", "skewed"}

(* The types of all fields but the ring and its history. *)
FlagsOK(u) ==
  /\ DOMAIN u = UsbFields
  /\ u.configured \in BOOLEAN /\ u.hostReady \in BOOLEAN /\ u.initSent \in BOOLEAN
  /\ u.inBusy \in BOOLEAN /\ u.resetting \in BOOLEAN /\ u.progress \in BOOLEAN
  /\ u.late \in BOOLEAN /\ u.outReq \in BOOLEAN /\ u.skewed \in BOOLEAN
  /\ u.inFlight \in 0 .. Chunk
  /\ u.buf \in Seq(Byte) /\ u.inReq \in Seq(Byte)

(* The ring and its history: RingIsFifo with the types it needs. *)
RingOK(u) ==
  /\ u.tx \in RingOf(Byte)
  /\ u.log \in Seq(Byte)
  /\ u.consumed \in Nat
  /\ WellFormed(u.tx)
  /\ Len(u.log) = u.consumed + u.tx.count
  /\ Contents(u.tx) = SubSeq(u.log, u.consumed + 1, Len(u.log))

(* The invariant of the USB state. *)
UsbOK(u) == FlagsOK(u) /\ RingOK(u)

(* v has the ring and the history of u. *)
SameRing(u, v) == v.tx = u.tx /\ v.log = u.log /\ v.consumed = u.consumed

(* v has an empty ring and no history. *)
NoRing(v) == Contents(v.tx) = <<>> /\ v.log = <<>>

(* A function that leaves the ring alone keeps RingOK. *)
LEMMA SameRingOK ==
  ASSUME NEW u, NEW v, RingOK(u), SameRing(u, v)
  PROVE  RingOK(v)
  BY DEF RingOK, SameRing

(* The critical section of gateway_usb_tx_reset empties the ring. *)
LEMMA ClearRingOK ==
  ASSUME NEW u, UsbOK(u)
  PROVE  UsbOK(ClearRing(u)) /\ NoRing(ClearRing(u))
  <1> DEFINE v == ClearRing(u)
  <1>1. v.tx = Cleared(u.tx) /\ v.log = << >> /\ v.consumed = 0
    BY DEF UsbOK, FlagsOK, UsbFields, ClearRing
  <1>2. FlagsOK(v)
    BY DEF UsbOK, FlagsOK, UsbFields, ClearRing
  <1>3. Cleared(u.tx) \in RingOf(Byte) /\ WellFormed(Cleared(u.tx)) /\ Contents(Cleared(u.tx)) = << >>
    BY ClearedHoldsNothing DEF UsbOK, RingOK
  <1>4. Cleared(u.tx).count = 0
    BY DEF Cleared
  <1>5. RingOK(v)
    BY <1>1, <1>3, <1>4 DEF RingOK
  <1>6. QED
    BY <1>1, <1>2, <1>3, <1>5 DEF UsbOK, NoRing

(* usb_ep_dequeue leaves the ring alone. *)
LEMMA DequeueOK ==
  ASSUME NEW u, UsbOK(u)
  PROVE  UsbOK(Dequeue(u)) /\ SameRing(u, Dequeue(u))
  <1> DEFINE v == Dequeue(u)
  <1>1. SameRing(u, v)
    BY DEF UsbOK, FlagsOK, UsbFields, Dequeue, SameRing
  <1>2. CASE u.inReq = << >>
    BY <1>1, <1>2, SameRingOK DEF UsbOK, FlagsOK, UsbFields, Dequeue
  <1>3. CASE u.inReq # << >>
    <2>1. /\ DOMAIN v = UsbFields
          /\ v.late = LateCancel /\ v.resetting = LateCancel
          /\ v.progress = IF LateCancel THEN u.progress ELSE TRUE
          /\ v.configured = u.configured /\ v.hostReady = u.hostReady /\ v.initSent = u.initSent
          /\ v.inBusy = u.inBusy /\ v.outReq = u.outReq /\ v.skewed = u.skewed
          /\ v.inFlight = u.inFlight /\ v.buf = u.buf /\ v.inReq = << >>
      BY <1>3 DEF UsbOK, FlagsOK, UsbFields, Dequeue
    <2>2. v.late \in BOOLEAN /\ v.resetting \in BOOLEAN /\ v.progress \in BOOLEAN
      BY <2>1, UsbAssumption, Zenon DEF UsbOK, FlagsOK
    <2>3. << >> \in Seq(Byte)
      OBVIOUS
    <2>4. FlagsOK(v)
      BY <2>1, <2>2, <2>3, Zenon DEF UsbOK, FlagsOK
    <2>5. QED
      BY <1>1, <2>4, SameRingOK DEF UsbOK
  <1>4. QED
    BY <1>2, <1>3

(* Cancelling the IN request leaves the ring alone. *)
LEMMA CancelInOK ==
  ASSUME NEW u, UsbOK(u)
  PROVE  UsbOK(CancelIn(u)) /\ SameRing(u, CancelIn(u))
  <1> DEFINE v == CancelIn(u)
  <1>1. PICK d : d = IF u.inBusy THEN Dequeue(u) ELSE [u EXCEPT !.resetting = FALSE]
    OBVIOUS
  <1>2. FlagsOK(d) /\ SameRing(u, d)
    <2>1. CASE u.inBusy
      BY <1>1, <2>1, DequeueOK DEF UsbOK
    <2>2. CASE ~u.inBusy
      BY <1>1, <2>2 DEF UsbOK, FlagsOK, UsbFields, SameRing
    <2>3. QED
      BY <2>1, <2>2
  <1>3. v = [d EXCEPT !.inBusy = FALSE, !.inFlight = 0]
    BY <1>1 DEF CancelIn
  <1>4. FlagsOK(v) /\ SameRing(u, v)
    BY <1>2, <1>3, UsbAssumption DEF FlagsOK, UsbFields, SameRing
  <1>5. QED
    BY <1>4, SameRingOK DEF UsbOK

(* gateway_usb_tx_reset empties the ring. *)
LEMMA TxResetOK ==
  ASSUME NEW u, UsbOK(u)
  PROVE  UsbOK(TxReset(u)) /\ NoRing(TxReset(u))
  <1>1. PICK c : c = ClearRing(u)
    OBVIOUS
  <1>2. UsbOK(c) /\ NoRing(c)
    BY <1>1, ClearRingOK
  <1>3. TxReset(u) = [c EXCEPT !.initSent = FALSE]
    BY <1>1 DEF TxReset
  <1>4. FlagsOK(TxReset(u)) /\ SameRing(c, TxReset(u))
    BY <1>2, <1>3 DEF UsbOK, FlagsOK, UsbFields, SameRing
  <1>5. QED
    BY <1>2, <1>4, SameRingOK DEF UsbOK, NoRing, SameRing

(* gateway_usb_reset_stream_session empties the ring. *)
LEMMA ResetStreamSessionOK ==
  ASSUME NEW u, UsbOK(u)
  PROVE  UsbOK(ResetStreamSession(u)) /\ NoRing(ResetStreamSession(u))
  BY CancelInOK, TxResetOK DEF ResetStreamSession

(* A peeked chunk fits the IN buffer. *)
LEMMA PeekChunkOK ==
  ASSUME NEW u, UsbOK(u)
  PROVE  PeekChunk(u.tx, Chunk) \in Seq(Byte) /\ Len(PeekChunk(u.tx, Chunk)) \in 0 .. Chunk
  <1>1. PICK c \in Seq(Byte), n \in Nat : c = Contents(u.tx) /\ n = u.tx.count /\ Len(c) = n
    BY ContentsIsSeq, RingParts DEF UsbOK, RingOK
  <1>2. PICK m \in Nat : m = MinOf(n, Chunk) /\ m <= n /\ m <= Chunk
    BY UsbAssumption DEF MinOf
  <1>3. PeekChunk(u.tx, Chunk) = SubSeq(c, 1, m)
    BY <1>1, <1>2, PeekIsPrefix, UsbAssumption DEF UsbOK, RingOK
  <1>4. QED
    BY <1>1, <1>2, <1>3, UsbAssumption

(* gateway_usb_kick_tx leaves the ring alone. *)
LEMMA KickTxOK ==
  ASSUME NEW u, UsbOK(u), NEW ok
  PROVE  UsbOK(KickTx(u, ok)) /\ SameRing(u, KickTx(u, ok))
  <1>1. PICK chunk \in Seq(Byte) : chunk = PeekChunk(u.tx, Chunk) /\ Len(chunk) \in 0 .. Chunk
    BY PeekChunkOK
  <1>2. FlagsOK(KickTx(u, ok)) /\ SameRing(u, KickTx(u, ok))
    <2>1. CASE ~u.configured \/ u.inBusy \/ chunk = << >>
      BY <1>1, <2>1 DEF KickTx, UsbOK, SameRing
    <2>2. CASE ~(~u.configured \/ u.inBusy \/ chunk = << >>) /\ Accepts(u, ok)
      BY <1>1, <2>2 DEF KickTx, UsbOK, FlagsOK, UsbFields, SameRing
    <2>3. CASE ~(~u.configured \/ u.inBusy \/ chunk = << >>) /\ ~Accepts(u, ok)
      BY <1>1, <2>3, UsbAssumption DEF KickTx, UsbOK, FlagsOK, UsbFields, SameRing
    <2>4. QED
      BY <2>1, <2>2, <2>3
  <1>3. QED
    BY <1>2, SameRingOK DEF UsbOK

(* The PONG consists of bytes. *)
LEMMA PongIsBytes == PongPacket \in Seq(Byte)
  BY DEF PongPacket, Byte

(* gateway_usb_send_pong leaves the ring alone. *)
LEMMA SendPongOK ==
  ASSUME NEW u, UsbOK(u), NEW ok
  PROVE  UsbOK(SendPong(u, ok)) /\ SameRing(u, SendPong(u, ok))
  <1>1. FlagsOK(SendPong(u, ok)) /\ SameRing(u, SendPong(u, ok))
    <2>1. CASE u.inBusy
      BY <2>1 DEF SendPong, UsbOK, SameRing
    <2>2. CASE ~u.inBusy /\ Accepts(u, ok)
      BY <2>2, PongIsBytes, UsbAssumption DEF SendPong, UsbOK, FlagsOK, UsbFields, SameRing
    <2>3. CASE ~u.inBusy /\ ~Accepts(u, ok)
      BY <2>3, PongIsBytes, UsbAssumption DEF SendPong, UsbOK, FlagsOK, UsbFields, SameRing
    <2>4. QED
      BY <2>1, <2>2, <2>3
  <1>2. QED
    BY <1>1, SameRingOK DEF UsbOK

(* gateway_usb_queue_out_request leaves the ring alone. *)
LEMMA QueueOutOK ==
  ASSUME NEW u, UsbOK(u), NEW ok
  PROVE  UsbOK(QueueOut(u, ok)) /\ SameRing(u, QueueOut(u, ok))
  <1>1. FlagsOK(QueueOut(u, ok)) /\ SameRing(u, QueueOut(u, ok))
    BY DEF QueueOut, UsbOK, FlagsOK, UsbFields, SameRing
  <1>2. QED
    BY <1>1, SameRingOK DEF UsbOK

(* A failed IN request leaves the ring alone or empties it. *)
LEMMA InCompleteErrorOK ==
  ASSUME NEW u, UsbOK(u)
  PROVE  /\ UsbOK(InCompleteError(u))
         /\ SameRing(u, InCompleteError(u)) \/ NoRing(InCompleteError(u))
  <1>1. PICK v : v = [u EXCEPT !.progress = TRUE, !.inBusy = FALSE, !.inFlight = 0]
    OBVIOUS
  <1>2. FlagsOK(v) /\ SameRing(u, v)
    BY <1>1, UsbAssumption DEF UsbOK, FlagsOK, UsbFields, SameRing
  <1>3. UsbOK(v)
    BY <1>2, SameRingOK DEF UsbOK
  <1>4. CASE v.resetting
    <2>1. InCompleteError(u) = [v EXCEPT !.resetting = FALSE]
      BY <1>1, <1>4 DEF InCompleteError
    <2>2. FlagsOK(InCompleteError(u)) /\ SameRing(u, InCompleteError(u))
      BY <1>2, <2>1 DEF FlagsOK, UsbFields, SameRing
    <2>3. QED
      BY <2>2, SameRingOK DEF UsbOK
  <1>5. CASE ~v.resetting
    <2>1. InCompleteError(u) = ResetStreamSession(v)
      BY <1>1, <1>5 DEF InCompleteError
    <2>2. QED
      BY <1>3, <2>1, ResetStreamSessionOK
  <1>6. QED
    BY <1>4, <1>5

(* So does disabling the IN endpoint. *)
LEMMA FailInOK ==
  ASSUME NEW u, UsbOK(u)
  PROVE  UsbOK(FailIn(u)) /\ (SameRing(u, FailIn(u)) \/ NoRing(FailIn(u)))
  <1>1. CASE u.inReq = << >>
    BY <1>1 DEF FailIn, SameRing
  <1>2. CASE u.inReq # << >>
    <2>1. PICK v : v = [u EXCEPT !.inReq = << >>]
      OBVIOUS
    <2>2. FlagsOK(v) /\ SameRing(u, v)
      BY <2>1 DEF UsbOK, FlagsOK, UsbFields, SameRing
    <2>3. UsbOK(v)
      BY <2>2, SameRingOK DEF UsbOK
    <2>4. FailIn(u) = InCompleteError(v)
      BY <1>2, <2>1 DEF FailIn
    <2>5. QED
      BY <2>2, <2>3, <2>4, InCompleteErrorOK DEF SameRing
  <1>3. QED
    BY <1>1, <1>2

(* An empty ring that is left alone or emptied is empty. *)
LEMMA NoRingStays ==
  ASSUME NEW u, NEW v, NoRing(u), SameRing(u, v) \/ NoRing(v)
  PROVE  NoRing(v)
  BY DEF NoRing, SameRing

(* gateway_usb_function_disable empties the ring. *)
LEMMA FunctionDisableOK ==
  ASSUME NEW u, UsbOK(u)
  PROVE  UsbOK(FunctionDisable(u)) /\ NoRing(FunctionDisable(u))
  <1>1. PICK v : v = [u EXCEPT !.configured = FALSE, !.inBusy = FALSE]
    OBVIOUS
  <1>2. FlagsOK(v) /\ SameRing(u, v)
    BY <1>1 DEF UsbOK, FlagsOK, UsbFields, SameRing
  <1>3. UsbOK(v)
    BY <1>2, SameRingOK DEF UsbOK
  <1>4. PICK w : w = FailIn(TxReset(v))
    OBVIOUS
  <1>5. UsbOK(w) /\ NoRing(w)
    BY <1>3, <1>4, TxResetOK, FailInOK, NoRingStays
  <1>6. FunctionDisable(u) = [w EXCEPT !.outReq = FALSE]
    BY <1>1, <1>4 DEF FunctionDisable
  <1>7. FlagsOK(FunctionDisable(u)) /\ SameRing(w, FunctionDisable(u))
    BY <1>5, <1>6 DEF UsbOK, FlagsOK, UsbFields, SameRing
  <1>8. QED
    BY <1>5, <1>7, SameRingOK, NoRingStays DEF UsbOK

(* gateway_usb_function_set_alt leaves the ring alone or empties it. *)
LEMMA FunctionSetAltOK ==
  ASSUME NEW u, UsbOK(u), NEW result \in SetAltResult, NEW ok
  PROVE  /\ UsbOK(FunctionSetAlt(u, result, ok))
         /\ \/ SameRing(u, FunctionSetAlt(u, result, ok))
            \/ NoRing(FunctionSetAlt(u, result, ok))
  <1>1. PICK v : v = IF u.configured THEN FunctionDisable(u) ELSE u
    OBVIOUS
  <1>2. UsbOK(v) /\ (v = u \/ NoRing(v))
    BY <1>1, FunctionDisableOK
  <1>3. CASE result = "noIn"
    <2>1. FunctionSetAlt(u, result, ok) = v
      BY <1>1, <1>3 DEF FunctionSetAlt
    <2>2. QED
      BY <1>2, <2>1 DEF SameRing
  <1>4. CASE result = "noOut"
    <2>1. FunctionSetAlt(u, result, ok) = FailIn(v)
      BY <1>1, <1>4 DEF FunctionSetAlt
    <2>2. QED
      BY <1>2, <2>1, FailInOK, NoRingStays
  <1>5. CASE result = "noRequest"
    <2>1. FunctionSetAlt(u, result, ok) = FunctionDisable(v)
      BY <1>1, <1>5 DEF FunctionSetAlt
    <2>2. QED
      BY <1>2, <2>1, FunctionDisableOK
  <1>6. CASE result = "done"
    <2>1. PICK w : w = [v EXCEPT !.configured = TRUE, !.inBusy = FALSE, !.hostReady = FALSE]
      OBVIOUS
    <2>2. FlagsOK(w) /\ SameRing(v, w)
      BY <1>2, <2>1 DEF UsbOK, FlagsOK, UsbFields, SameRing
    <2>3. UsbOK(w)
      BY <1>2, <2>2, SameRingOK DEF UsbOK
    <2>4. FunctionSetAlt(u, result, ok) = QueueOut(TxReset(w), ok)
      BY <1>1, <1>6, <2>1 DEF FunctionSetAlt
    <2>5. QED
      BY <2>3, <2>4, TxResetOK, QueueOutOK, NoRingStays
  <1>7. QED
    BY <1>3, <1>4, <1>5, <1>6 DEF SetAltResult

(* Disconnect and suspend empty the ring. *)
LEMMA BusLostOK ==
  ASSUME NEW u, UsbOK(u)
  PROVE  UsbOK(BusLost(u)) /\ NoRing(BusLost(u))
  <1>1. PICK f : f = [FailIn(u) EXCEPT !.outReq = FALSE]
    OBVIOUS
  <1>2. UsbOK(FailIn(u))
    BY FailInOK
  <1>3. FlagsOK(f) /\ SameRing(FailIn(u), f)
    BY <1>1, <1>2 DEF UsbOK, FlagsOK, UsbFields, SameRing
  <1>4. UsbOK(f)
    BY <1>2, <1>3, SameRingOK DEF UsbOK
  <1>5. PICK v : v = IF KeepsRequest THEN u ELSE f
    OBVIOUS
  <1>6. PICK w : w = [v EXCEPT !.configured = FALSE, !.inBusy = FALSE]
    OBVIOUS
  <1>7. UsbOK(v)
    BY <1>4, <1>5
  <1>8. FlagsOK(w) /\ SameRing(v, w)
    BY <1>6, <1>7 DEF UsbOK, FlagsOK, UsbFields, SameRing
  <1>9. UsbOK(w)
    BY <1>7, <1>8, SameRingOK DEF UsbOK
  <1>10. BusLost(u) = TxReset(w)
    BY <1>1, <1>5, <1>6 DEF BusLost
  <1>11. QED
    BY <1>9, <1>10, TxResetOK

(* Concatenation is associative. *)
LEMMA ConcatAssoc ==
  ASSUME NEW S, NEW s \in Seq(S), NEW a \in Seq(S), NEW b \in Seq(S)
  PROVE  (s \o a) \o b = s \o (a \o b)
  <1>1. /\ (s \o a) \o b \in Seq(S) /\ s \o (a \o b) \in Seq(S)
        /\ Len((s \o a) \o b) = Len(s) + Len(a) + Len(b)
        /\ Len(s \o (a \o b)) = Len(s) + Len(a) + Len(b)
    BY ConcatParts
  <1>2. ASSUME NEW i \in 1 .. Len(s) + Len(a) + Len(b)
        PROVE  ((s \o a) \o b)[i] = (s \o (a \o b))[i]
    OBVIOUS
  <1>3. QED
    BY <1>1, <1>2, SeqEqual

(* Dropping a front and appending commute. *)
LEMMA SubSeqAppend ==
  ASSUME NEW S, NEW s \in Seq(S), NEW d \in Seq(S), NEW k \in 0 .. Len(s)
  PROVE  SubSeq(s \o d, k + 1, Len(s \o d)) = SubSeq(s, k + 1, Len(s)) \o d
  <1>1. PICK n \in Nat, m \in Nat : n = Len(s) /\ m = Len(d)
    OBVIOUS
  <1>2. s \o d \in Seq(S) /\ Len(s \o d) = n + m /\ k \in 0 .. n /\ k \in 0 .. n + m
    BY <1>1, ConcatParts
  <1>3. /\ SubSeq(s \o d, k + 1, n + m) \in Seq(S)
        /\ Len(SubSeq(s \o d, k + 1, n + m)) = n + m - k
        /\ \A i \in 1 .. n + m - k : SubSeq(s \o d, k + 1, n + m)[i] = (s \o d)[k + i]
    BY <1>2, SubSeqParts
  <1>4. PICK t : t = SubSeq(s, k + 1, n)
    OBVIOUS
  <1>5. /\ t \in Seq(S) /\ Len(t) = n - k
        /\ \A i \in 1 .. n - k : t[i] = s[k + i]
    <2>1. n = Len(s) /\ k \in 0 .. n
      BY <1>1, <1>2
    <2>2. QED
      BY <1>4, <2>1, SubSeqParts
  <1>8. t \o d \in Seq(S) /\ Len(t \o d) = n + m - k
    <2>1. t \o d \in Seq(S) /\ Len(t \o d) = Len(t) + Len(d)
      BY <1>5, ConcatParts
    <2>2. QED
      BY <1>1, <1>2, <1>5, <2>1
  <1>6. ASSUME NEW i \in 1 .. n + m - k
        PROVE  (t \o d)[i] = (s \o d)[k + i]
    <2>1. (s \o d)[k + i] = IF k + i <= n THEN s[k + i] ELSE d[k + i - n]
      BY <1>1, <1>2
    <2>2. (t \o d)[i] = IF i <= n - k THEN t[i] ELSE d[i - (n - k)]
      <3>1. \A j \in 1 .. Len(t) + Len(d) : (t \o d)[j] = IF j <= Len(t) THEN t[j] ELSE d[j - Len(t)]
        BY <1>5, ConcatParts
      <3>2. i \in 1 .. Len(t) + Len(d)
        BY <1>1, <1>2, <1>5
      <3>3. (t \o d)[i] = IF i <= Len(t) THEN t[i] ELSE d[i - Len(t)]
        BY <3>1, <3>2, Zenon
      <3>4. QED
        BY <1>5, <3>3, Zenon
    <2>3. i <= n - k <=> k + i <= n
      BY <1>1, <1>2
    <2>4. i - (n - k) = k + i - n
      BY <1>1, <1>2
    <2>5. CASE k + i <= n
      BY <1>5, <2>1, <2>2, <2>3, <2>5
    <2>6. CASE ~(k + i <= n)
      BY <2>1, <2>2, <2>3, <2>4, <2>6
    <2>7. QED
      BY <2>5, <2>6
  <1>7. SubSeq(s \o d, k + 1, n + m) = t \o d
    BY <1>3, <1>6, <1>8, SeqEqual
  <1>9. QED
    BY <1>1, <1>2, <1>4, <1>7

(* Dropping k and then n elements drops k + n. *)
LEMMA SubSeqDrop ==
  ASSUME NEW S, NEW s \in Seq(S), NEW l \in Nat, l = Len(s), NEW k \in 0 .. l, NEW n \in 0 .. l - k
  PROVE  SubSeq(SubSeq(s, k + 1, l), n + 1, l - k) = SubSeq(s, k + n + 1, l)
  <1>1. PICK t : t = SubSeq(s, k + 1, l)
    OBVIOUS
  <1>2. t \in Seq(S) /\ Len(t) = l - k /\ \A i \in 1 .. l - k : t[i] = s[k + i]
    BY <1>1, SubSeqParts
  <1>13. l - k \in Nat
    OBVIOUS
  <1>3. PICK c \in Nat : c = l - k
    BY <1>13
  <1>4. c = Len(t) /\ n \in 0 .. c
    BY <1>2, <1>3
  <1>5. /\ SubSeq(t, n + 1, c) \in Seq(S) /\ Len(SubSeq(t, n + 1, c)) = c - n
        /\ \A i \in 1 .. c - n : SubSeq(t, n + 1, c)[i] = t[n + i]
    BY <1>2, <1>4, SubSeqParts
  <1>6. k + n \in 0 .. l /\ l - (k + n) = c - n
    BY <1>3
  <1>7. /\ SubSeq(s, k + n + 1, l) \in Seq(S) /\ Len(SubSeq(s, k + n + 1, l)) = l - (k + n)
        /\ \A i \in 1 .. l - (k + n) : SubSeq(s, k + n + 1, l)[i] = s[k + n + i]
    BY <1>6, SubSeqParts
  <1>8. ASSUME NEW i \in 1 .. c - n PROVE t[n + i] = s[k + n + i]
    <2>1. n + i \in 1 .. l - k /\ k + (n + i) = k + n + i
      BY <1>3
    <2>2. QED
      BY <1>2, <2>1
  <1>9. SubSeq(t, n + 1, c) = SubSeq(s, k + n + 1, l)
    <2>1. PICK x, y : x = SubSeq(t, n + 1, c) /\ y = SubSeq(s, k + n + 1, l)
      OBVIOUS
    <2>2. x \in Seq(S) /\ y \in Seq(S) /\ Len(x) = Len(y) /\ Len(x) = c - n
      BY <1>5, <1>6, <1>7, <2>1
    <2>3. \A i \in 1 .. Len(x) : x[i] = y[i]
      BY <1>5, <1>6, <1>7, <1>8, <2>1, <2>2
    <2>4. QED
      BY <2>1, <2>2, <2>3, SeqEqual
  <1>10. QED
    BY <1>1, <1>3, <1>9

(* The ring of u had room for d, and v has it at the end. *)
Appended(u, v, d) ==
  /\ Contents(v.tx) = Contents(u.tx) \o d
  /\ v.log = u.log \o d
  /\ u.tx.count + Len(d) <= RingSize

(* gateway_usb_tx_enqueue_packet appends the packet or does nothing. *)
LEMMA TxEnqueueOK ==
  ASSUME NEW u, UsbOK(u), NEW a \in Seq(Byte), NEW b \in Seq(Byte)
  PROVE  /\ UsbOK(TxEnqueue(u, a, b))
         /\ Fits(u.tx, a, b) => Appended(u, TxEnqueue(u, a, b), a \o b)
         /\ ~Fits(u.tx, a, b) => SameRing(u, TxEnqueue(u, a, b))
  <1>1. PICK v : v = TxEnqueue(u, a, b)
    OBVIOUS
  <1>2. FlagsOK(v) /\ v.tx = EnqueuePacket(u.tx, a, b) /\ v.consumed = u.consumed
        /\ v.log = IF Fits(u.tx, a, b) THEN (u.log \o a) \o b ELSE u.log
    BY <1>1 DEF UsbOK, FlagsOK, UsbFields, TxEnqueue
  <1>3. /\ v.tx \in RingOf(Byte) /\ WellFormed(v.tx)
        /\ Fits(u.tx, a, b) => Contents(v.tx) = (Contents(u.tx) \o a) \o b
        /\ ~Fits(u.tx, a, b) => v.tx = u.tx
    <2>1. u.tx \in RingOf(Byte) /\ WellFormed(u.tx)
      BY DEF UsbOK, RingOK
    <2>2. QED
      BY <1>2, <2>1, EnqueueAllOrNothing
  <1>4. CASE ~Fits(u.tx, a, b)
    <2>1. SameRing(u, v)
      BY <1>2, <1>3, <1>4 DEF SameRing
    <2>2. QED
      BY <1>1, <1>2, <1>4, <2>1, SameRingOK DEF UsbOK
  <1>5. CASE Fits(u.tx, a, b)
    <2>1. PICK d \in Seq(Byte) : d = a \o b
      BY ConcatParts
    <2>2. Len(d) = Len(a) + Len(b) /\ Len(d) \in Nat
      BY <2>1, ConcatParts
    <2>3. Contents(u.tx) \in Seq(Byte) /\ Len(Contents(u.tx)) = u.tx.count
          /\ Len(Contents(v.tx)) = v.tx.count /\ u.tx.count \in Nat /\ v.tx.count \in Nat
      BY <1>3, ContentsIsSeq, RingParts DEF UsbOK, RingOK
    <2>4. Contents(v.tx) = Contents(u.tx) \o d /\ v.log = u.log \o d
      <3>1. PICK l \in Seq(Byte) : l = u.log
        BY DEF UsbOK, RingOK
      <3>2. (l \o a) \o b = l \o d
        <4>1. (l \o a) \o b = l \o (a \o b)
          BY ConcatAssoc, SMTT(30)
        <4>2. QED
          BY <2>1, <4>1
      <3>3. (Contents(u.tx) \o a) \o b = Contents(u.tx) \o d
        <4>1. PICK s \in Seq(Byte) : s = Contents(u.tx)
          BY <2>3
        <4>2. (s \o a) \o b = s \o (a \o b)
          BY ConcatAssoc, SMTT(30)
        <4>3. QED
          BY <2>1, <4>1, <4>2, Zenon
      <3>4. QED
        BY <1>2, <1>3, <1>5, <3>1, <3>2, <3>3, SMTT(30)
    <2>5. u.tx.count + Len(d) <= RingSize
      BY <1>5, <2>2, <2>3, RingSizeAssumption DEF Fits, FreeSpace
    <2>6. v.tx.count = u.tx.count + Len(d)
      <3>1. PICK s \in Seq(Byte) : s = Contents(u.tx)
        BY <2>3
      <3>2. Len(s \o d) = Len(s) + Len(d)
        BY ConcatParts
      <3>3. QED
        BY <2>3, <2>4, <3>1, <3>2, Zenon
    <2>7. PICK k \in 0 .. Len(u.log) : k = u.consumed
      BY <2>3 DEF UsbOK, RingOK
    <2>8. u.log \in Seq(Byte) /\ Len(u.log) = k + u.tx.count
          /\ Contents(u.tx) = SubSeq(u.log, k + 1, Len(u.log))
      BY <2>7 DEF UsbOK, RingOK
    <2>9. v.log \in Seq(Byte) /\ Len(v.log) = Len(u.log) + Len(d)
      BY <2>4, <2>8, ConcatParts
    <2>10. Contents(v.tx) = SubSeq(v.log, k + 1, Len(v.log))
      BY <2>4, <2>7, <2>8, SubSeqAppend
    <2>11. Len(v.log) = v.consumed + v.tx.count /\ v.consumed \in Nat
      <3>1. PICK n \in Nat, m \in Nat, j \in Nat : n = u.tx.count /\ m = Len(d) /\ j = v.tx.count
        BY <2>2, <2>3
      <3>2. j = n + m /\ Len(v.log) = (k + n) + m /\ k \in Nat
        BY <2>6, <2>7, <2>8, <2>9, <3>1
      <3>3. v.consumed = k /\ (k + n) + m = k + j
        BY <1>2, <2>7, <3>2
      <3>4. QED
        BY <3>1, <3>2, <3>3, Zenon
    <2>12. RingOK(v)
      BY <1>2, <1>3, <2>7, <2>9, <2>10, <2>11 DEF RingOK
    <2>13. QED
      BY <1>1, <1>2, <1>5, <2>1, <2>4, <2>5, <2>12 DEF UsbOK, Appended
  <1>6. QED
    BY <1>4, <1>5

(* v lost some bytes at the front of the ring. *)
Dropped(u, v) ==
  /\ \E n \in 0 .. Len(Contents(u.tx)) :
       Contents(v.tx) = SubSeq(Contents(u.tx), n + 1, Len(Contents(u.tx)))
  /\ v.log = u.log

(* gateway_usb_tx_consume_chunk drops bytes at the front. *)
LEMMA TxConsumeOK ==
  ASSUME NEW u, UsbOK(u), NEW len \in Nat
  PROVE  UsbOK(TxConsume(u, len)) /\ Dropped(u, TxConsume(u, len))
  <1>1. PICK v, n : v = TxConsume(u, len) /\ n = MinOf(len, u.tx.count)
    OBVIOUS
  <1>2. /\ FlagsOK(v) /\ v.tx = ConsumeChunk(u.tx, len) /\ v.log = u.log
        /\ v.consumed = u.consumed + n
    BY <1>1 DEF UsbOK, FlagsOK, UsbFields, TxConsume
  <1>3. u.tx \in RingOf(Byte) /\ WellFormed(u.tx)
    BY DEF UsbOK, RingOK
  <1>4. /\ v.tx \in RingOf(Byte) /\ WellFormed(v.tx) /\ n \in 0 .. u.tx.count
        /\ v.tx.count = u.tx.count - n
        /\ Contents(v.tx) = SubSeq(Contents(u.tx), n + 1, u.tx.count)
    <2>1. PICK r \in RingOf(Byte) : r = u.tx
      BY <1>3
    <2>2. WellFormed(r) /\ n = MinOf(len, r.count)
      BY <1>1, <1>3, <2>1
    <2>3. /\ ConsumeChunk(r, len) \in RingOf(Byte) /\ WellFormed(ConsumeChunk(r, len))
          /\ n \in 0 .. r.count
          /\ ConsumeChunk(r, len).count = r.count - n
          /\ Contents(ConsumeChunk(r, len)) = SubSeq(Contents(r), n + 1, r.count)
      BY <2>2, ConsumeDropsFront, ZenonT(60)
    <2>4. QED
      BY <1>2, <2>1, <2>3, ZenonT(30)
  <1>5. PICK c \in Nat, k \in Nat, s \in Seq(Byte), l \in Nat :
          c = u.tx.count /\ k = u.consumed /\ s = u.log /\ l = Len(s)
    <2>1. u.tx.count \in Nat
      BY <1>3, RingParts
    <2>2. u.consumed \in Nat /\ u.log \in Seq(Byte)
      BY DEF UsbOK, RingOK
    <2>3. QED
      BY <2>1, <2>2
  <1>6. l = k + c /\ Contents(u.tx) = SubSeq(s, k + 1, l)
    BY <1>5 DEF UsbOK, RingOK
  <1>7. n \in 0 .. c /\ n \in Nat /\ v.tx.count = c - n /\ v.consumed = k + n
    BY <1>2, <1>4, <1>5
  <1>8. k \in 0 .. l /\ c = l - k /\ n \in 0 .. l - k
    BY <1>6, <1>7
  <1>9. Contents(v.tx) = SubSeq(s, k + n + 1, l)
    <2>1. SubSeq(SubSeq(s, k + 1, l), n + 1, l - k) = SubSeq(s, k + n + 1, l)
      <3>1. s \in Seq(Byte) /\ l \in Nat /\ l = Len(s) /\ k \in 0 .. l /\ n \in 0 .. l - k
        BY <1>5, <1>8
      <3>2. QED
        BY <3>1, SubSeqDrop, Zenon
    <2>2. QED
      BY <1>4, <1>5, <1>6, <1>8, <2>1
  <1>10. Len(v.log) = (k + n) + (c - n) /\ v.log \in Seq(Byte) /\ k + n \in Nat
    <2>1. (k + n) + (c - n) = k + c /\ k + n \in Nat
      BY <1>7
    <2>2. QED
      BY <1>2, <1>5, <1>6, <2>1
  <1>11. RingOK(v)
    BY <1>2, <1>4, <1>5, <1>7, <1>9, <1>10 DEF RingOK
  <1>12. Dropped(u, v)
    <2>1. Len(Contents(u.tx)) = u.tx.count
      BY <1>3, ContentsIsSeq
    <2>2. QED
      BY <1>2, <1>4, <2>1 DEF Dropped
  <1>13. QED
    BY <1>1, <1>2, <1>11, <1>12 DEF UsbOK

(* The init packet consists of bytes. *)
LEMMA InitIsBytes == InitPacket \in Seq(Byte) /\ << >> \in Seq(Byte) /\ InitPacket \o << >> = InitPacket
  BY DEF InitPacket, Byte

(* gateway_usb_enqueue_init_packet appends the init packet or nothing. *)
LEMMA EnqueueInitOK ==
  ASSUME NEW u, UsbOK(u)
  PROVE  /\ UsbOK(EnqueueInit(u))
         /\ SameRing(u, EnqueueInit(u)) \/ Appended(u, EnqueueInit(u), InitPacket)
  <1>1. CASE u.initSent \/ ~Fits(u.tx, InitPacket, << >>)
    BY <1>1 DEF EnqueueInit, SameRing
  <1>2. CASE ~(u.initSent \/ ~Fits(u.tx, InitPacket, << >>))
    <2>1. PICK w : w = TxEnqueue(u, InitPacket, << >>)
      OBVIOUS
    <2>2. UsbOK(w) /\ Appended(u, w, InitPacket)
      BY <1>2, <2>1, InitIsBytes, TxEnqueueOK
    <2>3. EnqueueInit(u) = [w EXCEPT !.initSent = TRUE]
      BY <1>2, <2>1 DEF EnqueueInit
    <2>4. FlagsOK(EnqueueInit(u)) /\ SameRing(w, EnqueueInit(u))
      BY <2>2, <2>3 DEF UsbOK, FlagsOK, UsbFields, SameRing
    <2>5. QED
      BY <2>2, <2>4, SameRingOK DEF UsbOK, Appended, SameRing
  <1>3. QED
    BY <1>1, <1>2

(* And so does the tail of gateway_usb_out_complete. *)
LEMMA EnqueueInitAndKickOK ==
  ASSUME NEW u, UsbOK(u), NEW ok
  PROVE  /\ UsbOK(EnqueueInitAndKick(u, ok))
         /\ \/ SameRing(u, EnqueueInitAndKick(u, ok))
            \/ Appended(u, EnqueueInitAndKick(u, ok), InitPacket)
  <1>1. PICK v : v = EnqueueInit(u)
    OBVIOUS
  <1>2. UsbOK(v) /\ (SameRing(u, v) \/ Appended(u, v, InitPacket))
    BY <1>1, EnqueueInitOK
  <1>3. PICK w : w = IF v.initSent THEN KickTx(v, ok) ELSE v
    OBVIOUS
  <1>4. UsbOK(w) /\ SameRing(v, w)
    BY <1>2, <1>3, KickTxOK DEF SameRing
  <1>5. w = EnqueueInitAndKick(u, ok)
    BY <1>1, <1>3 DEF EnqueueInitAndKick
  <1>6. QED
    BY <1>2, <1>4, <1>5 DEF SameRing, Appended

(* A successful IN completion only drops bytes at the front. *)
LEMMA InCompleteOkOK ==
  ASSUME NEW u, UsbOK(u), NEW actual \in Nat, NEW ok
  PROVE  UsbOK(InCompleteOk(u, actual, ok)) /\ Dropped(u, InCompleteOk(u, actual, ok))
  <1>1. PICK v : v = [u EXCEPT !.progress = TRUE, !.inBusy = FALSE, !.inFlight = 0]
    OBVIOUS
  <1>2. FlagsOK(v) /\ SameRing(u, v)
    BY <1>1, UsbAssumption DEF UsbOK, FlagsOK, UsbFields, SameRing
  <1>3. UsbOK(v)
    BY <1>2, SameRingOK DEF UsbOK
  <1>4. PICK len : len = IF 0 < actual /\ actual < u.inFlight THEN actual ELSE u.inFlight
    OBVIOUS
  <1>5. len \in Nat
    BY <1>4, UsbAssumption DEF UsbOK, FlagsOK
  <1>6. PICK w : w = TxConsume(v, len)
    OBVIOUS
  <1>7. UsbOK(w) /\ Dropped(v, w)
    BY <1>3, <1>5, <1>6, TxConsumeOK
  <1>8. UsbOK(KickTx(w, ok)) /\ SameRing(w, KickTx(w, ok))
    BY <1>7, KickTxOK
  <1>9. InCompleteOk(u, actual, ok) = KickTx(w, ok)
    BY <1>1, <1>4, <1>6 DEF InCompleteOk
  <1>10. QED
    BY <1>2, <1>7, <1>8, <1>9 DEF SameRing, Dropped

(* The same with the history of what the host received. *)
LEMMA CompletionOK ==
  ASSUME NEW u, UsbOK(u), NEW actual \in Nat, NEW received, NEW ok
  PROVE  /\ UsbOK(Completion(u, actual, received, ok))
         /\ Dropped(u, Completion(u, actual, received, ok))
  <1>1. PICK v : v = InCompleteOk(u, actual, ok)
    OBVIOUS
  <1>2. UsbOK(v) /\ Dropped(u, v)
    BY <1>1, InCompleteOkOK
  <1>3. PICK x : x = IF SubSeq(u.log, u.consumed + 1, v.consumed) = (IF received = PongPacket THEN << >> ELSE received)
                       THEN v.skewed ELSE TRUE
    OBVIOUS
  <1>4. x \in BOOLEAN
    BY <1>2, <1>3 DEF UsbOK, FlagsOK
  <1>5. Completion(u, actual, received, ok) = [v EXCEPT !.skewed = x]
    BY <1>1, <1>3 DEF Completion
  <1>6. FlagsOK(Completion(u, actual, received, ok)) /\ SameRing(v, Completion(u, actual, received, ok))
    BY <1>2, <1>4, <1>5 DEF UsbOK, FlagsOK, UsbFields, SameRing
  <1>7. QED
    BY <1>2, <1>6, SameRingOK DEF UsbOK, SameRing, Dropped

(* A restart: the ring was emptied and perhaps took the init packet. *)
Restarted(v) ==
  NoRing(v) \/ (Contents(v.tx) = InitPacket /\ v.log = InitPacket)

(* gateway_usb_out_complete: nothing, the init packet, or a restart. *)
LEMMA OutCompleteOK ==
  ASSUME NEW u, UsbOK(u), NEW packet \in {"PING", "CFG1", "short", "other", "error"},
         NEW pongOk, NEW kickOk, NEW outOk
  PROVE  LET v == OutComplete(u, packet, pongOk, kickOk, outOk)
         IN UsbOK(v) /\ (SameRing(u, v) \/ Appended(u, v, InitPacket) \/ Restarted(v))
  <1> DEFINE o == OutComplete(u, packet, pongOk, kickOk, outOk)
  <1>1. CASE packet = "error"
    <2>1. o = [u EXCEPT !.outReq = FALSE]
      BY <1>1 DEF OutComplete
    <2>2. FlagsOK(o) /\ SameRing(u, o)
      BY <2>1 DEF UsbOK, FlagsOK, UsbFields, SameRing
    <2>3. QED
      BY <2>2, SameRingOK DEF UsbOK
  <1>2. PICK v : v = [u EXCEPT !.outReq = FALSE, !.hostReady = TRUE]
    OBVIOUS
  <1>3. FlagsOK(v) /\ SameRing(u, v)
    BY <1>2 DEF UsbOK, FlagsOK, UsbFields, SameRing
  <1>4. UsbOK(v)
    BY <1>3, SameRingOK DEF UsbOK
  <1>5. CASE packet \in {"short", "CFG1"}
    <2>1. o = QueueOut(v, outOk)
      BY <1>2, <1>5 DEF OutComplete
    <2>2. QED
      BY <1>3, <1>4, <2>1, QueueOutOK DEF SameRing
  <1>6. CASE packet \in {"PING", "other"}
    <2>1. PICK w : w = IF packet = "PING" THEN ResetStreamSession(v) ELSE v
      OBVIOUS
    <2>2. UsbOK(w) /\ (SameRing(u, w) \/ NoRing(w))
      BY <1>3, <1>4, <2>1, ResetStreamSessionOK
    <2>3. PICK x : x = SendPong(w, pongOk)
      OBVIOUS
    <2>4. UsbOK(x) /\ SameRing(w, x)
      BY <2>2, <2>3, SendPongOK
    <2>5. PICK y : y = EnqueueInitAndKick(x, kickOk)
      OBVIOUS
    <2>6. UsbOK(y) /\ (SameRing(x, y) \/ Appended(x, y, InitPacket))
      BY <2>4, <2>5, EnqueueInitAndKickOK
    <2>7. o = QueueOut(y, outOk)
      BY <1>2, <1>6, <2>1, <2>3, <2>5 DEF OutComplete
    <2>8. UsbOK(o) /\ SameRing(y, o)
      BY <2>6, <2>7, QueueOutOK
    <2>9. CASE SameRing(u, w)
      BY <2>4, <2>6, <2>8, <2>9 DEF SameRing, Appended
    <2>10. CASE NoRing(w)
      <3>1. << >> \o InitPacket = InitPacket
        BY DEF InitPacket
      <3>2. Restarted(o)
        BY <2>4, <2>6, <2>8, <2>10, <3>1 DEF SameRing, Appended, NoRing, Restarted
      <3>3. QED
        BY <2>8, <3>2
    <2>11. QED
      BY <2>2, <2>9, <2>10
  <1>7. QED
    BY <1>1, <1>5, <1>6

-----------------------------------------------------------------------------
(* What a step may do to the ring and its history. *)
RingStep(u, v) ==
  \/ SameRing(u, v)
  \/ Dropped(u, v)
  \/ Restarted(v)
  \/ \E p \in UsbPacket : Appended(u, v, p)

(* The init packet is one of the packets. *)
LEMMA InitIsPacket ==
  ASSUME NEW u, NEW v, Appended(u, v, InitPacket)
  PROVE  RingStep(u, v)
  BY DEF RingStep, UsbPacket

(* The steps of the bus, one by one. *)
LEMMA HostReadsOK ==
  ASSUME UsbOK(usb), HostReads
  PROVE  UsbOK(usb') /\ RingStep(usb, usb')
  <1>1. PICK actual \in 1 .. Len(usb.inReq), ok \in BOOLEAN :
          usb' = Completion([usb EXCEPT !.inReq = << >>], actual,
                            SubSeq(usb.buf, 1, MinOf(actual, Len(usb.buf))), ok)
    BY DEF HostReads
  <1>2. PICK v : v = [usb EXCEPT !.inReq = << >>]
    OBVIOUS
  <1>3. FlagsOK(v) /\ SameRing(usb, v)
    BY <1>2 DEF UsbOK, FlagsOK, UsbFields, SameRing
  <1>4. UsbOK(v)
    BY <1>3, SameRingOK DEF UsbOK
  <1>5. actual \in Nat
    BY <1>1 DEF UsbOK, FlagsOK
  <1>6. UsbOK(usb') /\ Dropped(v, usb')
    BY <1>1, <1>2, <1>4, <1>5, CompletionOK
  <1>7. QED
    BY <1>3, <1>6 DEF SameRing, Dropped, RingStep

(* A bulk-IN transfer that completes with an error.                        *)
LEMMA InFailsOK ==
  ASSUME UsbOK(usb), InFails
  PROVE  UsbOK(usb') /\ RingStep(usb, usb')
  <1>1. PICK v : v = [usb EXCEPT !.inReq = << >>]
    OBVIOUS
  <1>2. FlagsOK(v) /\ SameRing(usb, v)
    BY <1>1 DEF UsbOK, FlagsOK, UsbFields, SameRing
  <1>3. UsbOK(v)
    BY <1>2, SameRingOK DEF UsbOK
  <1>4. UsbOK(usb') /\ (SameRing(v, usb') \/ NoRing(usb'))
    BY <1>1, <1>3, InCompleteErrorOK DEF InFails
  <1>5. QED
    BY <1>2, <1>4 DEF SameRing, RingStep, Restarted

(* The completion of a request that was cancelled before.                  *)
LEMMA LateCompletionOK ==
  ASSUME UsbOK(usb), LateCompletion
  PROVE  UsbOK(usb') /\ RingStep(usb, usb')
  <1>1. PICK v : v = [usb EXCEPT !.late = FALSE]
    OBVIOUS
  <1>2. FlagsOK(v) /\ SameRing(usb, v)
    BY <1>1 DEF UsbOK, FlagsOK, UsbFields, SameRing
  <1>3. UsbOK(v)
    BY <1>2, SameRingOK DEF UsbOK
  <1>4. PICK ok \in BOOLEAN : usb' \in {InCompleteError(v), Completion(v, 0, << >>, ok)}
    BY <1>1 DEF LateCompletion
  <1>5. CASE usb' = InCompleteError(v)
    <2>1. UsbOK(usb') /\ (SameRing(v, usb') \/ NoRing(usb'))
      BY <1>3, <1>5, InCompleteErrorOK
    <2>2. QED
      BY <1>2, <2>1 DEF SameRing, RingStep, Restarted
  <1>6. CASE usb' = Completion(v, 0, << >>, ok)
    <2>1. 0 \in Nat
      OBVIOUS
    <2>2. UsbOK(usb') /\ Dropped(v, usb')
      BY <1>3, <1>6, <2>1, CompletionOK
    <2>3. QED
      BY <1>2, <2>2 DEF SameRing, Dropped, RingStep
  <1>7. QED
    BY <1>4, <1>5, <1>6

(* Every callback keeps UsbOK and makes a legal step of the ring. *)
LEMMA BusNextOK ==
  ASSUME UsbOK(usb), BusNext
  PROVE  UsbOK(usb') /\ RingStep(usb, usb')
  <1>1. CASE HostReads
    BY <1>1, HostReadsOK
  <1>2. CASE InFails
    BY <1>2, InFailsOK
  <1>3. CASE LateCompletion
    BY <1>3, LateCompletionOK
  <1>4. CASE HostWrites
    <2>1. PICK packet \in {"PING", "CFG1", "short", "other", "error"}, pongOk \in BOOLEAN,
               kickOk \in BOOLEAN, outOk \in BOOLEAN :
            usb' = OutComplete(usb, packet, pongOk, kickOk, outOk)
      BY <1>4 DEF HostWrites
    <2>2. UsbOK(usb') /\ (SameRing(usb, usb') \/ Appended(usb, usb', InitPacket) \/ Restarted(usb'))
      BY <2>1, OutCompleteOK
    <2>3. QED
      BY <2>2, InitIsPacket DEF RingStep
  <1>5. CASE SetAlt
    <2>1. PICK result \in SetAltResult, ok \in BOOLEAN : usb' = FunctionSetAlt(usb, result, ok)
      BY <1>5 DEF SetAlt
    <2>2. QED
      BY <2>1, FunctionSetAltOK DEF RingStep, Restarted
  <1>6. CASE Disable
    BY <1>6, FunctionDisableOK DEF Disable, RingStep, Restarted
  <1>7. CASE DisconnectOrSuspend
    BY <1>7, BusLostOK DEF DisconnectOrSuspend, RingStep, Restarted
  <1>8. QED
    BY <1>1, <1>2, <1>3, <1>4, <1>5, <1>6, <1>7 DEF BusNext

-----------------------------------------------------------------------------
(* The fields of task, and the places it can be at. *)
TaskFields == {"pc", "job", "len", "payload", "stall"}

TaskPcs == {"force", "setalt", "retry", "putInit", "markInit", "kick", "peek", "arm",
            "queue", "watch", "cancel", "clear", "unmark", "poll", "putMedia"}

(* The task's locals, and: a media packet is only built from a frame that  *)
(* the upstream has delivered.                                             *)
TaskOK ==
  /\ DOMAIN task = TaskFields
  /\ task.pc \in TaskPcs
  /\ task.job \in {"retry", "media"}
  /\ task.len \in 0 .. Chunk
  /\ task.payload \in PayloadLens \cup {0}
  /\ task.stall \in 0 .. StallTicks
  /\ media \in 0 .. MaxMedia
  /\ events \in 0 .. MaxEvents
  /\ task.job = "media" => media \in 1 .. MaxMedia /\ task.payload \in PayloadLens
  /\ task.pc = "putMedia" => task.job = "media"

(* The inductive invariant. *)
UsbInv == UsbOK(usb) /\ TaskOK

(* A callback does not touch the task's locals. *)
LEMMA BusTaskOK ==
  ASSUME TaskOK, BusNext
  PROVE  TaskOK'
  <1>1. task' = task /\ media' = media
    BY DEF BusNext, HostReads, InFails, LateCompletion, HostWrites, SetAlt, Disable,
           DisconnectOrSuspend, Callback
  <1>2. events' \in 0 .. MaxEvents
    BY UsbAssumption DEF TaskOK, BusNext, HostReads, InFails, LateCompletion, HostWrites, SetAlt,
           Disable, DisconnectOrSuspend, Event, EventIf
  <1>3. QED
    BY <1>1, <1>2 DEF TaskOK

(* Every step of the task keeps its locals typed. *)
LEMMA TaskNextTaskOK ==
  ASSUME TaskOK, UsbOK(usb), TaskNext
  PROVE  TaskOK'
  <1> USE UsbAssumption DEF TaskOK, TaskFields, TaskPcs, Goto, AfterJob
  <1>1. CASE TaskForce
    BY <1>1 DEF TaskForce
  <1>2. CASE TaskSetAlt
    BY <1>2 DEF TaskSetAlt, EventIf, Event
  <1>3. CASE TaskRetry
    BY <1>3 DEF TaskRetry
  <1>4. CASE TaskPutInit
    BY <1>4 DEF TaskPutInit
  <1>5. CASE TaskMarkInit
    BY <1>5 DEF TaskMarkInit
  <1>6. CASE TaskKick
    BY <1>6 DEF TaskKick
  <1>7. CASE TaskPeek
    <2>1. PICK n \in 0 .. Chunk : n = Len(PeekChunk(usb.tx, Chunk))
      BY PeekChunkOK
    <2>2. \/ task' = [task EXCEPT !.pc = AfterJob]
          \/ task' = [task EXCEPT !.pc = "arm", !.len = n]
      BY <1>7, <2>1 DEF TaskPeek
    <2>3. media' = media /\ events' = events
      BY <1>7 DEF TaskPeek
    <2>4. QED
      BY <2>2, <2>3
  <1>8. CASE TaskArm
    BY <1>8 DEF TaskArm
  <1>9. CASE TaskQueue
    BY <1>9 DEF TaskQueue, EventIf, Event
  <1>10. CASE TaskWatch
    <2>1. \/ task' = [task EXCEPT !.pc = "poll", !.stall = 0]
          \/ \E t \in task.stall + 1 .. StallTicks :
               task' = [task EXCEPT !.stall = t, !.pc = IF t = StallTicks THEN "cancel" ELSE "poll"]
      BY <1>10 DEF TaskWatch
    <2>2. media' = media /\ events' = events
      BY <1>10 DEF TaskWatch
    <2>3. ASSUME NEW t \in task.stall + 1 .. StallTicks, NEW pc \in {"cancel", "poll"},
                 task' = [task EXCEPT !.stall = t, !.pc = pc]
          PROVE  TaskOK'
      <3>1. t \in 0 .. StallTicks
        OBVIOUS
      <3>2. QED
        BY <2>2, <2>3, <3>1
    <2>4. CASE task' = [task EXCEPT !.pc = "poll", !.stall = 0]
      BY <2>2, <2>4
    <2>5. QED
      BY <2>1, <2>3, <2>4
  <1>11. CASE TaskCancel
    BY <1>11 DEF TaskCancel
  <1>12. CASE TaskClear
    BY <1>12 DEF TaskClear
  <1>13. CASE TaskUnmark
    BY <1>13 DEF TaskUnmark
  <1>14. CASE TaskPoll
    <2>1. events' = events
      BY <1>14 DEF TaskPoll
    <2>2. CASE task' = [task EXCEPT !.pc = "force"] /\ media' \in {media, media + 1} /\ media' <= MaxMedia
      BY <2>1, <2>2
    <2>3. ASSUME NEW len \in PayloadLens, NEW pc \in {"putMedia", "putInit"},
                 task' = [task EXCEPT !.job = "media", !.payload = len, !.pc = pc],
                 media' = media + 1, media < MaxMedia
          PROVE  TaskOK'
      BY <2>1, <2>3
    <2>4. \/ \E len \in PayloadLens :
               task' = [task EXCEPT !.job = "media", !.payload = len,
                                    !.pc = IF usb.initSent THEN "putMedia" ELSE "putInit"]
               /\ media < MaxMedia /\ media' = media + 1
          \/ /\ task' = [task EXCEPT !.pc = "force"]
             /\ media' = media \/ (media < MaxMedia /\ media' = media + 1)
      BY <1>14, Zenon DEF TaskPoll, Goto
    <2>5. ASSUME NEW len \in PayloadLens,
                 task' = [task EXCEPT !.job = "media", !.payload = len,
                                      !.pc = IF usb.initSent THEN "putMedia" ELSE "putInit"],
                 media < MaxMedia, media' = media + 1
          PROVE  TaskOK'
      <3>1. PICK pc \in {"putMedia", "putInit"} : pc = IF usb.initSent THEN "putMedia" ELSE "putInit"
        OBVIOUS
      <3>2. QED
        BY <2>3, <2>5, <3>1
    <2>6. CASE /\ task' = [task EXCEPT !.pc = "force"]
               /\ media' = media \/ (media < MaxMedia /\ media' = media + 1)
      BY <2>2, <2>6
    <2>7. QED
      BY <2>4, <2>5, <2>6
  <1>15. CASE TaskPutMedia
    BY <1>15 DEF TaskPutMedia, EventIf, Event
  <1>16. QED
    BY <1>1, <1>2, <1>3, <1>4, <1>5, <1>6, <1>7, <1>8, <1>9, <1>10, <1>11, <1>12, <1>13, <1>14, <1>15
       DEF TaskNext

(* A step that writes flags only. *)
LEMMA FlagChangeOK ==
  ASSUME NEW u, NEW v, UsbOK(u), FlagsOK(v), SameRing(u, v)
  PROVE  UsbOK(v) /\ RingStep(u, v)
  BY SameRingOK DEF UsbOK, RingStep

(* A media packet consists of bytes. *)
LEMMA MediaIsBytes ==
  ASSUME NEW n \in Nat, NEW len \in Nat
  PROVE  MediaHeader(n, len) \in Seq(Byte) /\ MediaPayload(n, len) \in Seq(Byte)
  <1>1. <<n, 1, len + 1>> \in Byte /\ \A i \in 1 .. len : <<n, i + 1, len + 1>> \in Byte
    BY DEF Byte
  <1>2. QED
    BY <1>1 DEF MediaHeader, MediaPayload

(* Every step of the task keeps UsbOK and makes a legal step of the ring. *)
LEMMA TaskNextUsbOK ==
  ASSUME UsbOK(usb), TaskOK, TaskNext
  PROVE  UsbOK(usb') /\ RingStep(usb, usb')
  <1>1. ASSUME usb' = usb PROVE UsbOK(usb') /\ RingStep(usb, usb')
    BY <1>1 DEF RingStep, SameRing
  <1>2. CASE TaskForce \/ TaskRetry \/ TaskKick \/ TaskPoll
    BY <1>1, <1>2 DEF TaskForce, TaskRetry, TaskKick, TaskPoll
  <1>3. CASE TaskSetAlt
    <2>1. PICK result \in SetAltResult, ok \in BOOLEAN : usb' = FunctionSetAlt(usb, result, ok)
      BY <1>3 DEF TaskSetAlt
    <2>2. QED
      BY <2>1, FunctionSetAltOK DEF RingStep, Restarted
  <1>4. CASE TaskPutInit
    <2>1. usb' = TxEnqueue(usb, InitPacket, << >>)
      BY <1>4 DEF TaskPutInit
    <2>2. UsbOK(usb') /\ (SameRing(usb, usb') \/ Appended(usb, usb', InitPacket))
      BY <2>1, InitIsBytes, TxEnqueueOK
    <2>3. QED
      BY <2>2, InitIsPacket DEF RingStep
  <1>5. CASE TaskMarkInit
    <2>1. FlagsOK(usb') /\ SameRing(usb, usb')
      BY <1>5 DEF TaskMarkInit, UsbOK, FlagsOK, UsbFields, SameRing
    <2>2. QED
      BY <2>1, FlagChangeOK
  <1>6. CASE TaskPeek
    <2>1. PICK chunk \in Seq(Byte) : chunk = PeekChunk(usb.tx, Chunk)
      BY PeekChunkOK
    <2>2. usb' = usb \/ usb' = [usb EXCEPT !.buf = chunk]
      BY <1>6, <2>1 DEF TaskPeek
    <2>3. FlagsOK(usb') /\ SameRing(usb, usb')
      BY <2>2 DEF UsbOK, FlagsOK, UsbFields, SameRing
    <2>4. QED
      BY <2>3, FlagChangeOK
  <1>7. CASE TaskArm
    <2>1. PICK n \in 0 .. Chunk : n = task.len
      BY DEF TaskOK
    <2>2. usb' = [usb EXCEPT !.inBusy = TRUE, !.inFlight = n]
      BY <1>7, <2>1 DEF TaskArm
    <2>3. FlagsOK(usb') /\ SameRing(usb, usb')
      BY <2>2 DEF UsbOK, FlagsOK, UsbFields, SameRing
    <2>4. QED
      BY <2>3, FlagChangeOK
  <1>8. CASE TaskQueue
    <2>1. \/ usb' = [usb EXCEPT !.inReq = usb.buf]
          \/ usb' = [usb EXCEPT !.inBusy = FALSE, !.inFlight = 0]
      BY <1>8 DEF TaskQueue
    <2>2. CASE usb' = [usb EXCEPT !.inReq = usb.buf]
      <3>1. PICK b \in Seq(Byte) : b = usb.buf
        BY DEF UsbOK, FlagsOK
      <3>2. FlagsOK(usb') /\ SameRing(usb, usb')
        BY <2>2, <3>1 DEF UsbOK, FlagsOK, UsbFields, SameRing
      <3>3. QED
        BY <3>2, FlagChangeOK
    <2>3. CASE usb' = [usb EXCEPT !.inBusy = FALSE, !.inFlight = 0]
      <3>1. FlagsOK(usb') /\ SameRing(usb, usb')
        BY <2>3, UsbAssumption DEF UsbOK, FlagsOK, UsbFields, SameRing
      <3>2. QED
        BY <3>1, FlagChangeOK
    <2>4. QED
      BY <2>1, <2>2, <2>3
  <1>9. CASE TaskWatch
    <2>1. usb' = usb \/ usb' = [usb EXCEPT !.progress = FALSE]
      BY <1>9 DEF TaskWatch
    <2>2. FlagsOK(usb') /\ SameRing(usb, usb')
      BY <2>1 DEF UsbOK, FlagsOK, UsbFields, SameRing
    <2>3. QED
      BY <2>2, FlagChangeOK
  <1>10. CASE TaskCancel
    BY <1>10, CancelInOK DEF TaskCancel, RingStep
  <1>11. CASE TaskClear
    BY <1>11, ClearRingOK DEF TaskClear, RingStep, Restarted
  <1>12. CASE TaskUnmark
    <2>1. FlagsOK(usb') /\ SameRing(usb, usb')
      BY <1>12 DEF TaskUnmark, UsbOK, FlagsOK, UsbFields, SameRing
    <2>2. QED
      BY <2>1, FlagChangeOK
  <1>13. CASE TaskPutMedia
    <2>1. media \in 1 .. MaxMedia /\ task.payload \in PayloadLens
      BY <1>13 DEF TaskPutMedia, TaskOK
    <2>7. media \in Nat /\ task.payload \in Nat
      <3>1. task.payload \in Nat
        BY <2>1, UsbAssumption, Zenon
      <3>2. MaxMedia \in Nat
        BY UsbAssumption
      <3>3. media \in Nat
        BY <2>1, <3>2
      <3>4. QED
        BY <3>1, <3>3
    <2>2. PICK a \in Seq(Byte), b \in Seq(Byte) :
            a = MediaHeader(media, task.payload) /\ b = MediaPayload(media, task.payload)
      BY <2>7, MediaIsBytes
    <2>3. usb' = usb \/ usb' = TxEnqueue(usb, a, b)
      BY <1>13, <2>2 DEF TaskPutMedia
    <2>4. a \o b \in UsbPacket
      <3>1. MediaHeader(media, task.payload) \o MediaPayload(media, task.payload) \in UsbPacket
        BY <2>1, SMTT(30) DEF UsbPacket
      <3>2. QED
        BY <2>2, <3>1, Zenon
    <2>5. UsbOK(usb') /\ (SameRing(usb, usb') \/ Appended(usb, usb', a \o b))
      <3>1. /\ UsbOK(TxEnqueue(usb, a, b))
            /\ SameRing(usb, TxEnqueue(usb, a, b)) \/ Appended(usb, TxEnqueue(usb, a, b), a \o b)
        BY TxEnqueueOK, Zenon
      <3>2. SameRing(usb, usb)
        BY DEF SameRing
      <3>3. QED
        BY <2>3, <3>1, <3>2
    <2>6. QED
      BY <2>4, <2>5 DEF RingStep
  <1>14. QED
    BY <1>2, <1>3, <1>4, <1>5, <1>6, <1>7, <1>8, <1>9, <1>10, <1>11, <1>12, <1>13 DEF TaskNext

(* The invariant holds at first ... *)
LEMMA InvInit == Init => UsbInv
  <1> SUFFICES ASSUME Init PROVE UsbInv
    OBVIOUS
  <1>1. PICK m \in [Slot -> Byte] : m = [p \in Slot |-> InitPacket[1]]
    BY InitIsBytes DEF InitPacket, Byte
  <1>2. PICK r : r = [mem |-> m, head |-> 0, tail |-> 0, count |-> 0]
    OBVIOUS
  <1>3. Wrap(0) = 0
    BY RingSizeAssumption, WrapOnce
  <1>4. r \in RingOf(Byte) /\ WellFormed(r) /\ Contents(r) = << >> /\ r.count = 0
    BY <1>2, <1>3, RingSizeAssumption DEF RingOf, Slot, WellFormed, Contents
  <1>5. usb.tx = r /\ usb.log = << >> /\ usb.consumed = 0
    BY <1>1, <1>2 DEF Init, UsbInit
  <1>6. RingOK(usb)
    BY <1>4, <1>5 DEF RingOK
  <1>7. FlagsOK(usb)
    BY UsbAssumption DEF Init, UsbInit, FlagsOK, UsbFields
  <1>8. TaskOK
    BY UsbAssumption DEF Init, TaskOK, TaskFields, TaskPcs
  <1>9. QED
    BY <1>6, <1>7, <1>8 DEF UsbInv, UsbOK

(* ... and is kept by every step, each of which is a legal step of the     *)
(* ring.                                                                   *)
LEMMA InvNext == UsbInv /\ [Next]_vars => UsbInv' /\ RingStep(usb, usb')
  <1> SUFFICES ASSUME UsbInv, [Next]_vars PROVE UsbInv' /\ RingStep(usb, usb')
    OBVIOUS
  <1>1. CASE BusNext
    BY <1>1, BusNextOK, BusTaskOK DEF UsbInv
  <1>2. CASE TaskNext
    BY <1>2, TaskNextUsbOK, TaskNextTaskOK DEF UsbInv
  <1>3. CASE UNCHANGED vars
    BY <1>3 DEF vars, UsbInv, TaskOK, RingStep, SameRing
  <1>4. QED
    BY <1>1, <1>2, <1>3 DEF Next

(* The inductive invariant holds in every reachable state of the firmware. *)
THEOREM InductiveInvariant == Spec => []UsbInv
  BY InvInit, InvNext, PTL DEF Spec

(* The transmit ring of the firmware is a FIFO: head, tail and count never *)
(* lose, repeat or reorder a byte, for every ring size and whatever        *)
(* completions, cancellations and resets come in between.                  *)
THEOREM RingIsFifoAlways == Spec => []RingIsFifo
  <1>1. UsbInv => RingIsFifo
    BY DEF UsbInv, UsbOK, RingOK, RingIsFifo
  <1>2. QED
    BY <1>1, InductiveInvariant, PTL

(* Type correctness: count stays within the ring, in_flight_len within the *)
(* IN chunk, the task's locals within their ranges.                        *)
THEOREM TypeCorrect == Spec => []TypeOK
  <1>1. UsbInv => TypeOK
    <2> SUFFICES ASSUME UsbInv PROVE TypeOK
      OBVIOUS
    <2>1. \A f \in {"configured", "hostReady", "initSent", "inBusy", "resetting",
                    "progress", "late", "outReq", "skewed"} : usb[f] \in BOOLEAN
      BY DEF UsbInv, UsbOK, FlagsOK
    <2>2. \A f \in {"buf", "inReq", "log"} : usb[f] \in Seq(Byte)
      BY DEF UsbInv, UsbOK, FlagsOK, RingOK
    <2>3. QED
      BY <2>1, <2>2 DEF TypeOK, UsbInv, UsbOK, FlagsOK, RingOK, TaskOK, TaskPcs
  <1>2. QED
    BY <1>1, InductiveInvariant, PTL

-----------------------------------------------------------------------------
(* WholePackets as a predicate of a log. *)
Whole(log) ==
  \A i \in DOMAIN log :
    LET pkt == log[i][1]  ix == log[i][2]  len == log[i][3]
    IN /\ ix > 1   => i > 1 /\ log[i - 1] = <<pkt, ix - 1, len>>
       /\ ix < len => i < Len(log) /\ log[i + 1] = <<pkt, ix + 1, len>>

(* The ring implements the bounded FIFO of whole packets: every callback   *)
(* and every step of the task is a step of PacketFifo on the ring's        *)
(* contents, or leaves them alone.                                         *)
THEOREM ImplementsFifo == Spec => RingImplementsFifo
  <1>1. Init => Fifo!Init
    <2> SUFFICES ASSUME Init PROVE Contents(usb.tx) = << >>
      BY DEF Fifo!Init
    <2>1. usb.tx.count = 0
      BY DEF Init, UsbInit
    <2>2. QED
      BY <2>1 DEF Contents
  <1>2. UsbInv /\ UsbInv' /\ RingStep(usb, usb') => [Fifo!Next]_(Contents(usb.tx))
    <2> SUFFICES ASSUME UsbInv, UsbInv', RingStep(usb, usb')
                 PROVE  [Fifo!Next]_(Contents(usb.tx))
      OBVIOUS
    <2>1. PICK q : q = Contents(usb.tx)
      OBVIOUS
    <2>2. q \in Seq(Byte) /\ Len(q) = usb.tx.count /\ Len(q) \in Nat
      <3>1. PICK r \in RingOf(Byte) : r = usb.tx
        BY DEF UsbInv, UsbOK, RingOK
      <3>2. Contents(r) \in Seq(Byte) /\ Len(Contents(r)) = r.count /\ r.count \in Nat
        BY ContentsIsSeq, RingParts
      <3>3. QED
        BY <2>1, <3>1, <3>2
    <2>3. CASE SameRing(usb, usb')
      BY <2>3 DEF SameRing
    <2>4. CASE Dropped(usb, usb')
      <3>1. PICK n \in 0 .. Len(q) : Contents(usb'.tx) = SubSeq(q, n + 1, Len(q))
        BY <2>1, <2>4 DEF Dropped
      <3>2. CASE n = 0
        <4>1. SubSeq(q, 1, Len(q)) = q
          BY <2>2
        <4>2. QED
          BY <2>1, <3>1, <3>2, <4>1
      <3>3. CASE n # 0
        <4>1. n \in 1 .. Len(q)
          BY <2>2, <3>3
        <4>2. Fifo!TakeBytes
          BY <2>1, <3>1, <4>1 DEF Fifo!TakeBytes
        <4>3. QED
          BY <4>2 DEF Fifo!Next
      <3>4. QED
        BY <3>2, <3>3
    <2>5. CASE Restarted(usb')
      <3>1. Fifo!Clear \/ Contents(usb'.tx) = InitPacket
        BY <2>5 DEF Restarted, NoRing, Fifo!Clear
      <3>2. InitPacket \in UsbPacket /\ Len(InitPacket) <= RingSize
        BY RingSizeAssumption DEF UsbPacket, InitPacket
      <3>3. Fifo!Clear \/ Fifo!Restart
        BY <3>1, <3>2 DEF Fifo!Restart
      <3>4. QED
        BY <3>3 DEF Fifo!Next
    <2>6. CASE \E p \in UsbPacket : Appended(usb, usb', p)
      <3>1. PICK p \in UsbPacket : Appended(usb, usb', p)
        BY <2>6
      <3>2. Contents(usb'.tx) = q \o p /\ Len(q) + Len(p) <= RingSize
        BY <2>1, <2>2, <3>1 DEF Appended
      <3>3. Fifo!PutPacket
        BY <2>1, <3>2 DEF Fifo!PutPacket
      <3>4. QED
        BY <3>3 DEF Fifo!Next
    <2>7. QED
      BY <2>3, <2>4, <2>5, <2>6 DEF RingStep
  <1>3. QED
    BY <1>1, <1>2, InductiveInvariant, InvNext, PTL DEF Spec, RingImplementsFifo, Fifo!Spec

(* Whole packets after whole packets. *)
LEMMA WholeAppend ==
  ASSUME NEW s \in Seq(Byte), NEW d \in Seq(Byte), Whole(s), Whole(d)
  PROVE  Whole(s \o d)
  <1>1. PICK n \in Nat, m \in Nat : n = Len(s) /\ m = Len(d)
    OBVIOUS
  <1>2. PICK t \in Seq(Byte) : t = s \o d
    BY ConcatParts
  <1>3. Len(t) = n + m /\ \A i \in 1 .. n + m : t[i] = IF i <= n THEN s[i] ELSE d[i - n]
    BY <1>1, <1>2, ConcatParts
  <1>4. ASSUME NEW i \in 1 .. n + m
        PROVE  /\ t[i][2] > 1 => i > 1 /\ t[i - 1] = <<t[i][1], t[i][2] - 1, t[i][3]>>
               /\ t[i][2] < t[i][3] => i < n + m /\ t[i + 1] = <<t[i][1], t[i][2] + 1, t[i][3]>>
    <2>1. CASE i <= n
      <3>1. t[i] = s[i] /\ i \in DOMAIN s /\ (i > 1 => t[i - 1] = s[i - 1])
            /\ (i < n => t[i + 1] = s[i + 1]) /\ i \in Nat
        BY <1>1, <1>3, <2>1
      <3>2. /\ s[i][2] > 1 => i > 1 /\ s[i - 1] = <<s[i][1], s[i][2] - 1, s[i][3]>>
            /\ s[i][2] < s[i][3] => i < n /\ s[i + 1] = <<s[i][1], s[i][2] + 1, s[i][3]>>
        BY <1>1, <3>1 DEF Whole
      <3>3. i < n => i < n + m
        BY <1>1
      <3>4. QED
        BY <3>1, <3>2, <3>3
    <2>2. CASE ~(i <= n)
      <3>0. i - n \in 1 .. m
        BY <1>1, <2>2
      <3>1. PICK j \in 1 .. m : j = i - n
        BY <3>0
      <3>2. t[i] = d[j] /\ j \in DOMAIN d /\ (j > 1 => i > 1 /\ t[i - 1] = d[j - 1])
            /\ (j < m => i < n + m /\ t[i + 1] = d[j + 1]) /\ j \in Nat
        <4>1. i - 1 - n = j - 1 /\ i + 1 - n = j + 1 /\ (j > 1 => ~(i - 1 <= n)) /\ ~(i + 1 <= n)
          BY <2>2, <3>1
        <4>2. t[i] = d[j] /\ j \in DOMAIN d /\ j \in Nat
          BY <1>1, <1>3, <2>2, <3>1
        <4>3. ASSUME j > 1 PROVE i > 1 /\ t[i - 1] = d[j - 1]
          <5>1. i - 1 \in 1 .. n + m /\ i > 1
            BY <1>1, <2>2, <3>1, <4>3
          <5>2. QED
            BY <1>3, <4>1, <4>3, <5>1, Zenon
        <4>4. ASSUME j < m PROVE i < n + m /\ t[i + 1] = d[j + 1]
          <5>1. i + 1 \in 1 .. n + m /\ i < n + m
            BY <1>1, <2>2, <3>1, <4>4
          <5>2. t[i + 1] = IF i + 1 <= n THEN s[i + 1] ELSE d[i + 1 - n]
            BY <1>3, <5>1
          <5>3. t[i + 1] = d[i + 1 - n]
            BY <4>1, <5>2
          <5>4. QED
            BY <4>1, <5>1, <5>3
        <4>5. QED
          BY <4>2, <4>3, <4>4
      <3>3. /\ d[j][2] > 1 => j > 1 /\ d[j - 1] = <<d[j][1], d[j][2] - 1, d[j][3]>>
            /\ d[j][2] < d[j][3] => j < m /\ d[j + 1] = <<d[j][1], d[j][2] + 1, d[j][3]>>
        BY <1>1, <3>2 DEF Whole
      <3>4. QED
        BY <3>2, <3>3
    <2>3. QED
      BY <2>1, <2>2
  <1>5. DOMAIN t = 1 .. n + m
    BY <1>2, <1>3
  <1>6. QED
    BY <1>2, <1>3, <1>4, <1>5 DEF Whole

(* A packet is whole. *)
LEMMA PacketIsWhole ==
  ASSUME NEW p \in UsbPacket
  PROVE  p \in Seq(Byte) /\ Whole(p)
  <1>1. CASE p = InitPacket
    <2>1. DOMAIN p = {1} /\ p[1] = <<0, 1, 1>>
      BY <1>1 DEF InitPacket
    <2>2. Whole(p)
      BY <2>1 DEF Whole
    <2>3. QED
      BY <1>1, <2>2, InitIsBytes
  <1>2. ASSUME NEW n \in 1 .. MaxMedia, NEW len \in PayloadLens,
               p = MediaHeader(n, len) \o MediaPayload(n, len)
        PROVE  p \in Seq(Byte) /\ Whole(p)
    <2>1. n \in Nat /\ len \in Nat
      <3>1. MaxMedia \in Nat
        BY UsbAssumption
      <3>2. len \in Nat
        BY UsbAssumption, Zenon
      <3>3. QED
        BY <3>1, <3>2
    <2>2. PICK a \in Seq(Byte), b \in Seq(Byte) : a = MediaHeader(n, len) /\ b = MediaPayload(n, len)
      BY <2>1, MediaIsBytes
    <2>3. Len(a) = 1 /\ Len(b) = len /\ a[1] = <<n, 1, len + 1>> /\ \A i \in 1 .. len : b[i] = <<n, i + 1, len + 1>>
      BY <2>1, <2>2 DEF MediaHeader, MediaPayload
    <2>4. /\ p \in Seq(Byte) /\ Len(p) = 1 + len
          /\ \A i \in 1 .. 1 + len : p[i] = IF i <= 1 THEN a[i] ELSE b[i - 1]
      <3>1. /\ a \o b \in Seq(Byte) /\ Len(a \o b) = Len(a) + Len(b)
            /\ \A i \in 1 .. Len(a) + Len(b) : (a \o b)[i] = IF i <= Len(a) THEN a[i] ELSE b[i - Len(a)]
        BY ConcatParts
      <3>2. p = a \o b
        BY <1>2, <2>2
      <3>3. QED
        BY <2>3, <3>1, <3>2, Zenon
    <2>5. \A i \in 1 .. 1 + len : p[i] = <<n, i, len + 1>>
      <3> TAKE i \in 1 .. 1 + len
      <3>1. p[i] = IF i <= 1 THEN a[i] ELSE b[i - 1]
        BY <2>4
      <3>2. CASE i = 1
        BY <2>3, <3>1, <3>2
      <3>3. CASE i # 1
        <4>1. i - 1 \in 1 .. len /\ (i - 1) + 1 = i /\ ~(i <= 1)
          BY <2>1, <3>3
        <4>2. QED
          BY <2>3, <3>1, <4>1
      <3>4. QED
        BY <3>2, <3>3
    <2>6. Whole(p)
      <3>1. DOMAIN p = 1 .. 1 + len
        BY <2>4
      <3>2. ASSUME NEW i \in 1 .. 1 + len
            PROVE  /\ i > 1 => p[i - 1] = <<n, i - 1, len + 1>>
                   /\ i < len + 1 => i < Len(p) /\ p[i + 1] = <<n, i + 1, len + 1>>
        <4>1. ASSUME i > 1 PROVE p[i - 1] = <<n, i - 1, len + 1>>
          <5>1. PICK k \in 1 .. 1 + len : k = i - 1
            BY <2>1, <4>1
          <5>2. p[k] = <<n, k, len + 1>>
            BY <2>5, Zenon
          <5>3. QED
            BY <5>1, <5>2
        <4>2. ASSUME i < len + 1 PROVE i < Len(p) /\ p[i + 1] = <<n, i + 1, len + 1>>
          <5>1. PICK k \in 1 .. 1 + len : k = i + 1
            BY <2>1, <4>2
          <5>2. p[k] = <<n, k, len + 1>>
            BY <2>5, Zenon
          <5>3. i < Len(p)
            BY <2>1, <2>4, <4>2
          <5>4. QED
            BY <5>1, <5>2, <5>3
        <4>3. QED
          BY <4>1, <4>2
      <3>3. QED
        BY <2>5, <3>1, <3>2 DEF Whole
    <2>7. QED
      BY <2>4, <2>6
  <1>3. QED
    BY <1>1, <1>2 DEF UsbPacket

(* A full ring drops packets and never truncates one: what was accepted    *)
(* since the last reset is a sequence of whole packets                     *)
(* (gateway_usb_tx_enqueue_packet tests the space for header and payload   *)
(* at once, in one critical section).                                      *)
THEOREM WholePacketsAlways == Spec => []WholePackets
  <1>1. Init => Whole(usb.log)
    BY DEF Init, UsbInit, Whole
  <1>2. UsbInv /\ Whole(usb.log) /\ RingStep(usb, usb') => Whole(usb.log)'
    <2> SUFFICES ASSUME UsbInv, Whole(usb.log), RingStep(usb, usb') PROVE Whole(usb'.log)
      OBVIOUS
    <2>1. CASE SameRing(usb, usb') \/ Dropped(usb, usb')
      BY <2>1 DEF SameRing, Dropped
    <2>2. CASE Restarted(usb')
      <3>1. Whole(<< >>)
        BY DEF Whole
      <3>2. Whole(InitPacket)
        BY PacketIsWhole DEF UsbPacket
      <3>3. QED
        BY <2>2, <3>1, <3>2 DEF Restarted, NoRing
    <2>3. ASSUME NEW p \in UsbPacket, Appended(usb, usb', p) PROVE Whole(usb'.log)
      <3>1. PICK s \in Seq(Byte) : s = usb.log
        BY DEF UsbInv, UsbOK, RingOK
      <3>2. usb'.log = s \o p /\ Whole(s)
        BY <2>3, <3>1 DEF Appended
      <3>3. p \in Seq(Byte) /\ Whole(p)
        BY PacketIsWhole
      <3>4. QED
        BY <3>2, <3>3, WholeAppend
    <2>4. QED
      BY <2>1, <2>2, <2>3 DEF RingStep
  <1>3. Whole(usb.log) => WholePackets
    BY DEF Whole, WholePackets
  <1>4. QED
    BY <1>1, <1>2, <1>3, InductiveInvariant, InvNext, PTL DEF Spec
=============================================================================
