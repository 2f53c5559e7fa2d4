------------------------------- MODULE TxRing -------------------------------
(***************************************************************************)
(* The USB transmit ring of ameba_gateway/example_gateway_ameba.c          *)
(* (gateway_usb_tx_ring, _head, _tail, _count) as operators on a record.   *)
(* A ring is [mem, head, tail, count]; mem holds one byte per slot.  What  *)
(* the bytes are is left open.                                             *)
(***************************************************************************)
EXTENDS Integers, Sequences

CONSTANT RingSize   \* GATEWAY_AMEBA_USB_TX_RING_SIZE

ASSUME RingSizeAssumption == RingSize \in Nat \ {0}

Slot == 0 .. RingSize - 1

RingOf(Byte) ==
  [mem : [Slot -> Byte], head : Slot, tail : Slot, count : 0 .. RingSize]

(* Every index is taken modulo the ring size. *)
Wrap(x) == x % RingSize

MinOf(a, b) == IF a < b THEN a ELSE b

(* gateway_usb_tx_reset: the critical section that empties the ring.       *)
Cleared(r) == [mem |-> r.mem, head |-> 0, tail |-> 0, count |-> 0]

(* gateway_usb_tx_free_space                                               *)
FreeSpace(r) == RingSize - r.count

(* Mutant: the second memcpy starts at data instead of data + first. *)
MutRingWrite(mem, pos, data) ==
  LET first == MinOf(Len(data), RingSize - pos)
  IN [p \in Slot |->
        IF p < Len(data) - first            THEN data[p + 1]
        ELSE IF pos <= p /\ p < pos + first THEN data[p - pos + 1]
        ELSE mem[p]]

(* gateway_usb_tx_ring_write: the bytes up to the end of the array, then   *)
(* the rest from slot 0.                                                   *)
RingWrite(mem, pos, data) ==
  LET first  == MinOf(Len(data), RingSize - pos)
      second == Len(data) - first
  IN [p \in Slot |->
        IF p < second                   THEN data[first + p + 1]
        ELSE IF pos <= p /\ p < pos + first THEN data[p - pos + 1]
        ELSE mem[p]]

(* Writing data at the head and advancing head and count over it.          *)
Put(r, data) ==
  [mem   |-> RingWrite(r.mem, r.head, data),
   head  |-> Wrap(r.head + Len(data)),
   tail  |-> r.tail,
   count |-> r.count + Len(data)]

Fits(r, prefix, payload) == Len(prefix) + Len(payload) <= FreeSpace(r)

(* Mutant: header and payload are tested for space one by one. *)
MutEnqueuePacket(r, prefix, payload) ==
  LET PutIfFits(q, data) == IF Fits(q, data, <<>>) THEN Put(q, data) ELSE q
  IN PutIfFits(PutIfFits(r, prefix), payload)

(* gateway_usb_tx_enqueue_packet: all of header and payload, or nothing.   *)
EnqueuePacket(r, prefix, payload) ==
  IF Fits(r, prefix, payload) THEN Put(Put(r, prefix), payload) ELSE r

(* gateway_usb_tx_peek_chunk: at most max bytes from the tail, copied in   *)
(* the same two parts.                                                     *)
PeekChunk(r, max) ==
  LET first == RingSize - r.tail
  IN [i \in 1 .. MinOf(r.count, max) |->
        IF i <= first THEN r.mem[r.tail + i - 1] ELSE r.mem[i - first - 1]]

(* Mutant: the length is not clamped. *)
MutConsumeChunk(r, len) ==
  [mem |-> r.mem, head |-> r.head, tail |-> Wrap(r.tail + len), count |-> r.count - len]

(* gateway_usb_tx_consume_chunk: never more than the ring holds.           *)
ConsumeChunk(r, len) ==
  LET n == MinOf(len, r.count)
  IN [mem |-> r.mem, head |-> r.head, tail |-> Wrap(r.tail + n), count |-> r.count - n]

-----------------------------------------------------------------------------
(* What the ring stands for: the bytes from tail on, in order.             *)
Contents(r) == [i \in 1 .. r.count |-> r.mem[Wrap(r.tail + i - 1)]]

(* head is where the next byte goes: count bytes after tail.               *)
WellFormed(r) == r.head = Wrap(r.tail + r.count)
=============================================================================
