----------------------------- MODULE PacketFifo -----------------------------
(***************************************************************************)
(* What the firmware's transmit ring promises: a bounded queue of bytes    *)
(* into which whole packets are put, from whose front bytes are taken, and *)
(* which is emptied when the stream session restarts, possibly with the    *)
(* first packet of the new session already in it.                          *)
(***************************************************************************)
EXTENDS Integers, Sequences

CONSTANTS Capacity,  \* bytes the queue can hold
          Packet     \* the packets, as sequences of bytes

VARIABLE queue

Init == queue = <<>>

(* A packet goes in as a whole or not at all. *)
PutPacket ==
  \E p \in Packet :
    /\ Len(queue) + Len(p) <= Capacity
    /\ queue' = queue \o p

TakeBytes ==
  \E n \in 1 .. Len(queue) : queue' = SubSeq(queue, n + 1, Len(queue))

Clear == queue' = <<>>

Restart == \E p \in Packet : Len(p) <= Capacity /\ queue' = p

Next == PutPacket \/ TakeBytes \/ Clear \/ Restart

Spec == Init /\ [][Next]_queue
=============================================================================
