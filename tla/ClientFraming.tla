--------------------------- MODULE ClientFraming ---------------------------
(***************************************************************************)
(* The framing of the media stream (gateway_proto.c) and the way           *)
(* gateway_client reads it back (gateway_client.cpp 717-757, 1045-1191,    *)
(* 1553-1610) from a device whose stream can be cut: the firmware clears   *)
(* its ring in the middle of a packet and starts again with an init        *)
(* packet, drops whole packets when the ring is full, and                  *)
(* gateway_client_transport_usb_read_exact forgets what a transfer that    *)
(* timed out had already received.                                         *)
(*                                                                         *)
(* A token stands for a few bytes: the magic of a header, the rest of it,  *)
(* the cipher's header at the start of a payload, and further pieces of    *)
(* ciphertext.  Ciphertext never looks like a magic.  libusb hands over a  *)
(* stream (what does not fit into a transfer is kept for the next one, as  *)
(* WinUSB does).                                                           *)
(***************************************************************************)
EXTENDS Integers, Sequences, FiniteSets

CONSTANTS Lens,       \* lengths of payloads, in tokens
          Garbage,    \* lengths that a damaged header may show
          RingSize,   \* GATEWAY_AMEBA_USB_TX_RING_SIZE
          Packets,    \* bound on the media packets
          MaxFaults   \* bound on resets and timeouts

(* What the constants have to be: there is a longest length. *)
FramingAssumption ==
  /\ Lens \subseteq Nat \ {0} /\ Lens # {} /\ Garbage \subseteq Nat
  /\ \E max \in Lens \cup Garbage : \A len \in Lens \cup Garbage : len <= max
  /\ RingSize \in Nat /\ RingSize >= 2 /\ Packets \in Nat \ {0} /\ MaxFaults \in Nat

VARIABLES
  ring,     \* tokens the device has to send
  made,     \* media packets made so far
  book,     \* history: packets put into the ring, with start and length
  written,  \* history: tokens ever put into the ring
  client,   \* the reader: what it reads, buffer, header, prefetch
  out,      \* history: labels of the payloads handed on
  damaged,  \* history: labels handed on with a payload that is not theirs
  cut,      \* history: packets that lost tokens of their payload
  lost,     \* history: the offset in the stream of the last loss
  faults

vars == <<ring, made, book, written, client, out, damaged, cut, lost, faults>>

-----------------------------------------------------------------------------
(* gateway_proto_write_init, gateway_proto_write_media_header and the      *)
(* packets made with them.                                                 *)
HeaderSize == 2
Init0      == <<<<"init", 0, 1>>, <<"init", 0, 2>>>>
Header(n)  == <<<<"media", n, 1>>, <<"media", n, 2>>>>
Payload(n, len) == [i \in 1 .. len |-> <<"data", n, i>>]
DataIn(s)  == {s[i][2] : i \in {j \in DOMAIN s : s[j][1] = "data"}}

IsMagic(t) == t[1] \in {"init", "media"} /\ t[3] = 1

Reading(prefetch) == [pc |-> "header", buf |-> <<>>, n |-> 0, len |-> 0, prefetch |-> prefetch]

(* The start-up leaves what came behind the init packet in the prefetch:   *)
(* nothing, a part of the first packet, or all of it; the device had it in *)
(* its ring.                                                               *)
Init ==
  \E len \in Lens : \E k \in 0 .. len + HeaderSize :
    LET p == Header(1) \o Payload(1, len)
    IN /\ Len(p) <= RingSize
       /\ client = Reading(SubSeq(p, 1, k)) /\ ring = SubSeq(p, k + 1, Len(p))
       /\ book = {[n |-> 1, start |-> 0, len |-> len]} /\ written = Len(p)
       /\ made = 1 /\ out = <<>> /\ damaged = {} /\ cut = {} /\ lost = 0 /\ faults = 0

-----------------------------------------------------------------------------
(* The device.                                                             *)

(* gateway_usb_enqueue_media_packet: a packet that does not fit is dropped. *)
DeviceSends ==
  /\ made < Packets /\ made' = made + 1
  /\ \E len \in Lens :
       LET p == Header(made') \o Payload(made', len)
       IN IF Len(ring) + Len(p) <= RingSize
          THEN /\ ring' = ring \o p /\ written' = written + Len(p)
               /\ book' = book \cup {[n |-> made', start |-> written, len |-> len]}
          ELSE UNCHANGED <<ring, written, book>>
  /\ UNCHANGED <<client, out, damaged, cut, lost, faults>>

(* gateway_usb_reset_stream_session and the init packet of the new session. *)
DeviceResets ==
  /\ faults < MaxFaults /\ faults' = faults + 1
  /\ ring' = Init0 /\ written' = written + HeaderSize
  /\ cut' = cut \cup DataIn(ring) /\ lost' = written
  /\ UNCHANGED <<made, book, client, out, damaged>>

-----------------------------------------------------------------------------
(* The client.                                                             *)

(* How many tokens the current read_exact_prefetched has to deliver. *)
Needed ==
  CASE client.pc = "header" -> HeaderSize
    [] client.pc = "prefix" -> IF client.len < HeaderSize THEN client.len ELSE HeaderSize
    [] OTHER -> client.len

(* read_exact_prefetched: first what was read ahead, then the transport. *)
ClientReads ==
  /\ Len(client.buf) < Needed
  /\ \/ /\ client.prefetch # <<>>
        /\ client' = [client EXCEPT !.buf = Append(@, Head(client.prefetch)),
                                    !.prefetch = Tail(@)]
        /\ UNCHANGED ring
     \/ /\ client.prefetch = <<>> /\ ring # <<>>
        /\ client' = [client EXCEPT !.buf = Append(@, Head(ring))]
        /\ ring' = Tail(ring)
  /\ UNCHANGED <<made, book, written, out, damaged, cut, lost, faults>>

(* LIBUSB_ERROR_TIMEOUT: the loop goes on, what had been received is gone. *)
ReadTimesOut ==
  /\ faults < MaxFaults /\ faults' = faults + 1
  /\ client.prefetch = <<>>
  /\ \E k \in 1 .. Needed - Len(client.buf) - 1 :
       /\ k <= Len(ring)
       /\ ring' = SubSeq(ring, k + 1, Len(ring))
       /\ cut' = cut \cup DataIn(SubSeq(ring, 1, k))
       /\ lost' = written - Len(ring) + k
  /\ UNCHANGED <<made, book, written, client, out, damaged>>

(* gateway_proto_read_media_header: the fields are those of the second     *)
(* token if it is the rest of a media header, and anything otherwise.      *)
Fields(t) ==
  IF t[1] = "media" /\ t[3] = 2
  THEN {[n |-> t[2], len |-> CHOOSE l \in Lens : \E b \in book : b.n = t[2] /\ b.len = l]}
  ELSE {[n |-> 0, len |-> l] : l \in Garbage}

(* Fault: the whole window is thrown away, not its first byte. *)
MutParseHeader ==
  LET w == client.buf
  IN /\ client.pc = "header" /\ Len(w) = HeaderSize
     /\ \/ /\ w[1][1] = "media" /\ w[1][3] = 1
           /\ \E f \in Fields(w[2]) :
                client' = [client EXCEPT !.pc = "prefix", !.buf = <<>>, !.n = f.n, !.len = f.len]
        \/ /\ ~(w[1][1] = "media" /\ w[1][3] = 1) /\ client' = Reading(client.prefetch)
     /\ UNCHANGED <<ring, made, book, written, out, damaged, cut, lost, faults>>

(* read_next_gateway_header on a full window: a media header, an init      *)
(* packet (which is skipped), or one step further in the stream.           *)
ParseHeader ==
  LET w == client.buf
  IN /\ client.pc = "header" /\ Len(w) = HeaderSize
     /\ \/ /\ w[1][1] = "media" /\ w[1][3] = 1
           /\ \E f \in Fields(w[2]) :
                client' = [client EXCEPT !.pc = "prefix", !.buf = <<>>, !.n = f.n, !.len = f.len]
        \/ /\ w[1][1] = "init" /\ w[1][3] = 1 /\ client' = Reading(client.prefetch)
        \/ /\ ~IsMagic(w[1]) /\ client' = [client EXCEPT !.buf = Tail(@)]
     /\ UNCHANGED <<ring, made, book, written, out, damaged, cut, lost, faults>>

(* read_gateway_payload_resync: a payload that starts like a packet is     *)
(* none; what was read goes back in front of the prefetch.                 *)
CheckPrefix ==
  /\ client.pc = "prefix" /\ Len(client.buf) = Needed
  /\ client' = IF client.buf # <<>> /\ IsMagic(client.buf[1])
               THEN Reading(client.buf \o client.prefetch)
               ELSE [client EXCEPT !.pc = "rest"]
  /\ UNCHANGED <<ring, made, book, written, out, damaged, cut, lost, faults>>

(* decrypt_usb_media_payload: the cipher's header has to name the stream   *)
(* and number of the packet's header; nothing protects what follows.       *)
Accepted(c) == c.len = 0 \/ c.buf[1] = <<"data", c.n, 1>>

(* network_reader, run_diag_dump: the payload is complete.  An empty one   *)
(* with a damaged header belongs to no stream.                             *)
HandOn ==
  /\ client.pc = "rest" /\ Len(client.buf) = client.len
  /\ IF Accepted(client) /\ client.n # 0
     THEN /\ out' = Append(out, client.n)
          /\ damaged' = IF client.buf = Payload(client.n, client.len)
                        THEN damaged ELSE damaged \cup {client.n}
     ELSE UNCHANGED <<out, damaged>>
  /\ client' = Reading(client.prefetch)
  /\ UNCHANGED <<ring, made, book, written, cut, lost, faults>>

Next ==
  \/ DeviceSends \/ DeviceResets
  \/ ClientReads \/ ReadTimesOut \/ ParseHeader \/ CheckPrefix \/ HandOn

Spec == Init /\ [][Next]_vars

-----------------------------------------------------------------------------
(* Types of the state. *)
TypeOK ==
  /\ Len(ring) <= RingSize /\ made \in 1 .. Packets /\ written \in Nat /\ lost \in 0 .. written
  /\ client.pc \in {"header", "prefix", "rest"} /\ Len(client.buf) <= Needed
  /\ client.n \in 0 .. Packets /\ client.len \in Lens \cup Garbage \cup {0}
  /\ damaged \subseteq 1 .. Packets /\ cut \subseteq 1 .. Packets /\ faults \in 0 .. MaxFaults

Position == written - Len(ring) - Len(client.prefetch) - Len(client.buf)
Handed   == {out[i] : i \in DOMAIN out}
Longest  == CHOOSE l \in Lens \cup Garbage : \A m \in Lens \cup Garbage : m <= l

(* Whatever was lost, payloads are handed on at most once and in the order *)
(* in which the device sent them, and only a packet that lost a part of    *)
(* its own payload is handed on damaged.  (Such a packet may be: the       *)
(* cipher's header is all that is compared.)                               *)
Faithful ==
  /\ \A i, j \in DOMAIN out : i < j => out[i] < out[j]
  /\ damaged \subseteq cut

(* The client finds its way back: a packet that starts no more than one    *)
(* payload and one header behind the last loss, or later, is handed on,    *)
(* undamaged.  In particular nothing is missing from a stream without loss *)
(* (lost = 0, and the first packet starts there).                          *)
Recovers ==
  \A b \in book :
    /\ b.start + HeaderSize + b.len <= Position
    /\ faults = 0 \/ b.start >= lost + Longest + HeaderSize
    => b.n \in Handed \ damaged
=============================================================================
