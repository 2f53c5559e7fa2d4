-------------------------------- MODULE Utf8 --------------------------------
(***************************************************************************)
(* The UTF-8 decoder of wsh264/src/utf8.c: its table as two functions, and *)
(* what a run of it says of a string of bytes.  With it the definition of  *)
(* well-formed text in RFC 3629, to compare the decoder with.              *)
(***************************************************************************)
EXTENDS Naturals, Sequences, SequencesExt

Accept == 0   \* UTF8_ACCEPT
Reject == 1   \* UTF8_REJECT
State == 0 .. 8
Byte == 0 .. 255

(* The first 256 entries of utf8d: the class of a byte. *)
Class(b) ==
  CASE b \in 0 .. 127 -> 0
    [] b \in 128 .. 143 -> 1 [] b \in 144 .. 159 -> 9 [] b \in 160 .. 191 -> 7
    [] b \in 194 .. 223 -> 2
    [] b = 224 -> 10 [] b \in (225 .. 236) \cup {238, 239} -> 3 [] b = 237 -> 4
    [] b = 240 -> 11 [] b \in 241 .. 243 -> 6 [] b = 244 -> 5
    [] OTHER -> 8

(* The rest of utf8d: from a state, with a class, to a state. *)
Goes ==
  {<<0, 0, 0>>, <<0, 2, 2>>, <<0, 3, 3>>, <<0, 4, 5>>, <<0, 5, 8>>, <<0, 6, 7>>,
   <<0, 10, 4>>, <<0, 11, 6>>}
  \cup {<<2, k, 0>> : k \in {1, 7, 9}} \cup {<<3, k, 2>> : k \in {1, 7, 9}}
  \cup {<<4, 7, 2>>} \cup {<<5, k, 2>> : k \in {1, 9}}
  \cup {<<6, k, 3>> : k \in {7, 9}} \cup {<<7, k, 3>> : k \in {1, 7, 9}} \cup {<<8, 1, 3>>}

Decode(state, b) ==
  LET to == {n \in State : <<state, Class(b), n>> \in Goes}
  IN IF to = {} THEN Reject ELSE CHOOSE n \in to : TRUE

(* is_utf8_len_state, is_utf8_len *)
IsUtf8LenState(bytes, state) == FoldLeft(Decode, state, bytes)
IsUtf8Len(bytes) == IsUtf8LenState(bytes, Accept) = Accept

-----------------------------------------------------------------------------
(* RFC 3629, section 4: the shapes of a character. *)
Follow == 128 .. 191
Shapes == {<<0 .. 127>>, <<194 .. 223, Follow>>,
           <<{224}, 160 .. 191, Follow>>, <<225 .. 236, Follow, Follow>>,
           <<{237}, 128 .. 159, Follow>>, <<238 .. 239, Follow, Follow>>,
           <<{240}, 144 .. 191, Follow, Follow>>, <<241 .. 243, Follow, Follow, Follow>>,
           <<{244}, 128 .. 143, Follow, Follow>>}

Begins(bytes, shape) == /\ Len(bytes) <= Len(shape)
                        /\ \A i \in 1 .. Len(bytes) : bytes[i] \in shape[i]

IsChar(bytes) == \E s \in Shapes : Len(s) = Len(bytes) /\ Begins(bytes, s)

(* A beginning of a character, not all of it. *)
IsPart(bytes) == bytes # <<>> /\ \E s \in Shapes : Len(bytes) < Len(s) /\ Begins(bytes, s)

(* Nothing but characters; and that, or the beginning of one behind it.    *)
WellFormed(bytes) ==
  LET ok[n \in 0 .. Len(bytes)] ==
        n = 0 \/ \E k \in 1 .. 4 : k <= n /\ ok[n - k] /\ IsChar(SubSeq(bytes, n - k + 1, n))
  IN ok[Len(bytes)]

Continuable(bytes) ==
  \E n \in 0 .. Len(bytes) : /\ WellFormed(SubSeq(bytes, 1, n))
                             /\ n < Len(bytes) => IsPart(SubSeq(bytes, n + 1, Len(bytes)))
=============================================================================
