------------------------------ MODULE NalScan ------------------------------
(***************************************************************************)
(* How wsh264's video thread cuts its H.264 file into chunks: next_chunk   *)
(* and check_size, called again and again by h264_streaming on what is     *)
(* left of the file, and from its beginning when nothing is.               *)
(*                                                                         *)
(* A byte is 0, 1 or something else (9).  Positions count from 1: the code *)
(* looks at start[i - 1] and start[i - 2], which lie before start for      *)
(* small i.                                                                *)
(***************************************************************************)
EXTENDS Integers, Sequences, SequencesExt, FiniteSetsExt

CONSTANT MaxSize  \* of the file

Bytes == {0, 1, 9}

VARIABLES
  file,    \* video_bitstream
  start,   \* position of the first byte that is left; Len(file) + 1 at the end
  chunk,   \* the chunk sent last: from, size; from = 0 when none was found
  before,  \* where the chunk before it ended (0 at the beginning of the file)
  touched  \* positions that were read for the last chunk

vars == <<file, start, chunk, before, touched>>

NoChunk == [from |-> 0, size |-> 0]

Init ==
  /\ file \in BoundedSeq(Bytes, MaxSize)
  /\ start = 1
  /\ chunk = NoChunk
  /\ before = 0
  /\ touched = {}

(* start[i] = 1, start[i - 1] = 0, start[i - 2] = 0, in this order.        *)
Code(p) == /\ file[p] = 1
           /\ p - 1 \in DOMAIN file /\ file[p - 1] = 0
           /\ p - 2 \in DOMAIN file /\ file[p - 2] = 0

(* The positions that the test at p reads. *)
Looks(p) == {p} \cup (IF file[p] = 1 THEN {p - 1} ELSE {})
                \cup (IF file[p] = 1 /\ p - 1 \in DOMAIN file /\ file[p - 1] = 0 THEN {p - 2} ELSE {})

(* Mutant: the scan begins with the third byte of the chunk. *)
MutEnds(from) == {p \in from + 3 .. Len(file) : Code(p)}

Ends(from) == {p \in from .. Len(file) : Code(p)}

(* check_size: up to the next start code, with the zero before it if that  *)
(* belongs to the chunk's bytes, or to the end of the file.                *)
CheckSize(from) ==
  IF Ends(from) = {} THEN Len(file) - from + 1
  ELSE LET i == Min(Ends(from)) - from
       IN IF i - 3 >= 0 /\ file[from + i - 3] = 0 THEN i - 3 ELSE i - 2

(* The first position that can end a start code. *)
ScanFrom == start + 2

Begins == {p \in ScanFrom .. Len(file) : Code(p)}

(* next_chunk: behind the first start code there is. *)
NextChunk == IF Begins = {} THEN NoChunk
             ELSE LET from == Min(Begins) + 1
                  IN [from |-> from, size |-> CheckSize(from)]

(* All that next_chunk, check_size and the look at the unit's type read.   *)
Reads(c) ==
  LET first  == IF Begins = {} THEN Len(file) ELSE Min(Begins)
      second == IF Ends(c.from) = {} THEN Len(file) ELSE Min(Ends(c.from))
  IN (UNION {Looks(p) : p \in ScanFrom .. first})
     \cup IF c.from = 0 THEN {}
          ELSE (UNION {Looks(p) : p \in c.from .. second}) \cup {c.from}

(* The chunk is sent, and the rest is what follows it. *)
Sends ==
  /\ NextChunk # NoChunk
  /\ chunk' = NextChunk
  /\ before' = start - 1
  /\ start' = NextChunk.from + NextChunk.size
  /\ touched' = Reads(NextChunk)
  /\ UNCHANGED file

(* No start code is left: from the beginning. *)
StartsAgain ==
  /\ NextChunk = NoChunk
  /\ start' = 1
  /\ chunk' = NoChunk
  /\ before' = 0
  /\ touched' = Reads(NoChunk)
  /\ UNCHANGED file

Next == Sends \/ StartsAgain

Spec == Init /\ [][Next]_vars

-----------------------------------------------------------------------------
StartCode == {<<0, 0, 1>>, <<0, 0, 0, 1>>}
Gap == SubSeq(file, before + 1, chunk.from - 1)
Content == SubSeq(file, chunk.from, chunk.from + chunk.size - 1)
Holds(s, code) == \E i \in 1 .. Len(s) : i + Len(code) - 1 <= Len(s)
                                         /\ SubSeq(s, i, i + Len(code) - 1) = code

(* No byte behind the first start code is lost or sent twice: two chunks   *)
(* have exactly one start code between them, of three bytes or four, and   *)
(* no chunk holds one.                                                     *)
CutAtCodes ==
  chunk # NoChunk =>
    /\ IF before = 0 THEN \E c \in StartCode : IsSuffix(c, Gap)
                     ELSE Gap \in StartCode
    /\ ~Holds(Content, <<0, 0, 1>>)

(* The code that looks before its pointer stays within the file; only when *)
(* the file ends with a start code does it read the byte behind its end.   *)
ReadsInFile ==
  \A p \in touched : p \in DOMAIN file \/ (p = Len(file) + 1 /\ chunk.size = 0)
=============================================================================
