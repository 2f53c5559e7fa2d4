---------------------------- MODULE ClientProofs ----------------------------
(***************************************************************************)
(* The proofs about gateway_client's parts that share no state, one after  *)
(* the other.                                                              *)
(*                                                                         *)
(* The stop: whoever requests the stop of the transport, and however the   *)
(* two threads interleave inside request_stop, the connection is released  *)
(* at the program's end and nobody uses what was closed, for both          *)
(* transports, both programs and any number of packets.                    *)
(*                                                                         *)
(* The audio path: two threads feed the device in order, for any sizes.    *)
(*                                                                         *)
(* The framing: the reader is in step again after any loss, for any        *)
(* lengths of packets.                                                     *)
(*                                                                         *)
(* The audio trace: what is reported is what was lost, for any file.       *)
(***************************************************************************)
EXTENDS ClientParts, Integers, WellFoundedInduction, FiniteSetTheorems, FunctionTheorems,
        SequenceTheorems, TLAPS

-----------------------------------------------------------------------------
(* The stop of the transport.                                             *)

(* The places of a thread inside tcp_transport_shutdown_close. *)
Closing   == {"closing", "quit closing"}
Forgetting == {"forget", "quit forget"}
Requesting == {"shutdown", "quit shutdown"} \cup Closing \cup Forgetting

(* The main thread before there is a second one. *)
Alone == {"open", "startup", "spawn"}

(* Which places the threads of a program have, and when there are two.     *)
ThreadsFit ==
  /\ program = "play" => main \notin {"initial", "test", "read"} /\ other # "sleep"
  /\ program = "diag" => /\ other \notin {"test", "read"}
                         /\ main \notin {"round", "quit", "quit shutdown", "quit closing", "quit forget"}
  /\ main \in Alone => other = "none"
  /\ main \in {"close", "done"} => other \in {"none", "done"}
  /\ main = "read" => dumped < Packets

(* Over USB there is no socket, and the handle is open from the opening to *)
(* the close at the end.                                                   *)
UsbOwned ==
  kind = "usb" =>
    /\ ~fd /\ socket = "none" /\ main \notin Requesting /\ other \notin Requesting
    /\ main = "open" => handle = "none"
    /\ main \notin {"open", "done"} => handle = "open"
    /\ main = "done" => handle \in {"none", "closed"}

(* Over TCP a descriptor that has been given up is closed, and one that is *)
(* still there although it is closed is in the hands of a thread.          *)
TcpOwned ==
  kind = "tcp" =>
    /\ handle = "none"
    /\ ~fd => socket \in {"none", "closed"}
    /\ main \in {"open", "done"} => ~fd
    /\ main # "open" /\ main # "done" => socket # "none"
    /\ \A t \in {"main", "other"} : /\ At(t) \in Closing => socket \in {"shut", "closed"}
                                    /\ At(t) \in Forgetting => socket = "closed"
    /\ NoStaleFd

(* The types of the flags, and of everything else. *)
Flags ==
  /\ stopping \in BOOLEAN /\ fd \in BOOLEAN /\ running \in BOOLEAN
  /\ gone \in BOOLEAN /\ twice \in BOOLEAN

(* Where main and the other thread may be. *)
MainPlace == {"open", "startup", "spawn", "initial", "round", "test", "read", "quit",
              "quit shutdown", "quit closing", "quit forget",
              "stop", "shutdown", "closing", "forget", "join", "close", "done"}

OtherPlace == {"none", "test", "read", "sleep", "stop", "shutdown", "closing", "forget", "done"}

Places ==
  /\ kind \in Kinds /\ program \in Programs
  /\ socket \in {"none", "open", "shut", "closed"} /\ handle \in {"none", "open", "closed"}
  /\ main \in MainPlace /\ other \in OtherPlace
  /\ result \in {0, 1} /\ dumped \in 0 .. Packets

(* What can be said of the places of the threads and of the connection.    *)
Owned == Places /\ ThreadsFit /\ UsbOwned /\ TcpOwned

(* The inductive invariant. *)
StopInv == Flags /\ Owned

-----------------------------------------------------------------------------
(* Before the opening nothing is open. *)
LEMMA InitInv == Init => StopInv
  <1>1. SUFFICES ASSUME Init PROVE StopInv
    OBVIOUS
  <1>2. Flags
    BY <1>1, Zenon DEF Init, Flags
  <1>3. Places
    BY <1>1, StopAssumption DEF Init, Places, MainPlace, OtherPlace
  <1>4. ThreadsFit
    BY <1>1 DEF Init, ThreadsFit, Alone
  <1>5. UsbOwned
    BY <1>1 DEF Init, UsbOwned, Requesting, Closing, Forgetting
  <1>6. TcpOwned
    BY <1>1 DEF Init, TcpOwned, NoStaleFd, At, Closing, Forgetting
  <1>7. QED
    BY <1>2, <1>3, <1>4, <1>5, <1>6 DEF StopInv, Owned

(* The flags only ever get Boolean values. *)
LEMMA FlagsStay ==
  ASSUME Flags, [Next]_vars
  PROVE  Flags'
  <1> USE DEF Flags, conn
  <1>1. CASE UNCHANGED vars
    BY <1>1, Zenon DEF vars
  <1>2. CASE Opens
    BY <1>2, Zenon DEF Opens, UsbOpens, TcpOpens
  <1>3. CASE StartsUp \/ Spawns \/ DiagStarts \/ DiagReadsInit
    BY <1>3, Zenon DEF StartsUp, Spawns, DiagStarts, DiagReadsInit
  <1>4. CASE MainQuits \/ MainSeesEnd \/ WatchdogWakes \/ Joins \/ PeerGoes
    BY <1>4, Zenon DEF MainQuits, MainSeesEnd, WatchdogWakes, Joins, PeerGoes
  <1>5. CASE Closes
    BY <1>5, Zenon DEF Closes, UsbCloses, TcpCloses
  <1>6. ASSUME NEW t \in {"main", "other"}, Reads(t) \/ ReadReturns(t) PROVE Flags'
    BY <1>6, Zenon DEF Reads, Tests, ReadEnds, ReadReturns
  <1>7. ASSUME NEW t \in {"main", "other"}, StopCall(t) PROVE Flags'
    BY <1>7, Zenon DEF StopCall, Requests, Shuts, CloseFd, Forgets
  <1>8. QED
    BY <1>1, <1>2, <1>3, <1>4, <1>5, <1>6, <1>7 DEF Next, Ended

(* The opening: the connection is there, or the program ends.              *)
LEMMA OpensInv ==
  ASSUME Owned, Opens
  PROVE  Owned'
  <1> USE StopAssumption DEF Goes, At, conn, Owned, Places, MainPlace, OtherPlace, ThreadsFit,
              UsbOwned, TcpOwned, NoStaleFd, Alone, Requesting, Closing, Forgetting
  <1>1. Places'
    BY DEF Opens, UsbOpens, TcpOpens
  <1>2. ThreadsFit'
    BY DEF Opens, UsbOpens, TcpOpens
  <1>3. UsbOwned'
    BY DEF Opens, UsbOpens, TcpOpens
  <1>4. TcpOwned'
    BY DEF Opens, UsbOpens, TcpOpens
  <1>5. QED
    BY <1>1, <1>2, <1>3, <1>4 DEF Owned

(* The rest of the start-up and the second thread.                         *)
LEMMA StartsInv ==
  ASSUME Owned, StartsUp \/ Spawns \/ DiagStarts \/ DiagReadsInit
  PROVE  Owned'
  <1> USE StopAssumption DEF Goes, At, conn, Owned, Places, MainPlace, OtherPlace, ThreadsFit,
              UsbOwned, TcpOwned, NoStaleFd, Alone, Requesting, Closing, Forgetting
  <1>1. CASE StartsUp
    <2>1. Places'
      BY <1>1 DEF StartsUp
    <2>2. ThreadsFit'
      BY <1>1 DEF StartsUp
    <2>3. UsbOwned'
      BY <1>1 DEF StartsUp
    <2>4. TcpOwned'
      BY <1>1 DEF StartsUp
    <2>5. QED
      BY <2>1, <2>2, <2>3, <2>4 DEF Owned
  <1>2. CASE Spawns
    <2>1. Places'
      BY <1>2 DEF Spawns
    <2>2. ThreadsFit'
      BY <1>2 DEF Spawns
    <2>3. UsbOwned'
      BY <1>2 DEF Spawns
    <2>4. TcpOwned'
      BY <1>2 DEF Spawns
    <2>5. QED
      BY <2>1, <2>2, <2>3, <2>4 DEF Owned
  <1>3. CASE DiagStarts
    <2>1. Places'
      BY <1>3 DEF DiagStarts
    <2>2. ThreadsFit'
      BY <1>3 DEF DiagStarts
    <2>3. UsbOwned'
      BY <1>3 DEF DiagStarts
    <2>4. TcpOwned'
      BY <1>3 DEF DiagStarts
    <2>5. QED
      BY <2>1, <2>2, <2>3, <2>4 DEF Owned
  <1>4. CASE DiagReadsInit
    <2>1. Places'
      BY <1>4 DEF DiagReadsInit
    <2>2. ThreadsFit'
      BY <1>4 DEF DiagReadsInit
    <2>3. UsbOwned'
      BY <1>4 DEF DiagReadsInit
    <2>4. TcpOwned'
      BY <1>4 DEF DiagReadsInit
    <2>5. QED
      BY <2>1, <2>2, <2>3, <2>4 DEF Owned
  <1>5. QED
    BY <1>1, <1>2, <1>3, <1>4

(* A packet that is counted was still allowed to be. *)
LEMMA CountStays ==
  ASSUME NEW d \in 0 .. Packets, d < Packets, NEW e, e = d \/ e = d + 1
  PROVE  e \in 0 .. Packets
  BY StopAssumption

(* A round of the reading thread, in network_reader or run_diag_dump.      *)
LEMMA ReaderInv ==
  ASSUME Owned, NEW r \in {"main", "other"}, Reads(r) \/ ReadReturns(r)
  PROVE  Owned'
  <1> USE StopAssumption DEF Goes, At, conn, Owned, Places, MainPlace, OtherPlace, ThreadsFit,
              UsbOwned, TcpOwned, NoStaleFd, Alone, Requesting, Closing, Forgetting
  <1>1. CASE Tests(r)
    <2>1. Places'
      BY <1>1 DEF Tests, Reader
    <2>2. ThreadsFit'
      BY <1>1 DEF Tests, Reader
    <2>3. UsbOwned'
      BY <1>1 DEF Tests, Reader
    <2>4. TcpOwned'
      BY <1>1 DEF Tests, Reader
    <2>5. QED
      BY <2>1, <2>2, <2>3, <2>4 DEF Owned
  <1>2. CASE ReadEnds(r)
    <2>1. Places'
      BY <1>2 DEF ReadEnds, Reader
    <2>2. ThreadsFit'
      BY <1>2 DEF ReadEnds, Reader
    <2>3. UsbOwned'
      BY <1>2 DEF ReadEnds, Reader
    <2>4. TcpOwned'
      BY <1>2 DEF ReadEnds, Reader
    <2>5. QED
      BY <2>1, <2>2, <2>3, <2>4 DEF Owned
  <1>3. CASE ReadReturns(r)
    <2>1. Places'
      <3>1. dumped' \in 0 .. Packets
        <4>1. CASE program = "diag"
          <5>1. main = "read" /\ dumped < Packets /\ dumped \in 0 .. Packets
            BY <1>3, <4>1 DEF ReadReturns, Reader
          <5>2. dumped' = dumped \/ dumped' = dumped + 1
            BY <1>3 DEF ReadReturns
          <5>3. QED
            BY <5>1, <5>2, CountStays
        <4>2. CASE program # "diag"
          BY <1>3, <4>2 DEF ReadReturns
        <4>3. QED
          BY <4>1, <4>2
      <3>2. QED
        BY <1>3, <3>1 DEF ReadReturns, Reader
    <2>2. ThreadsFit'
      BY <1>3 DEF ReadReturns, Reader
    <2>3. UsbOwned'
      BY <1>3 DEF ReadReturns, Reader
    <2>4. TcpOwned'
      BY <1>3 DEF ReadReturns, Reader
    <2>5. QED
      BY <2>1, <2>2, <2>3, <2>4 DEF Owned
  <1>4. QED
    BY <1>1, <1>2, <1>3 DEF Reads

(* The thread that does not read: the window, the watchdog.                *)
LEMMA OthersInv ==
  ASSUME Owned, MainQuits \/ MainSeesEnd \/ WatchdogWakes \/ Joins
  PROVE  Owned'
  <1> USE StopAssumption DEF Goes, At, conn, Owned, Places, MainPlace, OtherPlace, ThreadsFit,
              UsbOwned, TcpOwned, NoStaleFd, Alone, Requesting, Closing, Forgetting
  <1>1. CASE MainQuits
    <2>1. Places'
      BY <1>1 DEF MainQuits
    <2>2. ThreadsFit'
      BY <1>1 DEF MainQuits
    <2>3. UsbOwned'
      BY <1>1 DEF MainQuits
    <2>4. TcpOwned'
      BY <1>1 DEF MainQuits
    <2>5. QED
      BY <2>1, <2>2, <2>3, <2>4 DEF Owned
  <1>2. CASE MainSeesEnd
    <2>1. Places'
      BY <1>2 DEF MainSeesEnd
    <2>2. ThreadsFit'
      BY <1>2 DEF MainSeesEnd
    <2>3. UsbOwned'
      BY <1>2 DEF MainSeesEnd
    <2>4. TcpOwned'
      BY <1>2 DEF MainSeesEnd
    <2>5. QED
      BY <2>1, <2>2, <2>3, <2>4 DEF Owned
  <1>3. CASE WatchdogWakes
    <2>1. Places'
      BY <1>3 DEF WatchdogWakes
    <2>2. ThreadsFit'
      BY <1>3 DEF WatchdogWakes
    <2>3. UsbOwned'
      BY <1>3 DEF WatchdogWakes
    <2>4. TcpOwned'
      BY <1>3 DEF WatchdogWakes
    <2>5. QED
      BY <2>1, <2>2, <2>3, <2>4 DEF Owned
  <1>4. CASE Joins
    <2>1. Places'
      BY <1>4 DEF Joins
    <2>2. ThreadsFit'
      BY <1>4 DEF Joins
    <2>3. UsbOwned'
      BY <1>4 DEF Joins
    <2>4. TcpOwned'
      BY <1>4 DEF Joins
    <2>5. QED
      BY <2>1, <2>2, <2>3, <2>4 DEF Owned
  <1>5. QED
    BY <1>1, <1>2, <1>3, <1>4

(* Every step of request_stop, by either thread. *)
LEMMA StopCallInv ==
  ASSUME Owned, NEW t \in {"main", "other"}, StopCall(t)
  PROVE  Owned'
  <1> USE StopAssumption DEF Goes, At, conn, Owned, Places, MainPlace, OtherPlace, ThreadsFit,
              UsbOwned, TcpOwned, NoStaleFd, Alone, Requesting, Closing, Forgetting
  <1>1. CASE Requests(t)
    <2>1. Places'
      BY <1>1, ZenonT(30) DEF Requests
    <2>2. ThreadsFit'
      BY <1>1 DEF Requests
    <2>3. UsbOwned'
      BY <1>1 DEF Requests
    <2>4. TcpOwned'
      BY <1>1 DEF Requests
    <2>5. QED
      BY <2>1, <2>2, <2>3, <2>4 DEF Owned
  <1>2. CASE Shuts(t)
    <2>1. Places'
      BY <1>2 DEF Shuts
    <2>2. ThreadsFit'
      BY <1>2 DEF Shuts
    <2>3. UsbOwned'
      BY <1>2 DEF Shuts
    <2>4. TcpOwned'
      BY <1>2 DEF Shuts
    <2>5. QED
      BY <2>1, <2>2, <2>3, <2>4 DEF Owned
  <1>3. CASE CloseFd(t)
    <2>1. Places'
      BY <1>3 DEF CloseFd
    <2>2. ThreadsFit'
      BY <1>3 DEF CloseFd
    <2>3. UsbOwned'
      BY <1>3 DEF CloseFd
    <2>4. TcpOwned'
      BY <1>3 DEF CloseFd
    <2>5. QED
      BY <2>1, <2>2, <2>3, <2>4 DEF Owned
  <1>4. CASE Forgets(t)
    <2>1. Places'
      BY <1>4 DEF Forgets
    <2>2. ThreadsFit'
      BY <1>4 DEF Forgets
    <2>3. UsbOwned'
      BY <1>4 DEF Forgets
    <2>4. TcpOwned'
      BY <1>4 DEF Forgets
    <2>5. QED
      BY <2>1, <2>2, <2>3, <2>4 DEF Owned
  <1>5. QED
    BY <1>1, <1>2, <1>3, <1>4 DEF StopCall

(* gateway_client_transport_close at the end of the program.               *)
LEMMA ClosesInv ==
  ASSUME Owned, Closes
  PROVE  Owned'
  BY DEF Closes, UsbCloses, TcpCloses, Owned, Places, MainPlace, OtherPlace, ThreadsFit,
         UsbOwned, TcpOwned, NoStaleFd, At, Alone, Requesting, Closing, Forgetting

(* The peer goes, or nothing happens. *)
LEMMA QuietInv ==
  ASSUME Owned, PeerGoes \/ UNCHANGED vars
  PROVE  Owned'
  <1>1. /\ kind' = kind /\ program' = program /\ socket' = socket /\ handle' = handle /\ fd' = fd
        /\ main' = main /\ other' = other /\ result' = result /\ dumped' = dumped
    BY DEF PeerGoes, vars, conn
  <1>2. Places'
    <2>1. Places
      BY DEF Owned
    <2>2. QED
      BY <1>1, <2>1, Zenon DEF Places
  <1>3. ThreadsFit'
    BY <1>1 DEF Owned, ThreadsFit
  <1>4. UsbOwned'
    BY <1>1 DEF Owned, UsbOwned
  <1>5. TcpOwned'
    BY <1>1 DEF Owned, TcpOwned, NoStaleFd, At
  <1>6. QED
    BY <1>2, <1>3, <1>4, <1>5 DEF Owned

-----------------------------------------------------------------------------
(* StopInv holds in every state of both programs over both transports.     *)
THEOREM StopInvariant == Spec => []StopInv
  <1>1. Owned /\ [Next]_vars => Owned'
    BY OpensInv, StartsInv, ReaderInv, OthersInv, StopCallInv, ClosesInv, QuietInv
    DEF Next, Ended
  <1>2. StopInv /\ [Next]_vars => StopInv'
    BY <1>1, FlagsStay DEF StopInv
  <1>3. QED
    BY InitInv, <1>2, PTL DEF Spec

(* Whoever requests the stop, the connection is released once the program  *)
(* ends, no thread can be inside a USB transfer when the handle is closed, *)
(* and no closed descriptor is left over (gateway_client_transport_close,  *)
(* request_stop).                                                          *)
THEOREM StopSoundAlways == Spec => []StopSound
  <1>1. StopInv => StopSound
    <2>1. SUFFICES ASSUME StopInv PROVE StopSound
      OBVIOUS
    <2>2. TypeOK
      BY <2>1, Zenon DEF StopInv, Owned, Flags, Places, MainPlace, OtherPlace, TypeOK
    <2>3. HandleAlive
      BY <2>1, StopAssumption DEF StopInv, Owned, Places, MainPlace, OtherPlace,
                                  ThreadsFit, UsbOwned, TcpOwned, HandleAlive
    <2>4. NothingOpen /\ NoStaleFd
      BY <2>1, StopAssumption DEF StopInv, Owned, Places, MainPlace, OtherPlace,
                                  ThreadsFit, UsbOwned, TcpOwned, NothingOpen, NoStaleFd
    <2>5. QED
      BY <2>2, <2>3, <2>4 DEF StopSound
  <1>2. QED
    BY StopInvariant, <1>1, PTL

-----------------------------------------------------------------------------
(* The audio path.                                                         *)

(* What enqueue_audio_packet puts into the queue. *)
Kept == [n : 1 .. Chunks, size : Sizes \cap (0 .. MaxBuffer)]

(* The bytes of a queue, each by its packet's place and its own: their     *)
(* number is what Bytes counts.                                            *)
Cells(q) == UNION {{i} \X (1 .. q[i].size) : i \in DOMAIN q}

(* The instance counts as everybody does. *)
LEMMA SameCardinality == \A S : Audio!Cardinality(S) = Cardinality(S)
  BY DEF Audio!Cardinality, Cardinality

LEMMA CellsAre ==
  ASSUME NEW q \in Seq(Kept), MaxBuffer \in Nat
  PROVE  /\ \A i, b : <<i, b>> \in Cells(q) <=> i \in 1 .. Len(q) /\ b \in 1 .. q[i].size
         /\ \A x \in Cells(q) : x = <<x[1], x[2]>> /\ x[1] \in 1 .. Len(q) /\ x[2] \in 1 .. q[x[1]].size
         /\ \A i \in 1 .. Len(q) : q[i] \in Kept /\ q[i].size \in 0 .. MaxBuffer
         /\ DOMAIN q = 1 .. Len(q) /\ Len(q) \in Nat
  <1>1. DOMAIN q = 1 .. Len(q) /\ Len(q) \in Nat /\ \A i \in 1 .. Len(q) : q[i] \in Kept
    OBVIOUS
  <1>2. \A i \in 1 .. Len(q) : q[i].size \in 0 .. MaxBuffer
    BY <1>1 DEF Kept
  <1>3. ASSUME NEW x \in Cells(q)
        PROVE  x = <<x[1], x[2]>> /\ x[1] \in 1 .. Len(q) /\ x[2] \in 1 .. q[x[1]].size
    <2>1. PICK i \in 1 .. Len(q) : x \in {i} \X (1 .. q[i].size)
      BY <1>1 DEF Cells
    <2>2. QED
      BY <2>1
  <1>4. ASSUME NEW i, NEW b
        PROVE  <<i, b>> \in Cells(q) <=> i \in 1 .. Len(q) /\ b \in 1 .. q[i].size
    <2>1. ASSUME i \in 1 .. Len(q), b \in 1 .. q[i].size PROVE <<i, b>> \in Cells(q)
      BY <1>1, <2>1 DEF Cells
    <2>2. QED
      BY <1>3, <2>1
  <1>5. QED
    BY <1>1, <1>2, <1>3, <1>4

LEMMA CellsFinite ==
  ASSUME NEW q \in Seq(Kept), MaxBuffer \in Nat
  PROVE  IsFiniteSet(Cells(q)) /\ Audio!Bytes(q) = Cardinality(Cells(q)) /\ Audio!Bytes(q) \in Nat
  <1>1. Cells(q) \in SUBSET ((1 .. Len(q)) \X (1 .. MaxBuffer))
    BY CellsAre
  <1>2. IsFiniteSet((1 .. Len(q)) \X (1 .. MaxBuffer))
    <2>1. IsFiniteSet(1 .. Len(q)) /\ IsFiniteSet(1 .. MaxBuffer)
      BY FS_Interval, CellsAre
    <2>2. QED
      BY <2>1, FS_Product
  <1>3. IsFiniteSet(Cells(q))
    BY <1>1, <1>2, FS_Subset
  <1>4. QED
    BY <1>3, FS_CardinalityType, SameCardinality DEF Audio!Bytes, Cells

(* No packet, no byte. *)
LEMMA BytesOfNone == Audio!Bytes(<<>>) = 0
  <1>1. Cells(<<>>) = {}
    BY DEF Cells
  <1>2. QED
    BY <1>1, FS_EmptySet, SameCardinality DEF Audio!Bytes, Cells

(* A packet at the end adds its len. *)
LEMMA BytesOfAppend ==
  ASSUME NEW q \in Seq(Kept), NEW p \in Kept, MaxBuffer \in Nat
  PROVE  Audio!Bytes(Append(q, p)) = Audio!Bytes(q) + p.size
  <1> DEFINE new == {Len(q) + 1} \X (1 .. p.size)
             r == Append(q, p)
  <1>1. r \in Seq(Kept) /\ Len(r) = Len(q) + 1 /\ r[Len(q) + 1] = p
        /\ \A i \in 1 .. Len(q) : r[i] = q[i]
    OBVIOUS
  <1>2. p.size \in Nat /\ Len(q) \in Nat
    BY DEF Kept
  <1>3. Cells(r) = Cells(q) \cup new
    <2>1. ASSUME NEW x \in Cells(r) PROVE x \in Cells(q) \cup new
      <3>1. x = <<x[1], x[2]>> /\ x[1] \in 1 .. Len(r) /\ x[2] \in 1 .. r[x[1]].size
        BY <1>1, <2>1, CellsAre
      <3>2. CASE x[1] = Len(q) + 1
        BY <3>1, <3>2, <1>1
      <3>3. CASE x[1] \in 1 .. Len(q)
        BY <3>1, <3>3, <1>1, CellsAre
      <3>4. QED
        BY <3>1, <3>2, <3>3, <1>1, <1>2
    <2>2. ASSUME NEW x \in Cells(q) PROVE x \in Cells(r)
      <3>1. x = <<x[1], x[2]>> /\ x[1] \in 1 .. Len(q) /\ x[2] \in 1 .. q[x[1]].size
        BY <2>2, CellsAre
      <3>2. x[1] \in 1 .. Len(r) /\ x[2] \in 1 .. r[x[1]].size
        BY <3>1, <1>1, <1>2
      <3>3. <<x[1], x[2]>> \in Cells(r)
        BY <3>2, <1>1, CellsAre
      <3>4. QED
        BY <3>1, <3>3
    <2>3. ASSUME NEW x \in new PROVE x \in Cells(r)
      <3>1. x = <<Len(q) + 1, x[2]>> /\ x[2] \in 1 .. r[Len(q) + 1].size
        BY <2>3, <1>1
      <3>2. Len(q) + 1 \in 1 .. Len(r)
        BY <1>1, <1>2
      <3>3. <<Len(q) + 1, x[2]>> \in Cells(r)
        BY <3>1, <3>2, <1>1, CellsAre
      <3>4. QED
        BY <3>1, <3>3
    <2>4. QED
      BY <2>1, <2>2, <2>3
  <1>4. Cells(q) \cap new = {}
    <2>1. SUFFICES ASSUME NEW x \in Cells(q), x \in new PROVE FALSE
      OBVIOUS
    <2>2. x[1] \in 1 .. Len(q) /\ x[1] = Len(q) + 1
      BY <2>1, CellsAre
    <2>3. QED
      BY <2>2, <1>2
  <1>5. IsFiniteSet(new) /\ Cardinality(new) = p.size
    <2>1. IsFiniteSet({Len(q) + 1}) /\ Cardinality({Len(q) + 1}) = 1
      BY FS_Singleton
    <2>2. 1 \in Int /\ p.size \in Int
      BY <1>2
    <2>3. IsFiniteSet(1 .. p.size) /\ Cardinality(1 .. p.size) = (IF 1 > p.size THEN 0 ELSE p.size - 1 + 1)
      BY ONLY <2>2, FS_Interval
    <2>4. IsFiniteSet(new) /\ Cardinality(new) = 1 * Cardinality(1 .. p.size)
      BY <2>1, <2>3, FS_Product
    <2>5. QED
      BY <2>3, <2>4, <1>2
  <1>6. Cardinality({}) = 0
    BY FS_EmptySet
  <1>7. IsFiniteSet(Cells(q)) /\ Cardinality(Cells(q)) \in Nat
    BY CellsFinite
  <1>8. Cardinality(Cells(r)) = Cardinality(Cells(q)) + p.size
    <2>1. Cardinality(Cells(q) \cup new)
            = Cardinality(Cells(q)) + Cardinality(new) - Cardinality(Cells(q) \cap new)
      BY <1>5, <1>7, FS_Union
    <2>2. Cardinality(Cells(r)) = Cardinality(Cells(q)) + Cardinality(new) - Cardinality({})
      BY Zenon, <1>3, <1>4, <2>1
    <2>3. QED
      BY <1>2, <1>5, <1>6, <1>7, <2>2
  <1>9. Audio!Bytes(r) = Cardinality(Cells(r)) /\ Audio!Bytes(q) = Cardinality(Cells(q))
    BY <1>1, CellsFinite
  <1>10. QED
    BY <1>8, <1>9

(* A queue that is cut in two keeps its bytes. *)
LEMMA BytesOfParts ==
  ASSUME NEW q \in Seq(Kept), NEW k \in 0 .. Len(q), MaxBuffer \in Nat
  PROVE  /\ Audio!Bytes(q) = Audio!Bytes(SubSeq(q, 1, k)) + Audio!Bytes(SubSeq(q, k + 1, Len(q)))
         /\ SubSeq(q, 1, k) \in Seq(Kept) /\ SubSeq(q, k + 1, Len(q)) \in Seq(Kept)
         /\ Audio!Bytes(SubSeq(q, 1, k)) \in Nat /\ Audio!Bytes(SubSeq(q, k + 1, Len(q))) \in Nat
  <1> DEFINE a == SubSeq(q, 1, k)
             b == SubSeq(q, k + 1, Len(q))
             back == {x \in Cells(q) : x[1] > k}
             shift == [x \in Cells(b) |-> <<x[1] + k, x[2]>>]
  <1>1. k \in Nat /\ Len(q) \in Nat /\ k <= Len(q)
    OBVIOUS
  <1>2. a \in Seq(Kept) /\ Len(a) = k /\ \A i \in 1 .. k : a[i] = q[i]
    BY <1>1
  <1>3. b \in Seq(Kept) /\ Len(b) = Len(q) - k /\ \A i \in 1 .. Len(q) - k : b[i] = q[i + k]
    BY <1>1
  <1>4. Cells(q) = Cells(a) \cup back
    <2>1. ASSUME NEW x \in Cells(q), ~(x[1] > k) PROVE x \in Cells(a)
      <3>1. x = <<x[1], x[2]>> /\ x[1] \in 1 .. Len(q) /\ x[2] \in 1 .. q[x[1]].size
        BY <2>1, CellsAre
      <3>2. x[1] \in 1 .. k
        BY <2>1, <3>1, <1>1
      <3>3. <<x[1], x[2]>> \in Cells(a)
        BY <3>1, <3>2, <1>2, CellsAre
      <3>4. QED
        BY <3>1, <3>3
    <2>2. ASSUME NEW x \in Cells(a) PROVE x \in Cells(q)
      <3>1. x = <<x[1], x[2]>> /\ x[1] \in 1 .. k /\ x[2] \in 1 .. a[x[1]].size
        BY <2>2, <1>2, CellsAre
      <3>2. x[1] \in 1 .. Len(q) /\ x[2] \in 1 .. q[x[1]].size
        BY <3>1, <1>1, <1>2
      <3>3. QED
        BY <3>1, <3>2, CellsAre
    <2>3. QED
      BY <2>1, <2>2
  <1>5. Cells(a) \cap back = {}
    <2>1. SUFFICES ASSUME NEW x \in Cells(a), x[1] > k PROVE FALSE
      OBVIOUS
    <2>2. x[1] \in 1 .. k
      BY <1>2, CellsAre
    <2>3. QED
      BY <2>1, <2>2, <1>1
  <1>6. shift \in Bijection(Cells(b), back)
    <2>1. ASSUME NEW x \in Cells(b) PROVE shift[x] \in back
      <3>1. x[1] \in 1 .. Len(q) - k /\ x[2] \in 1 .. b[x[1]].size
        BY <2>1, <1>3, CellsAre
      <3>2. x[1] + k \in 1 .. Len(q) /\ x[1] + k > k /\ b[x[1]] = q[x[1] + k]
        <4>1. b[x[1]] = q[x[1] + k]
          BY <3>1, <1>3
        <4>2. x[1] + k \in 1 .. Len(q) /\ x[1] + k > k
          BY <3>1, <1>1
        <4>3. QED
          BY <4>1, <4>2
      <3>3. <<x[1] + k, x[2]>> \in Cells(q)
        BY <3>1, <3>2, CellsAre
      <3>4. QED
        BY <3>2, <3>3
    <2>2. ASSUME NEW x \in Cells(b), NEW y \in Cells(b), shift[x] = shift[y] PROVE x = y
      <3>1. x = <<x[1], x[2]>> /\ y = <<y[1], y[2]>> /\ x[1] \in Nat /\ y[1] \in Nat
        <4>1. x = <<x[1], x[2]>> /\ x[1] \in 1 .. Len(b)
          BY <2>2, <1>3, CellsAre
        <4>2. y = <<y[1], y[2]>> /\ y[1] \in 1 .. Len(b)
          BY <2>2, <1>3, CellsAre
        <4>3. Len(b) \in Nat
          BY <1>3
        <4>4. x[1] \in Nat /\ y[1] \in Nat
          BY <4>1, <4>2, <4>3
        <4>5. QED
          BY <4>1, <4>2, <4>4
      <3>2. x[1] + k = y[1] + k /\ x[2] = y[2]
        BY <2>2
      <3>3. QED
        BY <3>1, <3>2, <1>1
    <2>3. ASSUME NEW y \in back PROVE \E x \in Cells(b) : shift[x] = y
      <3>1. y = <<y[1], y[2]>> /\ y[1] \in 1 .. Len(q) /\ y[2] \in 1 .. q[y[1]].size /\ y[1] > k
        BY <2>3, CellsAre
      <3>2. y[1] - k \in 1 .. Len(q) - k /\ (y[1] - k) + k = y[1]
        BY <3>1, <1>1
      <3>3. b[y[1] - k] = q[y[1]]
        BY <3>2, <1>3
      <3> DEFINE x == <<y[1] - k, y[2]>>
      <3>4. x \in Cells(b)
        BY <3>1, <3>2, <3>3, <1>3, CellsAre
      <3>5. x[1] + k = y[1] /\ x[2] = y[2]
        BY <3>2
      <3> HIDE DEF x
      <3>6. shift[x] = <<x[1] + k, x[2]>>
        BY <3>4
      <3>7. shift[x] = y
        BY <3>1, <3>5, <3>6
      <3>8. QED
        BY <3>4, <3>7
    <2>4. QED
      BY <2>1, <2>2, <2>3, Fun_IsBij
  <1>7. IsFiniteSet(Cells(b)) /\ IsFiniteSet(Cells(a))
    BY <1>2, <1>3, CellsFinite
  <1>8. IsFiniteSet(back) /\ Cardinality(back) = Cardinality(Cells(b))
    BY <1>6, <1>7, FS_Bijection DEF ExistsBijection
  <1>9. Cardinality(Cells(q)) = Cardinality(Cells(a)) + Cardinality(back)
    <2>1. Cardinality({}) = 0
      BY FS_EmptySet
    <2>2. Cardinality(Cells(a)) \in Nat /\ Cardinality(back) \in Nat
      BY <1>7, <1>8, FS_CardinalityType
    <2>3. Cardinality(Cells(a) \cup back)
            = Cardinality(Cells(a)) + Cardinality(back) - Cardinality(Cells(a) \cap back)
      BY <1>7, <1>8, FS_Union
    <2>4. Cardinality(Cells(q)) = Cardinality(Cells(a)) + Cardinality(back) - Cardinality({})
      BY Zenon, <1>4, <1>5, <2>3
    <2>5. QED
      BY <2>1, <2>2, <2>4
  <1>10. QED
    BY <1>2, <1>3, <1>8, <1>9, CellsFinite

(* A queue of one packet has that packet's bytes. *)
LEMMA BytesOfTail ==
  ASSUME NEW q \in Seq(Kept), q # <<>>, MaxBuffer \in Nat
  PROVE  Audio!Bytes(Tail(q)) = Audio!Bytes(q) - Head(q).size
  <1>1. 1 \in 0 .. Len(q) /\ Head(q) \in Kept /\ Len(q) \in Nat
    OBVIOUS
  <1>2. SubSeq(q, 1, 1) = Append(<<>>, Head(q))
    <2>1. 1 \in 1 .. Len(q) /\ Head(q) = q[1]
      BY <1>1
    <2>2. SubSeq(q, 1, 1) = <<q[1]>> \o SubSeq(q, 1 + 1, 1)
      BY <2>1, SubSeqRecursiveFirst
    <2>3. SubSeq(q, 1 + 1, 1) = <<>>
      BY SubSeqEmpty
    <2>4. <<q[1]>> \o <<>> = <<q[1]>> /\ Append(<<>>, q[1]) = <<q[1]>>
      BY <2>1, <1>1
    <2>5. QED
      BY <2>1, <2>2, <2>3, <2>4
  <1>3. <<>> \in Seq(Kept)
    OBVIOUS
  <1>4. Audio!Bytes(SubSeq(q, 1, 1)) = 0 + Head(q).size
    BY <1>1, <1>2, <1>3, BytesOfAppend, BytesOfNone
  <1>5. Tail(q) = SubSeq(q, 1 + 1, Len(q))
    BY TailIsSubSeq
  <1>6. Head(q).size \in Nat
    BY <1>1 DEF Kept
  <1>7. Audio!Bytes(q) = Audio!Bytes(SubSeq(q, 1, 1)) + Audio!Bytes(SubSeq(q, 1 + 1, Len(q)))
        /\ Audio!Bytes(SubSeq(q, 1 + 1, Len(q))) \in Nat
    BY <1>1, BytesOfParts
  <1>8. Audio!Bytes(Tail(q)) = Audio!Bytes(SubSeq(q, 1 + 1, Len(q)))
    BY <1>5
  <1>9. QED
    BY <1>4, <1>6, <1>7, <1>8

-----------------------------------------------------------------------------
(* The last unit that was played or is in the device. *)
Newest == IF device.units = <<>> THEN played.n ELSE device.units[Len(device.units)]

(* Thread t has a packet that is in the queue no more. *)
Holds(t) == service[t].pc \in {"start", "feed"}

(* The queue: its bytes are counted, its packets are numbered upwards, and *)
(* none of them was dropped.                                               *)
AudioQueue ==
  /\ queue \in Seq(Kept) /\ queued_bytes = Audio!Bytes(queue) /\ queued_bytes <= MaxBuffer
  /\ arrived \in 0 .. Chunks /\ dropped \subseteq 1 .. arrived
  /\ \A i \in 1 .. Len(queue) : queue[i].n <= arrived /\ queue[i].n \notin dropped
  /\ \A i, j \in 1 .. Len(queue) : i < j => queue[i].n < queue[j].n
  /\ \A i \in 1 .. Len(queue) : Newest < queue[i].n

(* The device plays upwards, and nothing before it was started. *)
AudioDevice ==
  /\ device \in [units : Seq(1 .. Chunks), paused : BOOLEAN, open : BOOLEAN]
  /\ played \in [n : 0 .. Chunks, back : BOOLEAN] /\ ~played.back
  /\ device.units # <<>> => played.n <= device.units[1]
  /\ \A i \in 1 .. Len(device.units) - 1 : device.units[i] <= device.units[i + 1]
  /\ Newest <= arrived
  /\ Audio!DeviceBound
  /\ ~started => device.units = <<>> /\ device.paused
  /\ Audio!StartedMeansPlaying

(* A thread and service_audio_output. *)
Serving == [pc : {"out", "look", "start", "feed"}, sdl : Nat, packet : [n : 0 .. Chunks, size : Sizes \cup {0}]]

(* What a thread inside service_audio_output knows: the device has no more *)
(* than the level it goes by, which was below the target when it took its  *)
(* packet, and that packet is the next one.                                *)
AudioHands ==
  /\ service \in [Audio!Threads -> Serving]
  /\ \A t \in Audio!Threads :
       /\ service[t].pc # "out" => Len(device.units) <= service[t].sdl
       /\ service[t].pc # "out" /\ ~started => service[t].pc = "look" /\ service[t].sdl = 0
       /\ Holds(t) => /\ service[t].sdl < Target /\ service[t].packet \in Kept
                      /\ Newest < service[t].packet.n /\ service[t].packet.n <= arrived
                      /\ \A i \in 1 .. Len(queue) : service[t].packet.n < queue[i].n

(* audio_service_lock has one holder, which is where a thread says it is.  *)
AudioPlaces ==
  /\ reader \in {"read", "serve", "served", "done"} /\ window \in {"round", "served", "done"}
  /\ plays \in BOOLEAN /\ started \in BOOLEAN /\ refused \in 0 .. MaxRefused
  /\ \A t, u \in Audio!Threads : service[t].pc # "out" /\ service[u].pc # "out" => t = u
  /\ window # "served" => service["main"].pc = "out"
  /\ reader # "served" => service["reader"].pc = "out"
  /\ ~device.open => window = "done" /\ reader = "done"
  /\ window = "done" => reader = "done"

AudioInv == AudioQueue /\ AudioDevice /\ AudioHands /\ AudioPlaces

LEMMA AudioInvSound == ASSUME Audio!AudioAssumption, AudioInv PROVE Audio!AudioSound
  <1> USE DEF AudioInv, Serving
  <1>0. MaxBuffer \in Nat
    BY DEF Audio!AudioAssumption
  <1>1. DOMAIN queue = 1 .. Len(queue) /\ Len(queue) \in Nat /\ \A i \in 1 .. Len(queue) : queue[i] \in Kept
    BY DEF AudioQueue
  <1>2. Audio!TypeOK
    <2>1. queue \in Seq(Audio!Packet)
      <3>1. \A i \in 1 .. Len(queue) : queue[i] \in Audio!Packet
        BY <1>1 DEF Kept, Audio!Packet
      <3>2. QED
        BY <3>1, <1>1 DEF AudioQueue
    <2>2. queued_bytes \in Nat
      BY <1>0, CellsFinite DEF AudioQueue
    <2>3. service \in [Audio!Threads -> [pc : {"out", "look", "start", "feed"}, sdl : Nat, packet : Audio!Packet]]
      BY DEF AudioHands, Audio!Packet
    <2>4. dropped \subseteq 1 .. Chunks
      BY DEF AudioQueue, Audio!AudioAssumption
    <2>5. QED
      BY <2>1, <2>2, <2>3, <2>4 DEF AudioQueue, AudioDevice, AudioPlaces, Audio!TypeOK
  <1>3. Audio!PlaysInOrder
    <2>1. \A n \in Audio!InHand : Newest < n /\ \A i \in DOMAIN queue : n < queue[i].n
      BY <1>1 DEF AudioHands, Audio!InHand, Holds
    <2>2. \A i \in DOMAIN queue : Newest < queue[i].n /\ queue[i].n \notin dropped
      BY <1>1 DEF AudioQueue
    <2>3. \A i \in 1 .. Len(queue) - 1 : queue[i].n < queue[i + 1].n
      BY <1>1 DEF AudioQueue
    <2>4. ~played.back /\ (device.units # <<>> => played.n <= device.units[1])
          /\ \A i \in 1 .. Len(device.units) - 1 : device.units[i] <= device.units[i + 1]
      BY DEF AudioDevice
    <2>5. QED
      BY Zenon, <2>1, <2>2, <2>3, <2>4 DEF Newest, Audio!PlaysInOrder
  <1>4. Audio!DeviceAlive
    BY DEF AudioPlaces, Audio!DeviceAlive, Audio!Unserved, Audio!Threads
  <1>5. QED
    BY <1>2, <1>3, <1>4 DEF AudioQueue, AudioDevice, Audio!AudioSound, Audio!BytesCounted

LEMMA AudioInit == ASSUME Audio!AudioAssumption, Audio!Init PROVE AudioInv
  <1> USE DEF Audio!Init, Serving
  <1>1. AudioQueue
    <2>1. queued_bytes = Audio!Bytes(queue)
      BY BytesOfNone
    <2>2. QED
      BY <2>1 DEF AudioQueue, Audio!AudioAssumption
  <1>2. AudioDevice
    <2>1. device = [units |-> <<>>, paused |-> TRUE, open |-> TRUE] /\ device.units = <<>> /\ Len(device.units) = 0
      OBVIOUS
    <2>2. device \in [units : Seq(1 .. Chunks), paused : BOOLEAN, open : BOOLEAN]
      BY <2>1
    <2>3. played \in [n : 0 .. Chunks, back : BOOLEAN] /\ ~played.back /\ Newest = 0
      BY <2>1 DEF Newest, Audio!AudioAssumption
    <2>4. Audio!DeviceBound /\ Audio!StartedMeansPlaying
      BY <2>1 DEF Audio!AudioAssumption, Audio!DeviceBound, Audio!StartedMeansPlaying
    <2>5. QED
      BY <2>1, <2>2, <2>3, <2>4 DEF AudioDevice
  <1>3. AudioHands /\ AudioPlaces
    <2>1. \A t \in Audio!Threads : service[t].pc = "out"
      BY DEF Audio!Idle, Audio!Threads
    <2>2. service \in [Audio!Threads -> Serving]
      BY DEF Audio!Idle, Audio!None, Audio!Threads, Audio!AudioAssumption
    <2>3. device.open /\ started \in BOOLEAN /\ plays \in BOOLEAN
      BY Zenon
    <2>6. refused \in 0 .. MaxRefused
      BY DEF Audio!AudioAssumption
    <2>4. AudioPlaces
      BY <2>1, <2>3, <2>6 DEF AudioPlaces, Audio!Threads
    <2>5. QED
      BY <2>1, <2>2, <2>4 DEF AudioHands, Holds
  <1>4. QED
    BY <1>1, <1>2, <1>3 DEF AudioInv

-----------------------------------------------------------------------------
(* Every set of numbers has a least one. *)
LEMMA LeastNumber ==
  ASSUME NEW T, T \subseteq Nat, T # {}
  PROVE  \E x \in T : \A y \in T : x <= y
  <1>1. PICK x \in T : \A y \in T : ~(<<y, x>> \in OpToRel(<, Nat))
    BY NatLessThanWellFounded, WFMin
  <1>2. ASSUME NEW y \in T, y < x PROVE FALSE
    BY <1>1, <1>2 DEF OpToRel
  <1>3. QED
    BY <1>2

(* There is a smallest number of packets whose eviction makes room. *)
LEMMA EvictedIs ==
  ASSUME Audio!AudioAssumption, AudioQueue, NEW len \in Nat
  PROVE  LET k == Audio!Evicted(len)
         IN /\ k \in 0 .. Len(queue)
            /\ k = Len(queue) \/ queued_bytes - Audio!Bytes(SubSeq(queue, 1, k)) + len <= MaxBuffer
  <1> DEFINE fits(k) == k = Len(queue) \/ queued_bytes - Audio!Bytes(SubSeq(queue, 1, k)) + len <= MaxBuffer
             T == {k \in 0 .. Len(queue) : fits(k)}
  <1>1. Len(queue) \in Nat /\ queue \in Seq(Kept) /\ MaxBuffer \in Nat
    BY DEF AudioQueue, Audio!AudioAssumption
  <1>2. \A k \in 0 .. Len(queue) : Audio!Bytes(SubSeq(queue, 1, k)) \in Nat
    BY <1>1, BytesOfParts
  <1>3. queued_bytes \in Nat
    BY <1>1, CellsFinite DEF AudioQueue
  <1>4. Len(queue) \in T /\ T \subseteq Nat
    BY <1>1
  <1>5. PICK m \in T : \A y \in T : m <= y
    BY <1>4, LeastNumber
  <1>6. ASSUME NEW j \in 0 .. m - 1
        PROVE  queued_bytes - Audio!Bytes(SubSeq(queue, 1, j)) + len > MaxBuffer
    <2>1. j \in 0 .. Len(queue) /\ j \notin T
      BY <1>1, <1>5
    <2>2. Audio!Bytes(SubSeq(queue, 1, j)) \in Nat
      BY <2>1, <1>2
    <2>3. ~(queued_bytes - Audio!Bytes(SubSeq(queue, 1, j)) + len <= MaxBuffer)
      BY <2>1
    <2>4. QED
      BY <2>2, <2>3, <1>1, <1>3
  <1>7. \E k \in 0 .. Len(queue) :
          /\ fits(k)
          /\ \A j \in 0 .. k - 1 : queued_bytes - Audio!Bytes(SubSeq(queue, 1, j)) + len > MaxBuffer
    BY <1>5, <1>6
  <1>8. QED
    BY <1>7 DEF Audio!Evicted

(* What eviction leaves: the newest packets, and the count of their bytes. *)
LEMMA EvictionLeaves ==
  ASSUME Audio!AudioAssumption, AudioQueue, NEW len \in Nat
  PROVE  LET k    == Audio!Evicted(len)
             kept == SubSeq(queue, k + 1, Len(queue))
             left == queued_bytes - Audio!Bytes(SubSeq(queue, 1, k))
         IN /\ k \in 0 .. Len(queue)
            /\ kept \in Seq(Kept) /\ Len(kept) = Len(queue) - k
            /\ \A i \in 1 .. Len(kept) : i + k \in 1 .. Len(queue) /\ kept[i] = queue[i + k]
            /\ left = Audio!Bytes(kept) /\ left \in Nat /\ left <= MaxBuffer
            /\ len <= MaxBuffer => left + len <= MaxBuffer
            /\ \A i \in 1 .. k : SubSeq(queue, 1, k)[i] = queue[i]
  <1> DEFINE k    == Audio!Evicted(len)
             kept == SubSeq(queue, k + 1, Len(queue))
             front == SubSeq(queue, 1, k)
  <1>1. k \in 0 .. Len(queue)
        /\ (k = Len(queue) \/ queued_bytes - Audio!Bytes(front) + len <= MaxBuffer)
    BY EvictedIs
  <1> HIDE DEF k
  <1>2. queue \in Seq(Kept) /\ Len(queue) \in Nat /\ MaxBuffer \in Nat
        /\ queued_bytes = Audio!Bytes(queue) /\ queued_bytes <= MaxBuffer
    BY DEF AudioQueue, Audio!AudioAssumption
  <1>3. /\ Audio!Bytes(queue) = Audio!Bytes(front) + Audio!Bytes(kept)
        /\ kept \in Seq(Kept) /\ Audio!Bytes(front) \in Nat /\ Audio!Bytes(kept) \in Nat
    BY <1>1, <1>2, BytesOfParts
  <1>4. Len(kept) = Len(queue) - k /\ \A i \in 1 .. Len(queue) - k : i + k \in 1 .. Len(queue) /\ kept[i] = queue[i + k]
    BY <1>1, <1>2
  <1>5. \A i \in 1 .. k : front[i] = queue[i]
    BY <1>1, <1>2
  <1>6. ASSUME k = Len(queue) PROVE Audio!Bytes(kept) = 0
    <2>1. kept = <<>>
      BY <1>2, <1>6, SubSeqEmpty
    <2>2. QED
      BY <2>1, BytesOfNone
  <1>7. queued_bytes - Audio!Bytes(front) = Audio!Bytes(kept)
    BY <1>2, <1>3
  <1>8. len <= MaxBuffer => Audio!Bytes(kept) + len <= MaxBuffer
    BY <1>1, <1>2, <1>3, <1>6, <1>7
  <1>9. Audio!Bytes(kept) <= MaxBuffer
    BY <1>2, <1>3
  <1>10. QED
    BY <1>1, <1>3, <1>4, <1>5, <1>7, <1>8, <1>9 DEF k

-----------------------------------------------------------------------------
(* What every step of the audio path keeps. *)

LEMMA NewestIs == ASSUME Audio!AudioAssumption, AudioDevice PROVE Newest \in 0 .. Chunks
  <1>1. Chunks \in Nat /\ played.n \in 0 .. Chunks
    BY DEF Audio!AudioAssumption, AudioDevice
  <1>2. device.units # <<>> => device.units[Len(device.units)] \in 1 .. Chunks
    <2>1. device.units \in Seq(1 .. Chunks)
      BY DEF AudioDevice
    <2>2. ASSUME NEW u \in Seq(1 .. Chunks), u # <<>> PROVE u[Len(u)] \in 1 .. Chunks
      <3>1. Len(u) \in 1 .. Len(u)
        BY <2>2
      <3>2. QED
        BY <3>1, ElementOfSeq
    <2>3. QED
      BY <2>1, <2>2
  <1>3. QED
    BY <1>1, <1>2 DEF Newest

(* Nothing in the device is newer than its last unit.                      *)
LEMMA UpwardsTo ==
  ASSUME Audio!AudioAssumption, AudioDevice PROVE \A i \in 1 .. Len(device.units) : device.units[i] <= Newest
  <1> DEFINE d == device.units
  <1>1. d \in Seq(1 .. Chunks) /\ Len(d) \in Nat /\ \A i \in 1 .. Len(d) - 1 : d[i] <= d[i + 1]
    BY DEF AudioDevice
  <1>2. Chunks \in Nat /\ \A i \in 1 .. Len(d) : d[i] \in 1 .. Chunks
    BY <1>1, ElementOfSeq DEF Audio!AudioAssumption
  <1> HIDE DEF d
  <1> DEFINE after == {Len(d) - i : i \in {j \in 1 .. Len(d) : ~(d[j] <= d[Len(d)])}}
  <1>3. after = {}
    <2>1. SUFFICES ASSUME after # {} PROVE FALSE
      OBVIOUS
    <2>2. after \subseteq Nat
      BY <1>1
    <2>3. PICK x \in after : \A y \in after : x <= y
      BY <2>1, <2>2, LeastNumber
    <2>4. PICK i \in 1 .. Len(d) : x = Len(d) - i /\ ~(d[i] <= d[Len(d)])
      BY <2>3
    <2>5. i # Len(d) /\ i \in 1 .. Len(d) - 1
      BY <2>4, <1>1, <1>2
    <2>6. d[i] <= d[i + 1] /\ i + 1 \in 1 .. Len(d)
      BY <2>5, <1>1
    <2>7. ~(d[i + 1] <= d[Len(d)])
      <3>1. Len(d) \in 1 .. Len(d)
        BY <2>5, <1>1
      <3>2. QED
        BY <3>1, <2>4, <2>5, <2>6, <1>2
    <2>8. Len(d) - (i + 1) \in after
      BY <2>6, <2>7
    <2>9. x <= Len(d) - (i + 1)
      BY <2>3, <2>8
    <2>10. QED
      BY <2>4, <2>9, <1>1
  <1>4. ASSUME NEW i \in 1 .. Len(d) PROVE d[i] <= d[Len(d)] /\ d # <<>>
    BY <1>1, <1>3
  <1>5. QED
    BY <1>4 DEF Newest, d

(* A packet that arrives: the oldest packets make room for it.             *)
LEMMA AudioGets == ASSUME Audio!AudioAssumption, AudioInv, Audio!ReaderGets PROVE AudioInv'
  <1> USE DEF AudioInv, Serving
  <1>0. MaxBuffer \in Nat /\ Sizes \subseteq Nat /\ Chunks \in Nat
    BY DEF Audio!AudioAssumption
  <1>1. PICK len \in Sizes : Audio!Enqueue([n |-> arrived + 1, size |-> len])
    BY DEF Audio!ReaderGets
  <1> DEFINE p    == [n |-> arrived + 1, size |-> len]
             k    == Audio!Evicted(len)
             front == SubSeq(queue, 1, k)
             evicted == {front[i].n : i \in 1 .. k}
             kept == SubSeq(queue, k + 1, Len(queue))
             left == queued_bytes - Audio!Bytes(front)
  <1>2. /\ arrived \in 0 .. Chunks /\ arrived < Chunks /\ arrived' = arrived + 1 /\ reader = "read" /\ reader' = "serve"
        /\ UNCHANGED <<started, service, window, plays, device, played, refused>>
    BY DEF Audio!ReaderGets, AudioQueue
  <1>3. len \in Nat
    BY <1>0
  <1>4. /\ k \in 0 .. Len(queue)
        /\ kept \in Seq(Kept) /\ Len(kept) = Len(queue) - k
        /\ \A i \in 1 .. Len(kept) : i + k \in 1 .. Len(queue) /\ kept[i] = queue[i + k]
        /\ left = Audio!Bytes(kept) /\ left \in Nat /\ left <= MaxBuffer
        /\ len <= MaxBuffer => left + len <= MaxBuffer
        /\ \A i \in 1 .. k : front[i] = queue[i]
    BY <1>3, EvictionLeaves
  <1>5. \/ /\ len > MaxBuffer /\ queue' = kept /\ queued_bytes' = left
           /\ dropped' = dropped \cup evicted \cup {p.n}
        \/ /\ ~(len > MaxBuffer) /\ queue' = Append(kept, p) /\ queued_bytes' = left + p.size
           /\ dropped' = dropped \cup evicted
    BY <1>1 DEF Audio!Enqueue
  <1> HIDE DEF k, front, kept, left, evicted
  <1>6. Newest' = Newest /\ Newest <= arrived /\ Newest \in Nat
    BY <1>2, NewestIs DEF Newest, AudioDevice
  <1>7. /\ queue \in Seq(Kept) /\ Len(queue) \in Nat /\ dropped \subseteq 1 .. arrived
        /\ \A i \in 1 .. Len(queue) : queue[i] \in Kept /\ queue[i].n <= arrived /\ queue[i].n \notin dropped /\ Newest < queue[i].n
        /\ \A i, j \in 1 .. Len(queue) : i < j => queue[i].n < queue[j].n
    BY DEF AudioQueue
  <1>8. \A i \in 1 .. Len(queue) : queue[i].n \in 1 .. arrived
    <2>1. \A i \in 1 .. Len(queue) : queue[i].n \in 1 .. Chunks
      BY <1>7 DEF Kept
    <2>2. arrived \in Nat
      BY <1>0, <1>2
    <2>3. ASSUME NEW i \in 1 .. Len(queue) PROVE queue[i].n \in 1 .. arrived
      <3>1. queue[i].n \in 1 .. Chunks /\ queue[i].n <= arrived
        BY <1>7, <2>1
      <3>2. QED
        BY <3>1, <2>2, <1>0
    <2>4. QED
      BY <2>3
  <1>9. evicted \subseteq 1 .. arrived
        /\ \A i \in 1 .. Len(kept) : kept[i].n \notin evicted
    <2>1. \A j \in 1 .. k : j \in 1 .. Len(queue) /\ front[j] = queue[j]
      BY <1>4, <1>7
    <2>2. ASSUME NEW i \in 1 .. Len(kept), NEW j \in 1 .. k PROVE kept[i].n # front[j].n
      <3>1. i + k \in 1 .. Len(queue) /\ kept[i] = queue[i + k] /\ j < i + k
        BY <1>4, <1>7
      <3>2. queue[j].n < queue[i + k].n
        BY <3>1, <2>1, <1>7
      <3>3. queue[j].n \in Nat /\ queue[i + k].n \in Nat
        BY <3>1, <2>1, <1>8
      <3>4. QED
        BY <2>1, <3>1, <3>2, <3>3
    <2>3. QED
      BY <2>1, <2>2, <1>8 DEF evicted
  <1>10. \A i \in 1 .. Len(kept) : /\ kept[i] \in Kept /\ kept[i].n \in 1 .. arrived /\ kept[i].n \notin dropped
                                   /\ Newest < kept[i].n
    BY <1>4, <1>7, <1>8
  <1>11. \A i, j \in 1 .. Len(kept) : i < j => kept[i].n < kept[j].n
    <2>1. ASSUME NEW i \in 1 .. Len(kept), NEW j \in 1 .. Len(kept), i < j PROVE kept[i].n < kept[j].n
      <3>1. i + k \in 1 .. Len(queue) /\ j + k \in 1 .. Len(queue) /\ i + k < j + k
        BY <2>1, <1>4
      <3>2. QED
        BY <3>1, <1>4, <1>7
    <2>2. QED
      BY <2>1
  <1>12. Newest < arrived + 1
    BY <1>6, <1>2
  <1>13. \A i \in 1 .. Len(queue') : \/ i \in 1 .. Len(kept) /\ queue'[i] = kept[i]
                                     \/ /\ queue'[i] = p /\ i = Len(kept) + 1 /\ len <= MaxBuffer
                                        /\ dropped' = dropped \cup evicted
    <2>1. Len(kept) \in Nat
      BY <1>4
    <2>2. Len(Append(kept, p)) = Len(kept) + 1 /\ Append(kept, p)[Len(kept) + 1] = p
          /\ \A i \in 1 .. Len(kept) : Append(kept, p)[i] = kept[i]
      BY <1>4
    <2>3. QED
      BY <1>3, <1>0, <1>5, <2>1, <2>2
  <1>14. AudioQueue'
    <2>1. CASE len > MaxBuffer /\ queue' = kept /\ queued_bytes' = left
               /\ dropped' = dropped \cup evicted \cup {p.n}
      <3>1. queue' \in Seq(Kept) /\ queued_bytes' = Audio!Bytes(queue') /\ queued_bytes' <= MaxBuffer
        BY <2>1, <1>4
      <3>2. arrived' \in 0 .. Chunks /\ dropped' \subseteq 1 .. arrived'
        BY <2>1, <1>0, <1>2, <1>7, <1>9
      <3>3. \A i \in 1 .. Len(queue') : queue'[i].n <= arrived' /\ queue'[i].n \notin dropped' /\ Newest' < queue'[i].n
        BY <2>1, <1>2, <1>6, <1>9, <1>10
      <3>4. \A i, j \in 1 .. Len(queue') : i < j => queue'[i].n < queue'[j].n
        BY <2>1, <1>11
      <3>5. QED
        BY <3>1, <3>2, <3>3, <3>4 DEF AudioQueue
    <2>2. CASE ~(len > MaxBuffer) /\ queue' = Append(kept, p) /\ queued_bytes' = left + p.size
               /\ dropped' = dropped \cup evicted
      <3>1. p \in Kept /\ p.size = len /\ p.n = arrived + 1
        BY <2>2, <1>0, <1>2, <1>3 DEF Kept
      <3>2. queue' \in Seq(Kept) /\ queued_bytes' = Audio!Bytes(queue') /\ queued_bytes' <= MaxBuffer
        <4>1. Audio!Bytes(Append(kept, p)) = Audio!Bytes(kept) + p.size
          BY <1>0, <1>4, <3>1, BytesOfAppend
        <4>2. QED
          BY <4>1, <2>2, <3>1, <1>0, <1>3, <1>4
      <3>3. arrived' \in 0 .. Chunks /\ dropped' \subseteq 1 .. arrived'
        BY <2>2, <1>0, <1>2, <1>7, <1>9
      <3>4. ASSUME NEW i \in 1 .. Len(queue')
            PROVE queue'[i].n <= arrived' /\ queue'[i].n \notin dropped' /\ Newest' < queue'[i].n
        <4>1. CASE i \in 1 .. Len(kept) /\ queue'[i] = kept[i]
          BY <4>1, <2>2, <1>2, <1>6, <1>9, <1>10
        <4>2. CASE queue'[i] = p
          BY <4>2, <3>1, <2>2, <1>2, <1>6, <1>7, <1>9, <1>12
        <4>3. QED
          BY <4>1, <4>2, <1>13
      <3>5. ASSUME NEW i \in 1 .. Len(queue'), NEW j \in 1 .. Len(queue'), i < j PROVE queue'[i].n < queue'[j].n
        <4>1. i \in 1 .. Len(kept) /\ queue'[i] = kept[i]
          BY <3>5, <1>4, <2>2
        <4>2. CASE j \in 1 .. Len(kept) /\ queue'[j] = kept[j]
          BY <4>1, <4>2, <3>5, <1>11
        <4>3. CASE queue'[j] = p
          BY <4>1, <4>3, <3>1, <1>2, <1>10
        <4>4. QED
          BY <4>2, <4>3, <1>13
      <3>6. QED
        BY <3>2, <3>3, <3>4, <3>5 DEF AudioQueue
    <2>3. QED
      BY <1>5, <2>1, <2>2
  <1>15. AudioDevice'
    <2>1. Newest' <= arrived'
      BY <1>2, <1>6
    <2>2. Audio!DeviceBound' /\ Audio!StartedMeansPlaying'
      BY <1>2 DEF AudioDevice, Audio!DeviceBound, Audio!StartedMeansPlaying
    <2>3. QED
      BY <1>2, <2>1, <2>2 DEF AudioDevice
  <1>16. AudioHands'
    <2>1. ASSUME NEW t \in Audio!Threads, Holds(t)
          PROVE  service[t].packet.n <= arrived' /\ \A i \in 1 .. Len(queue') : service[t].packet.n < queue'[i].n
      <3>1. service[t].packet.n \in 1 .. arrived /\ \A i \in 1 .. Len(queue) : service[t].packet.n < queue[i].n
        BY <2>1, <1>2 DEF AudioHands, Kept
      <3>2. ASSUME NEW i \in 1 .. Len(queue') PROVE service[t].packet.n < queue'[i].n
        <4>1. CASE i \in 1 .. Len(kept) /\ queue'[i] = kept[i]
          BY <4>1, <3>1, <1>4
        <4>2. CASE queue'[i] = p
          BY <4>2, <3>1, <1>2
        <4>3. QED
          BY <4>1, <4>2, <1>13
      <3>3. QED
        BY <3>1, <3>2, <1>2
    <2>2. \A t \in Audio!Threads : Holds(t)' <=> Holds(t)
      BY <1>2 DEF Holds
    <2>3. QED
      BY <1>2, <1>6, <2>1, <2>2 DEF AudioHands
  <1>17. AudioPlaces'
    BY <1>2 DEF AudioPlaces
  <1>18. QED
    BY <1>14, <1>15, <1>16, <1>17

(* Entering service_audio_output: the level is read. *)
LEMMA AudioEnters ==
  ASSUME Audio!AudioAssumption, AudioInv, NEW t \in Audio!Threads, Audio!Enters(t),
         \/ t = "reader" /\ reader = "serve" /\ reader' = "served" /\ UNCHANGED window
         \/ t = "main" /\ window = "round" /\ window' = "served" /\ UNCHANGED reader,
         UNCHANGED <<queue, queued_bytes, started, plays, device, arrived, dropped, played, refused>>
  PROVE  AudioInv'
  <1> USE DEF AudioInv, Serving
  <1> DEFINE s == [Audio!Idle EXCEPT !.pc = "look", !.sdl = Len(device.units)]
  <1>1. /\ \A u \in Audio!Threads : service[u].pc = "out"
        /\ service' = [service EXCEPT ![t] = s]
    BY Zenon DEF Audio!Enters, Audio!Unserved
  <1>2. service'[t].pc = "look" /\ service'[t].sdl = Len(device.units)
        /\ \A u \in Audio!Threads : u # t => service'[u].pc = "out"
    BY <1>1 DEF AudioHands, Audio!Idle
  <1>3. Newest' = Newest
    BY DEF Newest
  <1>4. AudioQueue'
    BY <1>3 DEF AudioQueue
  <1>5. AudioDevice'
    <2>1. Audio!StartedMeansPlaying'
      BY <1>1 DEF AudioDevice, Audio!StartedMeansPlaying
    <2>2. Audio!DeviceBound'
      BY DEF AudioDevice, Audio!DeviceBound
    <2>3. QED
      BY <1>3, <2>1, <2>2 DEF AudioDevice
  <1>6. AudioHands'
    <2>1. device.units \in Seq(1 .. Chunks)
      BY DEF AudioDevice
    <2>2. Len(device.units) \in Nat /\ (~started => Len(device.units) = 0)
      BY <2>1 DEF AudioDevice
    <2>3. s \in Serving
      <3>1. 0 \in 0 .. Chunks
        BY DEF Audio!AudioAssumption
      <3>2. QED
        BY <2>2, <3>1 DEF Audio!Idle, Audio!None
    <2>4. service' \in [Audio!Threads -> Serving]
      BY <1>1, <2>3 DEF AudioHands
    <2>5. ASSUME NEW u \in Audio!Threads
          PROVE /\ service'[u].pc # "out" => Len(device.units) <= service'[u].sdl
                /\ service'[u].pc # "out" /\ ~started => service'[u].pc = "look" /\ service'[u].sdl = 0
                /\ ~Holds(u)'
      BY <1>2, <2>2 DEF Holds
    <2>6. QED
      BY <2>4, <2>5 DEF AudioHands
  <1>7. AudioPlaces'
    BY <1>2 DEF AudioPlaces, Audio!Threads
  <1>8. QED
    BY <1>4, <1>5, <1>6, <1>7

(* Under audio.lock: a packet changes hands, or the service is over.       *)
LEMMA AudioLooks ==
  ASSUME Audio!AudioAssumption, AudioInv, NEW t \in Audio!Threads, Audio!Looks(t)
  PROVE  AudioInv'
  <1> USE DEF AudioInv, Serving
  <1> DEFINE s     == service[t]
             waits == ~started /\ s.sdl + queued_bytes < Prebuffer
             stops == s.sdl >= Target \/ queue = <<>>
  <1>0. MaxBuffer \in Nat /\ Chunks \in Nat /\ Target \in Nat
    BY DEF Audio!AudioAssumption
  <1>1. /\ s.pc = "look" /\ started' = (started \/ ~waits)
        /\ UNCHANGED <<reader, window, plays, device, arrived, dropped, played, refused>>
    BY DEF Audio!Looks
  <1>2. \A u \in Audio!Threads : u # t => service[u].pc = "out"
    BY <1>1 DEF AudioPlaces
  <1>3. Newest' = Newest /\ Newest \in 0 .. Chunks
    BY <1>1, NewestIs DEF Newest
  <1>4. device.units \in Seq(1 .. Chunks) /\ Len(device.units) \in Nat /\ Len(device.units) <= s.sdl /\ s.sdl \in Nat
    BY <1>1 DEF AudioDevice, AudioHands
  <1>5. Audio!DeviceBound' /\ (~started' => device.units = <<>> /\ device.paused)
    BY <1>1 DEF AudioDevice, Audio!DeviceBound
  <1>6. CASE waits \/ stops
    <2>1. service' = [service EXCEPT ![t] = Audio!Idle] /\ UNCHANGED <<queue, queued_bytes>>
      BY <1>6 DEF Audio!Looks, Audio!queues
    <2>2. \A u \in Audio!Threads : service'[u].pc = "out"
      BY <2>1, <1>2 DEF AudioHands, Audio!Idle
    <2>3. AudioQueue'
      BY <1>1, <1>3, <2>1 DEF AudioQueue
    <2>4. AudioHands'
      <3>1. Audio!Idle \in Serving
        BY <1>0 DEF Audio!Idle, Audio!None
      <3>2. service' \in [Audio!Threads -> Serving]
        BY <2>1, <3>1 DEF AudioHands
      <3>3. QED
        BY <2>2, <3>2 DEF AudioHands, Holds
    <2>5. started' = started
      <3>1. CASE ~started
        <4>1. s.sdl = 0
          BY <1>1, <3>1 DEF AudioHands
        <4>2. queue = <<>> => queued_bytes = 0
          BY BytesOfNone DEF AudioQueue
        <4>3. waits
          BY <1>6, <3>1, <4>1, <4>2 DEF Audio!AudioAssumption
        <4>4. QED
          BY Zenon, <1>1, <3>1, <4>3 DEF AudioPlaces
      <3>2. CASE started
        BY Zenon, <1>1, <3>2 DEF AudioPlaces
      <3>3. QED
        BY <3>1, <3>2
    <2>6. AudioDevice'
      <3>1. Audio!StartedMeansPlaying'
        <4>1. ~\E u \in Audio!Threads : service[u].pc = "start"
          BY <1>1, <1>2
        <4>2. started => ~device.paused
          BY <4>1 DEF AudioDevice, Audio!StartedMeansPlaying
        <4>3. QED
          BY <1>1, <2>5, <4>2 DEF Audio!StartedMeansPlaying
      <3>2. QED
        BY <1>1, <1>3, <1>5, <3>1 DEF AudioDevice
    <2>7. AudioPlaces'
      BY <1>1, <2>2, <2>5 DEF AudioPlaces, Audio!Threads
    <2>8. QED
      BY <2>3, <2>4, <2>6, <2>7
  <1>7. CASE ~(waits \/ stops)
    <2>0. queue # <<>> /\ s.sdl < Target /\ started' = TRUE
      <3>1. queue # <<>> /\ s.sdl < Target
        BY <1>4, <1>7, <1>0
      <3>2. started' = TRUE
        BY Zenon, <1>1, <1>7
      <3>3. QED
        BY <3>1, <3>2
    <2>1. /\ service' = [service EXCEPT ![t].pc = IF started THEN "feed" ELSE "start", ![t].packet = Head(queue)]
          /\ queue' = Tail(queue) /\ queued_bytes' = queued_bytes - Head(queue).size
      BY <1>7 DEF Audio!Looks
    <2>2. /\ service'[t].pc = (IF started THEN "feed" ELSE "start") /\ service'[t].packet = Head(queue)
          /\ service'[t].sdl = s.sdl /\ \A u \in Audio!Threads : u # t => service'[u] = service[u]
      BY <2>1 DEF AudioHands
    <2>3. /\ queue \in Seq(Kept) /\ Len(queue) \in Nat /\ Len(queue) > 0 /\ Head(queue) = queue[1] /\ queue[1] \in Kept
          /\ Tail(queue) \in Seq(Kept) /\ Len(Tail(queue)) = Len(queue) - 1
          /\ \A i \in 1 .. Len(queue) - 1 : Tail(queue)[i] = queue[i + 1] /\ i + 1 \in 1 .. Len(queue)
          /\ 1 \in 1 .. Len(queue)
      <3>1. queue \in Seq(Kept)
        BY DEF AudioQueue
      <3>2. QED
        BY <2>0, <3>1
    <2>4. AudioQueue'
      <3>1. queued_bytes' = Audio!Bytes(queue') /\ queued_bytes' <= MaxBuffer
        <4>1. Audio!Bytes(Tail(queue)) = Audio!Bytes(queue) - Head(queue).size
          BY <1>0, <2>0, <2>3, BytesOfTail
        <4>2. Audio!Bytes(queue) \in Nat /\ Head(queue).size \in Nat
          <5>1. Audio!Bytes(queue) \in Nat
            BY <1>0, <2>3, CellsFinite
          <5>2. Head(queue) \in Kept
            BY <2>3
          <5>3. Head(queue).size \in Sizes \cap (0 .. MaxBuffer)
            BY <5>2 DEF Kept
          <5>4. QED
            BY <5>1, <5>3
        <4>3. queued_bytes = Audio!Bytes(queue) /\ queued_bytes <= MaxBuffer
          BY DEF AudioQueue
        <4>4. QED
          BY <1>0, <2>1, <4>1, <4>2, <4>3
      <3>2. \A i \in 1 .. Len(queue') : queue'[i].n <= arrived /\ queue'[i].n \notin dropped /\ Newest < queue'[i].n
        BY <2>1, <2>3 DEF AudioQueue
      <3>3. ASSUME NEW i \in 1 .. Len(queue'), NEW j \in 1 .. Len(queue'), i < j PROVE queue'[i].n < queue'[j].n
        <4>1. queue'[i] = queue[i + 1] /\ queue'[j] = queue[j + 1] /\ i + 1 \in 1 .. Len(queue) /\ j + 1 \in 1 .. Len(queue)
              /\ i + 1 < j + 1
          BY <2>1, <2>3, <3>3
        <4>2. QED
          BY <4>1 DEF AudioQueue
      <3>4. QED
        BY <1>1, <1>3, <2>1, <2>3, <3>1, <3>2, <3>3 DEF AudioQueue
    <2>5. Audio!StartedMeansPlaying'
      <3>1. CASE started
        <4>1. ~\E u \in Audio!Threads : service[u].pc = "start"
          BY <1>1, <1>2
        <4>2. ~device.paused
          BY <3>1, <4>1 DEF AudioDevice, Audio!StartedMeansPlaying
        <4>3. QED
          BY <1>1, <4>2 DEF Audio!StartedMeansPlaying
      <3>2. CASE ~started
        BY <2>2, <3>2 DEF Audio!StartedMeansPlaying
      <3>3. QED
        BY <3>1, <3>2
    <2>6. AudioDevice'
      BY <1>1, <1>3, <1>5, <2>5 DEF AudioDevice
    <2>7. AudioHands'
      <3>1. service' \in [Audio!Threads -> Serving]
        <4>1. Head(queue) \in [n : 0 .. Chunks, size : Sizes \cup {0}]
          BY <2>3 DEF Kept
        <4>2. service \in [Audio!Threads -> Serving]
          BY DEF AudioHands
        <4>3. s \in Serving
          BY <4>2
        <4>4. [s EXCEPT !.pc = IF started THEN "feed" ELSE "start", !.packet = Head(queue)]
                \in Serving
          BY <4>1, <4>3
        <4>5. service' = [service EXCEPT ![t] = [s EXCEPT !.pc = IF started THEN "feed" ELSE "start", !.packet = Head(queue)]]
          BY <2>1, <4>2
        <4>6. QED
          BY <4>2, <4>4, <4>5
      <3>2. ASSUME NEW u \in Audio!Threads, u # t PROVE service'[u].pc = "out" /\ ~Holds(u)'
        BY <3>2, <1>2, <2>2 DEF Holds
      <3>3. Len(device.units) <= service'[t].sdl /\ service'[t].sdl < Target
        BY <1>4, <2>0, <2>2
      <3>4. /\ service'[t].packet \in Kept /\ Newest < service'[t].packet.n /\ service'[t].packet.n <= arrived
        BY <2>2, <2>3 DEF AudioQueue
      <3>5. \A i \in 1 .. Len(queue') : service'[t].packet.n < queue'[i].n
        <4>1. ASSUME NEW i \in 1 .. Len(queue') PROVE service'[t].packet.n < queue'[i].n
          <5>1. queue'[i] = queue[i + 1] /\ i + 1 \in 1 .. Len(queue) /\ 1 < i + 1 /\ service'[t].packet = queue[1]
            BY <2>1, <2>2, <2>3
          <5>2. queue[1].n < queue[i + 1].n
            BY <5>1, <2>3 DEF AudioQueue
          <5>3. QED
            BY <5>1, <5>2
        <4>2. QED
          BY <4>1
      <3>6. QED
        BY <1>1, <1>3, <2>0, <3>1, <3>2, <3>3, <3>4, <3>5 DEF AudioHands
    <2>8. AudioPlaces'
      <3>1. \A u \in Audio!Threads : service'[u].pc # "out" => u = t
        BY <1>2, <2>2
      <3>2. (window # "served" => t # "main") /\ (reader # "served" => t # "reader")
        BY <1>1 DEF AudioPlaces
      <3>3. started' \in BOOLEAN
        BY Zenon, <2>0
      <3>4. "main" \in Audio!Threads /\ "reader" \in Audio!Threads
        BY DEF Audio!Threads
      <3>5. QED
        BY <1>1, <3>1, <3>2, <3>3, <3>4 DEF AudioPlaces
    <2>9. QED
      BY <2>4, <2>6, <2>7, <2>8
  <1>8. QED
    BY <1>6, <1>7

(* The device is unpaused. *)
LEMMA AudioStarts ==
  ASSUME Audio!AudioAssumption, AudioInv, NEW t \in Audio!Threads, Audio!Starts(t)
  PROVE  AudioInv'
  <1> USE DEF AudioInv, Serving
  <1>1. /\ service[t].pc = "start" /\ device' = [device EXCEPT !.paused = FALSE]
        /\ service' = [service EXCEPT ![t].pc = "feed"]
        /\ UNCHANGED <<queue, queued_bytes, started, reader, window, plays, arrived, dropped, played, refused>>
    BY DEF Audio!Starts, Audio!queues
  <1>2. started
    BY <1>1 DEF AudioHands
  <1>3. device \in [units : Seq(1 .. Chunks), paused : BOOLEAN, open : BOOLEAN]
    BY DEF AudioDevice
  <1>4. device'.units = device.units /\ device'.open = device.open /\ device'.paused = FALSE
        /\ device' \in [units : Seq(1 .. Chunks), paused : BOOLEAN, open : BOOLEAN]
    BY <1>1, <1>3
  <1>5. Newest' = Newest
    BY <1>1, <1>4 DEF Newest
  <1>6. AudioQueue'
    BY <1>1, <1>5 DEF AudioQueue
  <1>7. AudioDevice'
    <2>1. Audio!DeviceBound'
      BY <1>4 DEF AudioDevice, Audio!DeviceBound
    <2>2. Audio!StartedMeansPlaying'
      BY <1>4 DEF Audio!StartedMeansPlaying
    <2>3. QED
      BY <1>1, <1>2, <1>4, <1>5, <2>1, <2>2 DEF AudioDevice
  <1>8. /\ service'[t].pc = "feed" /\ service'[t].sdl = service[t].sdl /\ service'[t].packet = service[t].packet
        /\ \A u \in Audio!Threads : u # t => service'[u] = service[u]
    BY <1>1 DEF AudioHands
  <1>9. \A u \in Audio!Threads : /\ service'[u].pc # "out" <=> service[u].pc # "out"
                                 /\ Holds(u)' <=> Holds(u)
                                 /\ service'[u].sdl = service[u].sdl /\ service'[u].packet = service[u].packet
    BY <1>1, <1>8 DEF Holds
  <1>10. AudioHands'
    <2>1. service' \in [Audio!Threads -> Serving]
      BY <1>1 DEF AudioHands
    <2>2. QED
      BY <1>1, <1>2, <1>4, <1>5, <1>9, <2>1 DEF AudioHands
  <1>11. AudioPlaces'
    BY <1>1, <1>4, <1>9 DEF AudioPlaces, Audio!Threads
  <1>12. QED
    BY <1>6, <1>7, <1>10, <1>11

LEMMA UnitsAre ==
  ASSUME NEW p, p.n \in 1 .. Chunks, p.size \in Nat
  PROVE  /\ Audio!Units(p) \in Seq(1 .. Chunks) /\ Len(Audio!Units(p)) = p.size
         /\ \A i \in 1 .. p.size : Audio!Units(p)[i] = p.n
  <1>1. [i \in 1 .. p.size |-> p.n] \in Seq(1 .. Chunks) /\ Len([i \in 1 .. p.size |-> p.n]) = p.size
    <2>1. ASSUME NEW S, NEW m \in Nat, NEW v \in S PROVE [i \in 1 .. m |-> v] \in Seq(S)
      OBVIOUS
    <2>2. [i \in 1 .. p.size |-> p.n] \in Seq(1 .. Chunks)
      BY <2>1
    <2>3. DOMAIN [i \in 1 .. p.size |-> p.n] = 1 .. p.size
      OBVIOUS
    <2>4. QED
      BY <2>2, <2>3
  <1>2. \A i \in 1 .. p.size : [j \in 1 .. p.size |-> p.n][i] = p.n
    OBVIOUS
  <1>3. QED
    BY <1>1, <1>2 DEF Audio!Units

(* The device gets a packet that is newer than anything it has, or refuses it. *)
LEMMA AudioFeeds ==
  ASSUME Audio!AudioAssumption, AudioInv, NEW t \in Audio!Threads, Audio!Feeds(t)
  PROVE  AudioInv'
  <1> USE DEF AudioInv, Serving
  <1> DEFINE p == service[t].packet
  <1>0. MaxBuffer \in Nat /\ Chunks \in Nat /\ Target \in Nat /\ Sizes \subseteq Nat /\ MaxRefused \in Nat
    BY DEF Audio!AudioAssumption
  <1>1. /\ service[t].pc = "feed"
        /\ UNCHANGED <<queue, queued_bytes, started, reader, window, plays, arrived, played>>
    BY DEF Audio!Feeds, Audio!queues
  <1>2. started /\ Holds(t) /\ \A u \in Audio!Threads : u # t => service[u].pc = "out"
    BY <1>1 DEF AudioHands, AudioPlaces, Holds
  <1>3. device \in [units : Seq(1 .. Chunks), paused : BOOLEAN, open : BOOLEAN]
        /\ Newest \in 0 .. Chunks
    BY NewestIs DEF AudioDevice
  <1>4. ~device.paused
    BY <1>1, <1>2 DEF AudioDevice, Audio!StartedMeansPlaying
  <1>5. /\ p \in Kept /\ p.n \in 1 .. Chunks /\ p.size \in Nat /\ p.size \in Sizes /\ p.size <= MaxBuffer
        /\ Newest < p.n /\ p.n <= arrived /\ \A i \in 1 .. Len(queue) : p.n < queue[i].n
        /\ service[t].sdl \in Nat /\ service[t].sdl < Target /\ Len(device.units) <= service[t].sdl
    <2>1. p \in Kept
      BY <1>2 DEF AudioHands
    <2>2. p.n \in 1 .. Chunks /\ p.size \in Nat /\ p.size \in Sizes /\ p.size <= MaxBuffer
      BY <2>1, <1>0 DEF Kept
    <2>3. QED
      BY <1>1, <1>2, <2>1, <2>2 DEF AudioHands
  <1>6. service \in [Audio!Threads -> Serving]
    BY DEF AudioHands
  <1>7. CASE /\ device' = [device EXCEPT !.units = @ \o Audio!Units(p)]
             /\ service' = [service EXCEPT ![t] = [Audio!Idle EXCEPT !.pc = "look", !.sdl = service[t].sdl + p.size]]
             /\ UNCHANGED <<dropped, refused>>
    <2> DEFINE d == device.units
               e == device'.units
    <2>1. Audio!Units(p) \in Seq(1 .. Chunks) /\ Len(Audio!Units(p)) = p.size
          /\ \A i \in 1 .. p.size : Audio!Units(p)[i] = p.n
      BY <1>5, UnitsAre
    <2>2. e = d \o Audio!Units(p) /\ device'.paused = device.paused /\ device'.open = device.open
      BY <1>3, <1>7
    <2>3. d \in Seq(1 .. Chunks) /\ Len(d) \in Nat
      BY <1>3
    <2>4. /\ e \in Seq(1 .. Chunks) /\ Len(e) = Len(d) + p.size
          /\ \A i \in 1 .. Len(d) : e[i] = d[i]
          /\ \A i \in 1 .. Len(e) : ~(i <= Len(d)) => e[i] = p.n
      <3> DEFINE u == Audio!Units(p)
      <3>1. u \in Seq(1 .. Chunks) /\ Len(u) = p.size /\ (\A i \in 1 .. p.size : u[i] = p.n) /\ e = d \o u
        BY <2>1, <2>2
      <3> HIDE DEF u, d, e
      <3>2. e \in Seq(1 .. Chunks) /\ Len(e) = Len(d) + Len(u)
            /\ \A i \in 1 .. Len(d) + Len(u) : e[i] = IF i <= Len(d) THEN d[i] ELSE u[i - Len(d)]
        BY <3>1, <2>3, ConcatProperties
      <3>3. \A i \in 1 .. Len(e) : ~(i <= Len(d)) => e[i] = p.n
        <4>1. ASSUME NEW i \in 1 .. Len(e), ~(i <= Len(d)) PROVE e[i] = p.n
          <5>1. i - Len(d) \in 1 .. p.size /\ i \in 1 .. Len(d) + Len(u)
            BY <4>1, <3>1, <3>2, <2>3, <1>5
          <5>2. QED
            BY <5>1, <4>1, <3>1, <3>2
        <4>2. QED
          BY <4>1
      <3>4. \A i \in 1 .. Len(d) : e[i] = d[i]
        BY <3>1, <3>2, <2>3, <1>5
      <3>5. QED
        BY <3>1, <3>2, <3>3, <3>4
    <2>5. device' \in [units : Seq(1 .. Chunks), paused : BOOLEAN, open : BOOLEAN]
      BY <1>3, <1>7, <2>2, <2>4
    <2>6. IF p.size = 0 THEN e = d ELSE Len(e) \in 1 .. Len(e) /\ e[Len(e)] = p.n /\ e # <<>>
      <3>1. CASE p.size = 0
        <4>1. Audio!Units(p) = <<>>
          BY <2>1, <3>1, EmptySeq
        <4>2. QED
          BY <2>2, <2>3, <3>1, <4>1
      <3>2. CASE p.size # 0
        <4>1. Len(e) \in 1 .. Len(e) /\ ~(Len(e) <= Len(d))
          BY <2>3, <2>4, <3>2, <1>5
        <4>2. e # <<>>
          BY <4>1
        <4>3. QED
          BY <2>4, <3>2, <4>1, <4>2
      <3>3. QED
        BY <3>1, <3>2
    <2>7. Newest' = (IF p.size = 0 THEN Newest ELSE p.n)
      BY <1>1, <2>6 DEF Newest
    <2> HIDE DEF d, e
    <2>8. AudioQueue'
      BY <1>1, <1>7, <2>7, <1>5 DEF AudioQueue
    <2>9. AudioDevice'
      <3>1. e # <<>> => played.n <= e[1]
        <4>1. CASE d = <<>>
          <5>1. Newest = played.n
            BY <4>1 DEF Newest, d
          <5>2. e # <<>> => e[1] = p.n
            <6>1. Len(d) = 0
              BY <4>1
            <6>2. SUFFICES ASSUME e # <<>> PROVE e[1] = p.n
              OBVIOUS
            <6>3. 1 \in 1 .. Len(e)
              BY <6>2, <2>4
            <6>4. QED
              BY <6>1, <6>3, <2>4
          <5>3. QED
            BY <5>1, <5>2, <1>3, <1>5
        <4>2. CASE d # <<>>
          <5>1. 1 \in 1 .. Len(d)
            BY <4>2, <2>3
          <5>2. played.n <= d[1]
            BY <4>2 DEF AudioDevice, d
          <5>3. e[1] = d[1]
            BY <5>1, <2>4
          <5>4. QED
            BY <5>2, <5>3
        <4>3. QED
          BY <4>1, <4>2
      <3>2. \A i \in 1 .. Len(d) : d[i] <= Newest
        BY UpwardsTo DEF AudioDevice, d
      <3>3. ASSUME NEW i \in 1 .. Len(e) - 1 PROVE e[i] <= e[i + 1]
        <4>0. i \in Nat /\ 1 <= i /\ i \in 1 .. Len(e) /\ i + 1 \in 1 .. Len(e)
          <5>1. Len(e) \in Nat
            BY <2>3, <2>4, <1>5
          <5>2. QED
            BY <5>1, <3>3
        <4>1. CASE i + 1 <= Len(d)
          BY <4>0, <4>1, <2>3, <2>4 DEF AudioDevice, d
        <4>2. CASE i <= Len(d) /\ ~(i + 1 <= Len(d))
          <5>1. e[i] = d[i] /\ e[i + 1] = p.n /\ d[i] <= Newest
            BY <4>0, <4>2, <2>3, <2>4, <1>5, <3>2
          <5>2. d[i] \in 1 .. Chunks
            <6>1. i \in 1 .. Len(d)
              BY <4>0, <4>2, <2>3
            <6>2. QED
              BY <6>1, <2>3, ElementOfSeq
          <5>3. QED
            BY <5>1, <5>2, <1>3, <1>5
        <4>3. CASE ~(i <= Len(d))
          <5>1. e[i] = p.n
            BY <4>0, <4>3, <2>4
          <5>2. ~(i + 1 <= Len(d))
            BY <4>0, <4>3, <2>3
          <5>3. e[i + 1] = p.n
            BY <4>0, <5>2, <2>4
          <5>4. QED
            BY <5>1, <5>3, <1>5
        <4>4. QED
          BY <4>1, <4>2, <4>3
      <3>4. Newest' <= arrived'
        BY <1>1, <1>5, <2>7 DEF AudioDevice
      <3>5. Audio!DeviceBound'
        <4>1. Len(e) < Target + p.size
          BY <1>0, <1>5, <2>3, <2>4 DEF d
        <4>2. QED
          BY <4>1, <1>5 DEF Audio!DeviceBound, e
      <3>6. Audio!StartedMeansPlaying'
        BY <1>4, <2>2 DEF Audio!StartedMeansPlaying
      <3>7. QED
        BY <1>1, <1>2, <2>5, <3>1, <3>3, <3>4, <3>5, <3>6 DEF AudioDevice, e
    <2>10. AudioHands'
      <3>1. service'[t].pc = "look" /\ service'[t].sdl = service[t].sdl + p.size
            /\ \A u \in Audio!Threads : u # t => service'[u] = service[u]
        BY <1>6, <1>7 DEF Audio!Idle
      <3>2. [Audio!Idle EXCEPT !.pc = "look", !.sdl = service[t].sdl + p.size]
              \in Serving
        <4>1. service[t].sdl + p.size \in Nat /\ 0 \in 0 .. Chunks
          BY <1>0, <1>5
        <4>2. QED
          BY <4>1 DEF Audio!Idle, Audio!None
      <3>3. service' \in [Audio!Threads -> Serving]
        BY <1>6, <1>7, <3>2
      <3>4. Len(e) <= service'[t].sdl
        BY <3>1, <2>3, <2>4, <1>5 DEF d
      <3>5. \A u \in Audio!Threads : ~Holds(u)' /\ (service'[u].pc # "out" => u = t)
        BY <3>1, <1>2 DEF Holds
      <3>6. QED
        BY <1>1, <1>2, <3>3, <3>4, <3>5 DEF AudioHands, e
    <2>11. AudioPlaces'
      <3>1. \A u \in Audio!Threads : service'[u].pc = "out" <=> service[u].pc = "out"
        BY <1>1, <1>6, <1>7 DEF Audio!Idle
      <3>2. QED
        BY <1>1, <1>7, <2>2, <3>1 DEF AudioPlaces, Audio!Threads
    <2>12. QED
      BY <2>8, <2>9, <2>10, <2>11
  <1>8. CASE /\ refused < MaxRefused /\ refused' = refused + 1
             /\ service' = [service EXCEPT ![t] = Audio!Idle]
             /\ dropped' = dropped \cup {p.n} /\ UNCHANGED device
    <2>1. Newest' = Newest
      BY <1>1, <1>8 DEF Newest
    <2>2. \A u \in Audio!Threads : service'[u].pc = "out"
      BY <1>2, <1>6, <1>8 DEF Audio!Idle
    <2>3. AudioQueue'
      <3>1. dropped' \subseteq 1 .. arrived'
        <4>1. p.n \in 1 .. arrived /\ dropped \subseteq 1 .. arrived
          BY <1>5 DEF AudioQueue
        <4>2. QED
          BY <1>1, <1>8, <4>1
      <3>2. \A i \in 1 .. Len(queue) : queue[i].n \notin dropped'
        <4>1. ASSUME NEW i \in 1 .. Len(queue) PROVE queue[i].n # p.n
          BY <1>5
        <4>2. QED
          BY <1>8, <4>1 DEF AudioQueue
      <3>3. QED
        BY <1>1, <2>1, <3>1, <3>2 DEF AudioQueue
    <2>4. AudioDevice'
      <3>1. Audio!DeviceBound' /\ Audio!StartedMeansPlaying'
        BY <1>1, <1>4, <1>8 DEF AudioDevice, Audio!DeviceBound, Audio!StartedMeansPlaying
      <3>2. QED
        BY <1>1, <1>8, <2>1, <3>1 DEF AudioDevice
    <2>5. AudioHands'
      <3>1. Audio!Idle \in Serving
        BY <1>0 DEF Audio!Idle, Audio!None
      <3>2. service' \in [Audio!Threads -> Serving]
        BY <1>6, <1>8, <3>1
      <3>3. QED
        BY <2>2, <3>2 DEF AudioHands, Holds
    <2>6. AudioPlaces'
      <3>1. refused' \in 0 .. MaxRefused
        BY <1>0, <1>8 DEF AudioPlaces
      <3>2. QED
        BY <1>1, <1>8, <2>2, <3>1 DEF AudioPlaces, Audio!Threads
    <2>7. QED
      BY <2>3, <2>4, <2>5, <2>6
  <1>9. QED
    BY <1>7, <1>8 DEF Audio!Feeds

(* The device plays its oldest unit. *)
LEMMA AudioPlays == ASSUME Audio!AudioAssumption, AudioInv, Audio!Plays PROVE AudioInv'
  <1> USE DEF AudioInv, Serving
  <1> DEFINE d == device.units
             e == device'.units
  <1>1. /\ d # <<>> /\ device' = [device EXCEPT !.units = Tail(@)]
        /\ played' = [n |-> Head(d), back |-> played.back \/ Head(d) < played.n]
        /\ UNCHANGED <<queue, queued_bytes, started, service, reader, window, plays, arrived, dropped, refused>>
    BY DEF Audio!Plays, Audio!queues
  <1>2. device \in [units : Seq(1 .. Chunks), paused : BOOLEAN, open : BOOLEAN]
        /\ played \in [n : 0 .. Chunks, back : BOOLEAN] /\ ~played.back /\ played.n <= d[1]
    BY <1>1 DEF AudioDevice
  <1>3. e = Tail(d) /\ device'.paused = device.paused /\ device'.open = device.open
    BY <1>1, <1>2
  <1>4. d \in Seq(1 .. Chunks) /\ \A i \in 1 .. Len(d) - 1 : d[i] <= d[i + 1]
    BY <1>2 DEF AudioDevice
  <1> HIDE DEF d, e
  <1>5. /\ Len(d) \in Nat /\ Len(d) > 0 /\ Head(d) = d[1] /\ e \in Seq(1 .. Chunks) /\ Len(e) = Len(d) - 1
        /\ \A i \in 1 .. Len(d) - 1 : e[i] = d[i + 1]
        /\ 1 \in 1 .. Len(d) /\ d[1] \in 1 .. Chunks
    <2>1. d # <<>>
      BY <1>1 DEF d
    <2>2. Head(d) = d[1] /\ e \in Seq(1 .. Chunks) /\ Len(e) = Len(d) - 1 /\ Len(d) \in Nat /\ Len(d) > 0
      BY <2>1, <1>3, <1>4
    <2>3. \A i \in 1 .. Len(d) - 1 : e[i] = d[i + 1]
      BY <2>1, <1>3, <1>4, HeadTailProperties
    <2>4. 1 \in 1 .. Len(d)
      BY <2>2
    <2>5. d[1] \in 1 .. Chunks
      BY <2>4, <1>4, ElementOfSeq
    <2>6. QED
      BY <2>2, <2>3, <2>4, <2>5
  <1>6. device' \in [units : Seq(1 .. Chunks), paused : BOOLEAN, open : BOOLEAN]
    BY <1>1, <1>2, <1>3, <1>5 DEF d, e
  <1>7. played'.n = d[1] /\ played'.back = FALSE /\ played' \in [n : 0 .. Chunks, back : BOOLEAN]
    <2>1. ~(Head(d) < played.n)
      BY <1>2, <1>5
    <2>2. (played.back \/ Head(d) < played.n) = FALSE
      BY Zenon, <1>2, <2>1
    <2>3. played' = [n |-> Head(d), back |-> FALSE]
      BY Zenon, <1>1, <2>2
    <2>4. QED
      BY <2>3, <1>5
  <1>8. Newest' = Newest
    <2>1. CASE e = <<>>
      <3>1. Len(e) = 0
        BY <2>1
      <3>2. Len(d) = 1
        BY <1>5, <3>1
      <3>3. QED
        BY <1>1, <1>7, <2>1, <3>2 DEF Newest, d, e
    <2>2. CASE e # <<>>
      <3>1. Len(e) # 0
        BY <1>5, <2>2, EmptySeq
      <3>2. Len(e) \in 1 .. Len(d) - 1 /\ Len(e) + 1 = Len(d)
        BY <1>5, <3>1
      <3>3. e[Len(e)] = d[Len(d)]
        BY <1>5, <3>2
      <3>4. QED
        BY <1>1, <2>2, <3>3 DEF Newest, d, e
    <2>3. QED
      BY <2>1, <2>2
  <1>9. AudioQueue'
    BY <1>1, <1>8 DEF AudioQueue
  <1>10. AudioDevice'
    <2>1. e # <<>> => played'.n <= e[1]
      <3>1. SUFFICES ASSUME e # <<>> PROVE d[1] <= e[1]
        BY <1>7
      <3>2. Len(e) # 0
        BY <1>5, <3>1, EmptySeq
      <3>3. 1 \in 1 .. Len(d) - 1
        BY <1>5, <3>2
      <3>4. d[1] <= d[1 + 1] /\ e[1] = d[1 + 1]
        BY <1>4, <1>5, <3>3
      <3>5. QED
        BY <3>4
    <2>2. ASSUME NEW i \in 1 .. Len(e) - 1 PROVE e[i] <= e[i + 1]
      <3>1. i \in 1 .. Len(d) - 1 /\ i + 1 \in 1 .. Len(d) - 1
        BY <1>5
      <3>2. e[i] = d[i + 1] /\ e[i + 1] = d[(i + 1) + 1]
        BY <1>5, <3>1
      <3>3. d[i + 1] <= d[(i + 1) + 1]
        BY <1>4, <3>1
      <3>4. QED
        BY <3>2, <3>3
    <2>3. Newest' <= arrived'
      BY <1>1, <1>8 DEF AudioDevice
    <2>4. Audio!DeviceBound'
      <3>1. Len(d) < Target \/ \E s \in Sizes : s <= MaxBuffer /\ Len(d) < Target + s
        BY DEF AudioDevice, Audio!DeviceBound, d
      <3>2. Target \in Nat /\ Sizes \subseteq Nat
        BY DEF Audio!AudioAssumption
      <3>3. Len(e) < Target \/ \E s \in Sizes : s <= MaxBuffer /\ Len(e) < Target + s
        BY <1>5, <3>1, <3>2
      <3>4. QED
        BY <3>3 DEF Audio!DeviceBound, e
    <2>5. Audio!StartedMeansPlaying'
      BY <1>1, <1>3 DEF AudioDevice, Audio!StartedMeansPlaying
    <2>6. ~started' => e = <<>> /\ device'.paused
      BY <1>1 DEF AudioDevice, d
    <2>7. QED
      BY <1>6, <1>7, <2>1, <2>2, <2>3, <2>4, <2>5, <2>6 DEF AudioDevice, e
  <1>11. AudioHands'
    <2>1. ASSUME NEW t \in Audio!Threads, service[t].pc # "out" PROVE Len(e) <= service[t].sdl
      <3>1. Len(d) <= service[t].sdl /\ service[t].sdl \in Nat
        BY <2>1 DEF AudioHands, d
      <3>2. QED
        BY <3>1, <1>5
    <2>2. QED
      BY <1>1, <1>8, <2>1 DEF AudioHands, Holds, e
  <1>12. AudioPlaces'
    BY <1>1, <1>3 DEF AudioPlaces
  <1>13. QED
    BY <1>9, <1>10, <1>11, <1>12

(* Steps that only move a thread, stop, or close the device. *)
LEMMA AudioMoves ==
  ASSUME AudioInv,
         UNCHANGED <<queue, queued_bytes, started, service, arrived, dropped, played, refused>>,
         device' = device \/ device' = [device EXCEPT !.open = FALSE],
         AudioPlaces'
  PROVE  AudioInv'
  <1> USE DEF AudioInv, Serving
  <1>1. device \in [units : Seq(1 .. Chunks), paused : BOOLEAN, open : BOOLEAN]
    BY DEF AudioDevice
  <1>2. device'.units = device.units /\ device'.paused = device.paused
        /\ device' \in [units : Seq(1 .. Chunks), paused : BOOLEAN, open : BOOLEAN]
    BY <1>1
  <1>3. Newest' = Newest
    BY <1>2 DEF Newest
  <1>4. AudioQueue'
    BY <1>3 DEF AudioQueue
  <1>5. AudioDevice'
    <2>1. Audio!DeviceBound' /\ Audio!StartedMeansPlaying'
      BY <1>2 DEF AudioDevice, Audio!DeviceBound, Audio!StartedMeansPlaying
    <2>2. QED
      BY <1>2, <1>3, <2>1 DEF AudioDevice
  <1>6. AudioHands'
    BY <1>2, <1>3 DEF AudioHands, Holds
  <1>7. QED
    BY <1>4, <1>5, <1>6

LEMMA AudioStep == ASSUME Audio!AudioAssumption, AudioInv, [Audio!Next]_Audio!vars PROVE AudioInv'
  <1>0. AudioPlaces
    BY DEF AudioInv
  <1>1. CASE Audio!ReaderGets
    BY <1>1, AudioGets
  <1>2. CASE Audio!ReaderEnters
    <2>1. "reader" \in Audio!Threads
      BY DEF Audio!Threads
    <2>2. QED
      BY <1>2, <2>1, AudioEnters DEF Audio!ReaderEnters, Audio!queues
  <1>3. CASE Audio!MainEnters
    <2>1. "main" \in Audio!Threads
      BY DEF Audio!Threads
    <2>2. QED
      BY <1>3, <2>1, AudioEnters DEF Audio!MainEnters, Audio!queues
  <1>4. CASE Audio!ReaderReturns
    <2>1. AudioPlaces'
      BY <1>0, <1>4 DEF AudioPlaces, Audio!ReaderReturns
    <2>2. QED
      BY <1>4, <2>1, AudioMoves DEF Audio!ReaderReturns, Audio!queues
  <1>5. CASE Audio!MainReturns
    <2>1. AudioPlaces'
      BY <1>0, <1>5 DEF AudioPlaces, Audio!MainReturns
    <2>2. QED
      BY <1>5, <2>1, AudioMoves DEF Audio!MainReturns, Audio!queues
  <1>6. CASE Audio!ReaderEnds
    <2>1. AudioPlaces'
      BY <1>0, <1>6 DEF AudioPlaces, Audio!ReaderEnds
    <2>2. QED
      BY <1>6, <2>1, AudioMoves DEF Audio!ReaderEnds, Audio!queues
  <1>7. CASE Audio!MainCloses
    <2>1. AudioPlaces'
      BY <1>0, <1>7 DEF AudioPlaces, Audio!MainCloses
    <2>2. QED
      BY <1>7, <2>1, AudioMoves DEF Audio!MainCloses, Audio!queues
  <1>8. CASE Audio!Stops
    <2>1. AudioPlaces'
      BY <1>0, <1>8 DEF AudioPlaces, Audio!Stops
    <2>2. QED
      BY <1>8, <2>1, AudioMoves DEF Audio!Stops, Audio!queues
  <1>9. CASE Audio!Plays
    BY <1>9, AudioPlays
  <1>10. ASSUME NEW t \in Audio!Threads, Audio!Service(t) PROVE AudioInv'
    BY <1>10, AudioLooks, AudioStarts, AudioFeeds DEF Audio!Service
  <1>11. CASE Audio!Ended \/ UNCHANGED Audio!vars
    <2>1. UNCHANGED Audio!vars
      BY <1>11 DEF Audio!Ended
    <2>2. AudioPlaces'
      BY <1>0, <2>1 DEF AudioPlaces, Audio!vars
    <2>3. QED
      BY <2>1, <2>2, AudioMoves DEF Audio!vars
  <1>12. QED
    BY <1>1, <1>2, <1>3, <1>4, <1>5, <1>6, <1>7, <1>8, <1>9, <1>10, <1>11 DEF Audio!Next

(* Whatever interleaving of the reader, the main thread and SDL: the queue *)
(* is counted and in order, what a thread took is the next packet, and the *)
(* level it goes by was below the target when it took it.                  *)
THEOREM AudioInvariant == ASSUME Audio!AudioAssumption PROVE Audio!Spec => []AudioInv
  <1>1. Audio!Init => AudioInv
    BY AudioInit
  <1>2. AudioInv /\ [Audio!Next]_Audio!vars => AudioInv'
    BY AudioStep
  <1>3. QED
    BY <1>1, <1>2, PTL DEF Audio!Spec

-----------------------------------------------------------------------------
(* The audio trace: numbers modulo W.                                      *)

(* A number is so many rounds and its remainder, and in one way only.      *)
LEMMA Rounds ==
  ASSUME W \in Nat \ {0}, NEW x \in Int
  PROVE  x % W \in 0 .. W - 1 /\ \E q \in Int : x = q * W + (x % W)
  <1>1. x = W * (x \div W) + (x % W) /\ x % W \in 0 .. W - 1 /\ x \div W \in Int
    BY SMT
  <1>2. x = (x \div W) * W + (x % W)
    BY <1>1
  <1>3. QED
    BY <1>1, <1>2

LEMMA OneRemainder ==
  ASSUME W \in Nat \ {0}, NEW q \in Int, NEW r \in 0 .. W - 1
  PROVE  (q * W + r) % W = r
  BY SMTT(30)

(* Counting on from a remainder is counting on from the number. *)
LEMMA CountsOn ==
  ASSUME W \in Nat \ {0}, NEW x \in Int
  PROVE  ((x % W) + 1) % W = (x + 1) % W
  <1>1. PICK q \in Int : x = q * W + (x % W) /\ x % W \in 0 .. W - 1
    BY Rounds
  <1>2. CASE (x % W) + 1 = W
    <2>1. x + 1 = (q + 1) * W + 0
      BY <1>1, <1>2
    <2>2. W = 1 * W + 0
      OBVIOUS
    <2>3. (x + 1) % W = 0 /\ W % W = 0
      <3>1. 0 \in 0 .. W - 1 /\ 1 \in Int /\ q + 1 \in Int
        OBVIOUS
      <3>2. ((q + 1) * W + 0) % W = 0 /\ (1 * W + 0) % W = 0
        BY <3>1, OneRemainder
      <3>3. QED
        BY <3>2, <2>1, <2>2
    <2>4. QED
      BY <2>3, <1>2
  <1>3. CASE (x % W) + 1 \in 0 .. W - 1
    <2>1. x + 1 = q * W + ((x % W) + 1)
      BY <1>1
    <2>2. (x + 1) % W = (x % W) + 1
      BY <2>1, <1>3, OneRemainder
    <2>3. (x % W) + 1 = 0 * W + ((x % W) + 1)
      BY <1>3
    <2>4. ((x % W) + 1) % W = (x % W) + 1
      BY <2>3, <1>3, OneRemainder
    <2>5. QED
      BY <2>2, <2>4
  <1>4. QED
    BY <1>1, <1>2, <1>3

(* The same remainder again means whole rounds in between. *)
LEMMA WholeRounds ==
  ASSUME W \in Nat \ {0}, NEW x \in Int, NEW l \in Nat
  PROVE  (x + l) % W = x % W <=> l % W = 0
  <1>1. PICK q \in Int : x = q * W + (x % W) /\ x % W \in 0 .. W - 1
    BY Rounds
  <1>0. l \in Int /\ x + l \in Int
    OBVIOUS
  <1>2. PICK k \in Int : l = k * W + (l % W) /\ l % W \in 0 .. W - 1
    BY <1>0, Rounds
  <1>3. ASSUME l % W = 0 PROVE (x + l) % W = x % W
    <2>1. l = k * W
      BY <1>2, <1>3
    <2>2. x + l = (q + k) * W + (x % W)
      BY <1>1, <2>1
    <2>3. QED
      BY <2>2, <1>1, OneRemainder
  <1>4. ASSUME (x + l) % W = x % W PROVE l % W = 0
    <2>1. PICK m \in Int : x + l = m * W + ((x + l) % W)
      BY <1>0, Rounds
    <2>2. l = (m - q) * W + 0
      BY <1>1, <1>4, <2>1
    <2>3. QED
      BY <2>2, OneRemainder
  <1>5. QED
    BY <1>3, <1>4

-----------------------------------------------------------------------------
(* Since the last chunk that arrived, the source counted what was lost; if *)
(* nothing was, the cursor is at that chunk's end, or at a new beginning.  *)
TraceInv ==
  /\ Trace!TypeOK /\ sends \in Nat
  /\ prev \in [have : BOOLEAN, index : 0 .. W - 1, offset : Nat, bytes : Nat]
  /\ prev.have /\ ~anew => index = (prev.index + 1 + missing) % W
  /\ prev.have /\ missing = 0 => cursor = prev.offset + prev.bytes \/ cursor = 0

LEMMA TraceStarts == ASSUME Trace!AudioTraceAssumption, Trace!Init PROVE TraceInv
  <1> USE DEF Trace!Init
  <1>1. W \in Nat \ {0} /\ size \in Nat /\ 0 \in 0 .. W - 1
    BY DEF Trace!AudioTraceAssumption
  <1>2. prev.have = FALSE /\ prev.index = 0 /\ prev.offset + prev.bytes = 0
        /\ prev \in [have : BOOLEAN, index : 0 .. W - 1, offset : Nat, bytes : Nat]
    BY <1>1
  <1>3. anew \in BOOLEAN /\ ~prev.have
    BY Zenon, <1>2
  <1>4. Trace!TypeOK
    BY <1>1, <1>2, <1>3 DEF Trace!TypeOK
  <1>5. QED
    BY <1>1, <1>2, <1>3, <1>4 DEF TraceInv

(* A chunk lies within the file. *)
LEMMA ChunkFits ==
  ASSUME Trace!AudioTraceAssumption, Trace!TypeOK
  PROVE  /\ Trace!Bytes \in 1 .. size /\ Trace!From \in 0 .. size /\ Trace!From + Trace!Bytes \in 1 .. size
         /\ Trace!From = cursor \/ Trace!From = 0
         /\ (index + 1) % W \in 0 .. W - 1 /\ size \in Nat /\ index \in Nat
  <1>1. size \in Nat \ {0} /\ index \in Nat /\ W \in Nat \ {0} /\ cursor \in 0 .. size /\ Slice \in Nat \ {0}
    BY DEF Trace!AudioTraceAssumption, Trace!TypeOK
  <1>2. (index + 1) % W \in 0 .. W - 1
    BY <1>1, Rounds
  <1>3. Trace!Bytes \in 1 .. size
    BY <1>1 DEF Trace!Bytes, Trace!Least
  <1>4. Trace!From \in 0 .. size /\ Trace!From + Trace!Bytes \in 1 .. size
        /\ (Trace!From = cursor \/ Trace!From = 0)
    BY <1>1, <1>3 DEF Trace!From
  <1>5. QED
    BY <1>1, <1>2, <1>3, <1>4

(* The index that is due is the one after the last, and as many more as    *)
(* were lost: the check compares the same numbers.                         *)
LEMMA GapMeansLoss ==
  ASSUME Trace!AudioTraceAssumption, TraceInv, prev.have, ~anew
  PROVE  Trace!Gap(Trace!Chunk) <=> missing % W # 0
  <1>1. W \in Nat \ {0} /\ prev.index + 1 \in Int /\ missing \in Nat
    BY DEF Trace!AudioTraceAssumption, TraceInv, Trace!TypeOK
  <1>2. index = (prev.index + 1 + missing) % W
    BY DEF TraceInv
  <1>3. index = (prev.index + 1) % W <=> missing % W = 0
    BY <1>1, <1>2, WholeRounds
  <1>4. QED
    BY <1>3 DEF Trace!Gap, Trace!Chunk

LEMMA JumpMeansLoss ==
  ASSUME Trace!AudioTraceAssumption, TraceInv, Trace!Jumped(Trace!Chunk)
  PROVE  missing > 0
  <1>1. Trace!From = cursor \/ Trace!From = 0
    BY ChunkFits DEF TraceInv
  <1>2. prev.have /\ Trace!From # prev.offset + prev.bytes /\ Trace!From # 0
    BY DEF Trace!Jumped, Trace!Chunk
  <1>3. missing \in Nat
    BY DEF TraceInv, Trace!TypeOK
  <1>4. QED
    BY <1>1, <1>2, <1>3 DEF TraceInv

LEMMA TraceStep ==
  ASSUME Trace!AudioTraceAssumption, TraceInv, [Trace!Next]_Trace!vars
  PROVE  TraceInv' /\ Trace!GapIsLoss /\ Trace!JumpIsLoss
  <1>0. /\ W \in Nat \ {0} /\ size \in Nat /\ size \in 1 .. MaxSize /\ cursor \in 0 .. size /\ index \in 0 .. W - 1
        /\ sends \in Nat /\ gaps \in 0 .. sends /\ jumps \in 0 .. sends /\ missing \in 0 .. sends
        /\ anew \in BOOLEAN /\ prev.offset + prev.bytes \in 0 .. size
        /\ prev \in [have : BOOLEAN, index : 0 .. W - 1, offset : Nat, bytes : Nat]
        /\ Trace!TypeOK /\ 0 \in 0 .. W - 1
    BY DEF Trace!AudioTraceAssumption, TraceInv, Trace!TypeOK
  <1>1. ASSUME Trace!Sends
        PROVE  /\ sends' = sends + 1 /\ index' = (index + 1) % W /\ index' \in 0 .. W - 1
               /\ cursor' = Trace!From + Trace!Bytes /\ cursor' \in 1 .. size /\ UNCHANGED <<size, starts>>
    BY <1>0, <1>1, ChunkFits DEF Trace!Sends
  <1>2. CASE Trace!Arrives
    <2>1. Trace!Sends /\ Trace!Takes(Trace!Chunk) /\ missing' = 0 /\ anew' = FALSE
      BY <1>2 DEF Trace!Arrives
    <2>2. prev' = [have |-> TRUE, index |-> index, offset |-> Trace!From, bytes |-> Trace!Bytes]
      BY <2>1 DEF Trace!Takes, Trace!Chunk
    <2>3. /\ prev'.have = TRUE /\ prev'.index = index /\ prev'.offset = Trace!From /\ prev'.bytes = Trace!Bytes
          /\ Trace!From \in Nat /\ Trace!Bytes \in Nat
          /\ prev' \in [have : BOOLEAN, index : 0 .. W - 1, offset : Nat, bytes : Nat]
      <3>1. Trace!From \in Nat /\ Trace!Bytes \in Nat
        BY <1>0, ChunkFits
      <3>2. QED
        BY <2>2, <3>1, <1>0
    <2>4. gaps' = (IF Trace!Gap(Trace!Chunk) THEN gaps + 1 ELSE gaps)
          /\ jumps' = (IF Trace!Jumped(Trace!Chunk) THEN jumps + 1 ELSE jumps)
      BY <2>1 DEF Trace!Takes
    <2>5. gaps' \in 0 .. sends' /\ jumps' \in 0 .. sends'
      BY <1>0, <1>1, <2>1, <2>4
    <2>6. Trace!TypeOK'
      <3>1. size' = size /\ cursor' \in 0 .. size /\ index' \in 0 .. W - 1 /\ sends' \in Nat
        BY <1>0, <1>1, <2>1
      <3>2. prev'.offset + prev'.bytes \in 0 .. size /\ prev'.index \in 0 .. W - 1
        BY <1>0, <1>1, <2>1, <2>3
      <3>3. missing' \in 0 .. sends' /\ anew' \in BOOLEAN
        <4>1. anew' \in BOOLEAN
          BY Zenon, <2>1
        <4>2. QED
          BY <2>1, <3>1, <4>1
      <3>4. QED
        BY <1>0, <2>5, <3>1, <3>2, <3>3 DEF Trace!TypeOK
    <2>7. index' = (prev'.index + 1 + missing') % W
      <3>1. prev'.index + 1 + missing' = index + 1
        BY <1>0, <2>1, <2>3
      <3>2. QED
        BY <1>1, <2>1, <3>1
    <2>8. TraceInv'
      BY <1>0, <1>1, <2>1, <2>3, <2>6, <2>7 DEF TraceInv
    <2>9. Trace!GapIsLoss
      <3>1. SUFFICES ASSUME prev.have, ~anew PROVE gaps' > gaps <=> missing % W # 0
        BY DEF Trace!GapIsLoss
      <3>2. Trace!Gap(Trace!Chunk) <=> missing % W # 0
        BY <3>1, GapMeansLoss
      <3>3. QED
        BY <1>0, <2>4, <3>2
    <2>10. Trace!JumpIsLoss
      BY <1>0, <2>4, JumpMeansLoss DEF Trace!JumpIsLoss
    <2>11. QED
      BY <2>8, <2>9, <2>10
  <1>3. CASE Trace!Lose
    <2>1. Trace!Sends /\ missing' = missing + 1 /\ UNCHANGED <<prev, gaps, jumps, anew>>
      BY <1>3 DEF Trace!Lose, Trace!client
    <2>2. Trace!TypeOK'
      BY <1>0, <1>1, <2>1 DEF Trace!TypeOK
    <2>3. ASSUME prev.have, ~anew PROVE index' = (prev.index + 1 + missing') % W
      <3>1. index = (prev.index + 1 + missing) % W
        BY <2>3 DEF TraceInv
      <3>2. prev.index + 1 + missing \in Int
        BY <1>0
      <3>3. index' = (prev.index + 1 + missing + 1) % W
        BY <1>0, <1>1, <2>1, <3>1, <3>2, CountsOn
      <3>4. prev.index + 1 + missing' = prev.index + 1 + missing + 1
        BY <1>0, <2>1
      <3>5. QED
        BY <3>3, <3>4
    <2>4. missing' # 0 /\ gaps' = gaps /\ jumps' = jumps
      BY <1>0, <2>1
    <2>5. TraceInv'
      BY <1>0, <1>1, <2>1, <2>2, <2>3, <2>4 DEF TraceInv
    <2>6. QED
      BY <1>0, <2>4, <2>5 DEF Trace!GapIsLoss, Trace!JumpIsLoss
  <1>4. CASE Trace!StreamsAgain
    <2>1. cursor' = 0 /\ UNCHANGED <<size, index, sends, prev, gaps, jumps, missing, anew>>
      BY <1>4 DEF Trace!StreamsAgain, Trace!client
    <2>2. TraceInv'
      BY <1>0, <2>1 DEF TraceInv, Trace!TypeOK
    <2>3. QED
      BY <1>0, <2>1, <2>2 DEF Trace!GapIsLoss, Trace!JumpIsLoss
  <1>5. CASE Trace!NewSession
    <2>1. index' = 0 /\ cursor' = 0 /\ anew' = TRUE /\ UNCHANGED <<size, sends, prev, gaps, jumps, missing>>
      BY <1>5 DEF Trace!NewSession, Trace!client
    <2>2. TraceInv'
      BY <1>0, <2>1 DEF TraceInv, Trace!TypeOK
    <2>3. QED
      BY <1>0, <2>1, <2>2 DEF Trace!GapIsLoss, Trace!JumpIsLoss
  <1>6. CASE UNCHANGED Trace!vars
    <2>1. UNCHANGED <<size, index, cursor, sends, prev, gaps, jumps, missing, anew>>
      BY <1>6 DEF Trace!vars, Trace!source, Trace!client
    <2>2. TraceInv'
      BY <1>0, <2>1 DEF TraceInv, Trace!TypeOK
    <2>3. QED
      BY <1>0, <2>1, <2>2 DEF Trace!GapIsLoss, Trace!JumpIsLoss
  <1>7. QED
    BY <1>2, <1>3, <1>4, <1>5, <1>6 DEF Trace!Next

-----------------------------------------------------------------------------
(* The framing.  What the reader has still to parse is one sequence.       *)
Rem == client.buf \o (client.prefetch \o ring)

Token == {"init", "media", "data"} \X Nat \X Nat

(* The i-th token of a packet.  Tokens of packets have an order, the one   *)
(* in which the device made them.                                          *)
Tok(b, i) == IF i <= 2 THEN <<"media", b.n, i>> ELSE <<"data", b.n, i - 2>>
Rank(t) == IF t[1] = "data" THEN t[3] + 2 ELSE t[3]
Precedes(s, t) == s[2] < t[2] \/ (s[2] = t[2] /\ Rank(s) < Rank(t))

(* Packets lie one behind the other. *)
BookOK(bk, w, m) ==
  /\ \A b \in bk : /\ b.n \in 1 .. m /\ b.start \in Nat /\ b.len \in Lens
                   /\ b.start + 2 + b.len <= w
  /\ \A b, c \in bk : \/ b = c
                      \/ b.n < c.n /\ b.start + 2 + b.len <= c.start
                      \/ c.n < b.n /\ c.start + 2 + c.len <= b.start

(* What the rest r of a stream may be, p tokens into it: each token is a   *)
(* packet's or an init packet's, in their order; nothing is missing inside *)
(* the payload of a packet that is not cut; and from the last loss on each *)
(* packet is where it was put, and nothing else is.                        *)
Origin(r, bk) ==
  \A i \in 1 .. Len(r) :
    r[i][1] = "init" \/ \E b \in bk : \E j \in 1 .. 2 + b.len : r[i] = Tok(b, j)
Sorted(r) ==
  \A i, k \in 1 .. Len(r) : i < k /\ r[i][1] # "init" /\ r[k][1] # "init" => Precedes(r[i], r[k])
RunsOn(r, i, b, len, j) ==
  /\ i + len - j <= Len(r)
  /\ \A q \in 1 .. Len(r) : \A k \in j .. len : q - i = k - j => r[q] = <<"data", b.n, k>>
Uncut(r, bk, ct) ==
  \A i \in 1 .. Len(r) : \A b \in bk : \A len \in Nat : \A j \in 1 .. len :
    b.len = len /\ r[i] = <<"data", b.n, j>> /\ b.n \notin ct => RunsOn(r, i, b, len, j)
InPlace(r, p, l, bk) ==
  \A b \in bk : \A at, len \in Nat : \A i \in 1 .. 2 + len : \A q \in 1 .. Len(r) :
    b.start = at /\ b.len = len /\ at >= l /\ at + i = p + q => r[q] = Tok(b, i)
StartsIn(r, p, l, bk) ==
  \A i \in 1 .. Len(r) :
    p + i > l /\ r[i][1] = "media" /\ r[i][3] = 1 => \E b \in bk : b.start + 1 = p + i
InitsIn(r, p, l) ==
  \A i \in 1 .. Len(r) :
    p + i > l /\ r[i][1] = "init" /\ r[i][3] = 1 =>
      /\ i < Len(r)
      /\ \A q \in 1 .. Len(r) : q = i + 1 => r[q][1] = "init" /\ r[q][3] = 2

StreamOK(r, p, l, bk, ct) ==
  /\ Origin(r, bk) /\ Sorted(r) /\ Uncut(r, bk, ct)
  /\ InPlace(r, p, l, bk) /\ StartsIn(r, p, l, bk) /\ InitsIn(r, p, l)

(* Nothing in r comes before the end of the n-th packet's header. *)
Behind(n, r) ==
  \A i \in 1 .. Len(r) : r[i][1] # "init" => n < r[i][2] \/ (n = r[i][2] /\ r[i][1] = "data")

(* What a concatenation of sequences of tokens is, element by element.     *)
(* (Types, concatenations and sums of positions have names here: the       *)
(* provers are slow where too many of them are open.)                      *)
Tokens(s) == s \in Seq(Token)
Joined(s, a, b) == s = a \o b
Sum(x, y, z) == x = y + z
Size(s, n) == Len(s) = n
Union(a, b, c) == a = b \cup c
Loses(a, b, c) == a = b \cup Framing!DataIn(c)

LEMMA JoinedIs ==
  ASSUME NEW a, NEW b, NEW s, Tokens(a), Tokens(b), Joined(s, a, b)
  PROVE  /\ Tokens(s) /\ Len(a) \in Nat /\ Len(b) \in Nat /\ Len(s) \in Nat
         /\ Len(s) = Len(a) + Len(b)
         /\ \A i \in 1 .. Len(a) : i \in 1 .. Len(s) /\ s[i] = a[i]
         /\ \A i \in 1 .. Len(s) : i > Len(a) => \E j \in 1 .. Len(b) : i = Len(a) + j /\ s[i] = b[j]
         /\ \A j \in 1 .. Len(b), i \in 1 .. Len(s) : i = Len(a) + j => s[i] = b[j]
  <1>1. /\ s \in Seq(Token) /\ Len(s) = Len(a) + Len(b)
        /\ \A i \in 1 .. Len(a) + Len(b) : s[i] = IF i <= Len(a) THEN a[i] ELSE b[i - Len(a)]
    BY ConcatProperties DEF Joined, Tokens
  <1>2. Len(a) \in Nat /\ Len(b) \in Nat /\ Len(s) \in Nat
    BY <1>1 DEF Tokens
  <1>3. ASSUME NEW i \in 1 .. Len(a) PROVE i \in 1 .. Len(s) /\ s[i] = a[i]
    BY <1>1, <1>2
  <1>4. ASSUME NEW i \in 1 .. Len(s), i > Len(a)
        PROVE  \E j \in 1 .. Len(b) : i = Len(a) + j /\ s[i] = b[j]
    <2>1. i - Len(a) \in 1 .. Len(b) /\ i = Len(a) + (i - Len(a))
      BY <1>1, <1>2, <1>4
    <2>2. s[i] = b[i - Len(a)]
      BY <1>1, <1>2, <1>4
    <2>3. QED
      BY <2>1, <2>2
  <1>5. ASSUME NEW j \in 1 .. Len(b), NEW i \in 1 .. Len(s), i = Len(a) + j PROVE s[i] = b[j]
    BY <1>1, <1>2, <1>5
  <1>6. QED
    BY <1>1, <1>2, <1>3, <1>4, <1>5 DEF Tokens

(* One element of the second part.                                         *)
LEMMA JoinedBehind ==
  ASSUME NEW a, NEW b, NEW s, Tokens(a), Tokens(b), Joined(s, a, b),
         NEW j \in 1 .. Len(b), NEW i \in 1 .. Len(s), i = Len(a) + j
  PROVE  s[i] = b[j]
  BY JoinedIs

(* From the last loss on, the tokens of a packet are in their places. *)
Placed(b, i, p, q, l) == i \in 1 .. 2 + b.len /\ b.start >= l /\ b.start + i = p + q

LEMMA PlaceIs ==
  ASSUME NEW r, NEW p, NEW l, NEW bk, NEW ct, StreamOK(r, p, l, bk, ct),
         NEW b \in bk, b.start \in Nat, b.len \in Nat, NEW i, NEW q \in 1 .. Len(r), Placed(b, i, p, q, l)
  PROVE  r[q] = Tok(b, i)
  <1>1. InPlace(r, p, l, bk)
    BY DEF StreamOK
  <1>2. QED
    BY <1>1 DEF InPlace, Placed

(* The reader goes on: a stream stays one when its first tokens are taken. *)
Drops(s, r, k) ==
  /\ Sum(Len(r), Len(s), k)
  /\ \A i \in 1 .. Len(s), q \in 1 .. Len(r) : q = i + k => s[i] = r[q]

LEMMA StreamDrops ==
  ASSUME NEW r, Tokens(r), NEW s, Tokens(s), NEW p \in Nat, NEW o \in Nat, NEW l \in Nat, NEW bk, NEW ct,
         NEW k \in Nat, Sum(o, p, k), Drops(s, r, k),
         StreamOK(r, p, l, bk, ct)
  PROVE  StreamOK(s, o, l, bk, ct) /\ \A n : Behind(n, r) => Behind(n, s)
  <1>1. Len(s) \in Nat /\ Len(r) \in Nat /\ Len(r) = Len(s) + k
    BY DEF Tokens, Sum, Drops
  <1>0. o = p + k
    BY DEF Sum
  <1>2. \A i \in 1 .. Len(s) : \E q \in 1 .. Len(r) : q = i + k /\ s[i] = r[q]
    BY <1>1 DEF Drops
  <1>3. Origin(s, bk)
    <2> SUFFICES ASSUME NEW i \in 1 .. Len(s)
                 PROVE  s[i][1] = "init" \/ \E b \in bk : \E j \in 1 .. 2 + b.len : s[i] = Tok(b, j)
      BY DEF Origin
    <2>1. PICK x \in 1 .. Len(r) : x = i + k /\ s[i] = r[x]
      BY <1>2
    <2>2. Origin(r, bk)
      BY DEF StreamOK
    <2>3. QED
      BY <2>1, <2>2 DEF Origin
  <1>4. Sorted(s)
    <2> SUFFICES ASSUME NEW i \in 1 .. Len(s), NEW m \in 1 .. Len(s), i < m, s[i][1] # "init", s[m][1] # "init"
                 PROVE  Precedes(s[i], s[m])
      BY DEF Sorted
    <2>1. PICK q \in 1 .. Len(r) : q = i + k /\ s[i] = r[q]
      BY <1>2
    <2>2. PICK z \in 1 .. Len(r) : z = m + k /\ s[m] = r[z]
      BY <1>2
    <2>3. q < z
      BY <1>1, <2>1, <2>2
    <2>4. QED
      BY <2>1, <2>2, <2>3 DEF StreamOK, Sorted
  <1>5. Uncut(s, bk, ct)
    <2> SUFFICES ASSUME NEW i \in 1 .. Len(s), NEW b \in bk, NEW len \in Nat, NEW j \in 1 .. len,
                        b.len = len, s[i] = <<"data", b.n, j>>, b.n \notin ct
                 PROVE  RunsOn(s, i, b, len, j)
      BY DEF Uncut
    <2>1. PICK x \in 1 .. Len(r) : x = i + k /\ s[i] = r[x]
      BY <1>2
    <2>2. RunsOn(r, x, b, len, j)
      <3>1. Uncut(r, bk, ct) /\ r[x] = <<"data", b.n, j>>
        BY <2>1 DEF StreamOK
      <3>2. QED
        BY <3>1 DEF Uncut
    <2>3. i + len - j <= Len(s)
      <3>1. x + len - j <= Len(r)
        BY <2>2 DEF RunsOn
      <3>2. QED
        BY <1>1, <2>1, <3>1, SMTT(30)
    <2>4. ASSUME NEW q \in 1 .. Len(s), NEW m \in j .. len, q - i = m - j
          PROVE  s[q] = <<"data", b.n, m>>
      <3>1. PICK y \in 1 .. Len(r) : y = q + k /\ s[q] = r[y]
        BY <1>2
      <3>2. y - x = m - j
        BY <1>1, <2>1, <2>4, <3>1
      <3>3. QED
        BY <2>2, <3>1, <3>2 DEF RunsOn
    <2>5. QED
      BY <2>3, <2>4 DEF RunsOn
  <1>6. InPlace(s, o, l, bk)
    <2> SUFFICES ASSUME NEW b \in bk, NEW at \in Nat, NEW len \in Nat, NEW i \in 1 .. 2 + len,
                        NEW q \in 1 .. Len(s), b.start = at, b.len = len, at >= l, at + i = o + q
                 PROVE  s[q] = Tok(b, i)
      BY DEF InPlace
    <2>1. PICK y \in 1 .. Len(r) : y = q + k /\ s[q] = r[y]
      BY <1>2
    <2>2. at + i = p + y
      BY <1>0, <1>1, <2>1
    <2>3. InPlace(r, p, l, bk)
      BY DEF StreamOK
    <2>4. r[y] = Tok(b, i)
      BY <2>2, <2>3 DEF InPlace
    <2>5. QED
      BY <2>1, <2>4
  <1>7. StartsIn(s, o, l, bk)
    <2> SUFFICES ASSUME NEW i \in 1 .. Len(s), o + i > l, s[i][1] = "media", s[i][3] = 1
                 PROVE  \E b \in bk : b.start + 1 = o + i
      BY DEF StartsIn
    <2>1. PICK y \in 1 .. Len(r) : y = i + k /\ s[i] = r[y]
      BY <1>2
    <2>2. p + y = o + i
      BY <1>0, <1>1, <2>1
    <2>3. QED
      BY <2>1, <2>2 DEF StreamOK, StartsIn
  <1>8. InitsIn(s, o, l)
    <2> SUFFICES ASSUME NEW i \in 1 .. Len(s), o + i > l, s[i][1] = "init", s[i][3] = 1
                 PROVE  /\ i < Len(s)
                        /\ \A q \in 1 .. Len(s) : q = i + 1 => s[q][1] = "init" /\ s[q][3] = 2
      BY DEF InitsIn
    <2>1. PICK y \in 1 .. Len(r) : y = i + k /\ s[i] = r[y]
      BY <1>2
    <2>2. p + y > l
      BY <1>0, <1>1, <2>1
    <2>3. /\ y < Len(r)
          /\ \A q \in 1 .. Len(r) : q = y + 1 => r[q][1] = "init" /\ r[q][3] = 2
      BY <2>1, <2>2 DEF StreamOK, InitsIn
    <2>4. i < Len(s)
      BY <1>1, <2>1, <2>3
    <2>5. ASSUME NEW q \in 1 .. Len(s), q = i + 1 PROVE s[q][1] = "init" /\ s[q][3] = 2
      <3>1. PICK z \in 1 .. Len(r) : z = q + k /\ s[q] = r[z]
        BY <1>2
      <3>2. z = y + 1
        BY <2>1, <2>5, <3>1
      <3>3. QED
        BY <2>3, <3>1, <3>2
    <2>6. QED
      BY <2>4, <2>5
  <1>9. \A n : Behind(n, r) => Behind(n, s)
    BY <1>2 DEF Behind
  <1>10. QED
    BY <1>3, <1>4, <1>5, <1>6, <1>7, <1>8, <1>9 DEF StreamOK

(* The device sends: a packet behind the stream is part of it, and nothing *)
(* that was handed on comes again.                                         *)
Extends(s, r, b) ==
  /\ Len(s) = Len(r) + b.len + 2
  /\ \A i \in 1 .. Len(r) : s[i] = r[i]
  /\ \A i \in 1 .. b.len + 2, q \in 1 .. Len(s) : q = Len(r) + i => s[q] = Tok(b, i)

LEMMA StreamAppends ==
  ASSUME NEW r, Tokens(r), NEW s, Tokens(s), NEW p \in Nat, NEW w \in Nat, NEW l \in Nat, NEW bk, NEW ct,
         NEW m \in Nat, NEW len \in Nat, NEW v \in Nat, NEW b0,
         Lens \subseteq Nat, len \in Lens, len >= 1, Sum(v, w, len + 2), Sum(w, p, Len(r)),
         b0.n = m + 1, b0.start = w, b0.len = len, Extends(s, r, b0),
         StreamOK(r, p, l, bk, ct), BookOK(bk, w, m), NEW B, Union(B, bk, {b0})
  PROVE  /\ StreamOK(s, p, l, B, ct) /\ BookOK(B, v, m + 1)
         /\ \A n \in 1 .. m : Behind(n, r) => Behind(n, s)
  <1>1. Len(s) \in Nat /\ Len(r) \in Nat /\ Len(s) = Len(r) + len + 2 /\ v = w + len + 2 /\ w = p + Len(r)
    BY SMTT(30) DEF Extends, Tokens, Sum
  <1>20. \A i \in 1 .. Len(r) : s[i] = r[i]
    BY DEF Extends
  <1>21. \A i \in 1 .. len + 2, q \in 1 .. Len(s) : q = Len(r) + i => s[q] = Tok(b0, i)
    BY DEF Extends
  <1>2. b0.n = m + 1 /\ b0.start = w /\ b0.len = len
    OBVIOUS
  <1>22. \A b : b \in B <=> b \in bk \/ b = b0
    BY DEF Union
  <1>23. \A i \in 1 .. Len(s) : i \in 1 .. Len(r) \/ i > Len(r)
    BY <1>1
  <1>3. \A b \in bk : b.n \in 1 .. m /\ b.start \in Nat /\ b.len \in Nat /\ b.start + 2 + b.len <= w
    BY DEF BookOK
  <1>4. \A i \in 1 .. Len(s) :
          i > Len(r) => \E j \in 1 .. len + 2 : i = Len(r) + j /\ s[i] = Tok(b0, j)
    <2> SUFFICES ASSUME NEW i \in 1 .. Len(s), i > Len(r)
                 PROVE  \E j \in 1 .. len + 2 : i = Len(r) + j /\ s[i] = Tok(b0, j)
      BY <1>1
    <2>1. i - Len(r) \in 1 .. len + 2 /\ i = Len(r) + (i - Len(r))
      BY <1>1
    <2>2. QED
      BY <2>1, <1>21
  <1>5. \A i \in 1 .. Len(r) : r[i][1] # "init" =>
          \E b \in bk : \E j \in 1 .. 2 + b.len : r[i] = Tok(b, j)
    BY DEF StreamOK, Origin
  <1>6. \A i \in 1 .. Len(r) : r[i][1] # "init" => r[i][2] \in 1 .. m
    <2> SUFFICES ASSUME NEW i \in 1 .. Len(r), r[i][1] # "init" PROVE r[i][2] \in 1 .. m
      OBVIOUS
    <2>1. PICK b \in bk : \E j \in 1 .. 2 + b.len : r[i] = Tok(b, j)
      BY <1>5
    <2>2. QED
      BY <2>1, <1>3 DEF Tok
  <1>7. \A j \in 1 .. len + 2 :
          /\ Tok(b0, j)[2] = m + 1 /\ Rank(Tok(b0, j)) = j
          /\ Tok(b0, j)[1] = (IF j <= 2 THEN "media" ELSE "data")
          /\ Tok(b0, j)[3] = (IF j <= 2 THEN j ELSE j - 2)
    BY <1>1, <1>2 DEF Tok, Rank
  <1>8. Origin(s, B)
    <2> SUFFICES ASSUME NEW i \in 1 .. Len(s)
                 PROVE  s[i][1] = "init" \/
                        \E b \in B : \E j \in 1 .. 2 + b.len : s[i] = Tok(b, j)
      BY DEF Origin
    <2>1. CASE i \in 1 .. Len(r)
      BY <2>1, <1>5, <1>20, <1>22
    <2>2. CASE i > Len(r)
      <3>1. PICK j \in 1 .. len + 2 : i = Len(r) + j /\ s[i] = Tok(b0, j)
        BY <2>2, <1>4
      <3>2. j \in 1 .. 2 + b0.len
        BY <1>1, <1>2
      <3>3. QED
        BY <3>1, <3>2, <1>22
    <2>3. QED
      BY <2>1, <2>2, <1>23
  <1>9. Sorted(s)
    <2> SUFFICES ASSUME NEW i \in 1 .. Len(s), NEW k \in 1 .. Len(s), i < k,
                        s[i][1] # "init", s[k][1] # "init"
                 PROVE  Precedes(s[i], s[k])
      BY DEF Sorted
    <2>1. CASE k \in 1 .. Len(r)
      <3>1. i \in 1 .. Len(r)
        BY <2>1, <1>1
      <3>2. QED
        BY <2>1, <3>1, <1>20 DEF StreamOK, Sorted
    <2>2. CASE k > Len(r)
      <3>1. PICK j \in 1 .. len + 2 : k = Len(r) + j /\ s[k] = Tok(b0, j)
        BY <2>2, <1>4
      <3>2. CASE i \in 1 .. Len(r)
        <4>1. s[i][2] \in 1 .. m
          BY <3>2, <1>6, <1>20
        <4>2. s[k][2] = m + 1
          BY <3>1, <1>7
        <4>3. QED
          BY <4>1, <4>2, SMTT(30) DEF Precedes
      <3>3. CASE i > Len(r)
        <4>1. PICK x \in 1 .. len + 2 : i = Len(r) + x /\ s[i] = Tok(b0, x)
          BY <3>3, <1>4
        <4>2. x < j
          BY <3>1, <4>1, <1>1
        <4>3. QED
          BY <3>1, <4>1, <4>2, <1>7 DEF Precedes
      <3>4. QED
        BY <3>2, <3>3, <1>23
    <2>3. QED
      BY <2>1, <2>2, <1>23
  <1>10. Uncut(s, B, ct)
    <2> SUFFICES ASSUME NEW i \in 1 .. Len(s), NEW b \in B, NEW n \in Nat, NEW j \in 1 .. n,
                        b.len = n, s[i] = <<"data", b.n, j>>, b.n \notin ct
                 PROVE  RunsOn(s, i, b, n, j)
      BY DEF Uncut
    <2>1. s[i][1] = "data" /\ s[i][2] = b.n /\ s[i][3] = j
      OBVIOUS
    <2>2. CASE i \in 1 .. Len(r)
      <3>1. b \in bk
        <4>1. s[i][2] \in 1 .. m
          <5>1. s[i] = r[i]
            BY <2>2, <1>20
          <5>2. r[i][1] # "init"
            BY <2>1, <5>1
          <5>3. QED
            BY <2>2, <5>1, <5>2, <1>6
        <4>2. b.n # m + 1
          BY <4>1, <2>1
        <4>3. QED
          BY <4>2, <1>2, <1>22
      <3>2. Uncut(r, bk, ct) /\ r[i] = <<"data", b.n, j>>
        BY <2>2, <1>20 DEF StreamOK
      <3>3. RunsOn(r, i, b, n, j)
        BY <2>2, <3>1, <3>2 DEF Uncut
      <3>4. i + n - j <= Len(r)
        BY <3>3 DEF RunsOn
      <3>5. i + n - j <= Len(s)
        BY <3>4, <1>1
      <3>6. ASSUME NEW q \in 1 .. Len(s), NEW k \in j .. n, q - i = k - j
            PROVE  s[q] = <<"data", b.n, k>>
        <4>1. q \in 1 .. Len(r)
          BY <3>4, <3>6, <2>2, <1>1
        <4>2. r[q] = <<"data", b.n, k>>
          BY <3>3, <3>6, <4>1 DEF RunsOn
        <4>3. QED
          BY <4>1, <4>2, <1>20
      <3>7. QED
        BY <3>5, <3>6 DEF RunsOn
    <2>3. CASE i > Len(r)
      <3>1. PICK x \in 1 .. len + 2 : i = Len(r) + x /\ s[i] = Tok(b0, x)
        BY <2>3, <1>4
      <3>2. b = b0
        <4>1. s[i][2] = m + 1
          BY <3>1, <1>7
        <4>2. b \notin bk
          BY <4>1, <2>1, <1>3, SMTT(30)
        <4>3. QED
          BY <4>2, <1>22
      <3>3. n = len
        BY <3>2, <1>2
      <3>4. x = j + 2
        <4>1. Tok(b0, x)[1] = "data" /\ Tok(b0, x)[3] = j
          BY <2>1, <3>1
        <4>2. x > 2
          BY <4>1, <1>7
        <4>3. Tok(b0, x)[3] = x - 2
          BY <4>2, <1>7, SMTT(30)
        <4>4. QED
          BY <4>1, <4>3
      <3>5. i + n - j <= Len(s)
        BY <3>1, <3>3, <3>4, <1>1
      <3>6. ASSUME NEW q \in 1 .. Len(s), NEW k \in j .. n, q - i = k - j
            PROVE  s[q] = <<"data", b.n, k>>
        <4>1. PICK y \in 1 .. len + 2 : y = k + 2 /\ q = Len(r) + y
          BY <3>1, <3>3, <3>4, <3>6, <1>1
        <4>2. s[q] = Tok(b0, y)
          BY <4>1, <1>21
        <4>3. Tok(b0, y) = <<"data", b0.n, k>>
          <5>1. ~(y <= 2) /\ y - 2 = k
            BY <4>1
          <5>2. QED
            BY <5>1 DEF Tok
        <4>4. QED
          BY <3>2, <4>2, <4>3
      <3>7. QED
        BY <3>5, <3>6 DEF RunsOn
    <2>4. QED
      BY <2>2, <2>3, <1>23
  <1>11. InPlace(s, p, l, B)
    <2> SUFFICES ASSUME NEW b \in B, NEW at \in Nat, NEW n \in Nat, NEW i \in 1 .. 2 + n,
                        NEW q \in 1 .. Len(s), b.start = at, b.len = n, at >= l, at + i = p + q
                 PROVE  s[q] = Tok(b, i)
      BY SMTT(30) DEF InPlace
    <2>1. CASE b = b0
      <3>1. at = w /\ n = len
        BY <2>1, <1>2
      <3>2. i \in 1 .. len + 2 /\ q = Len(r) + i
        BY <3>1, <1>1, SMTT(30)
      <3>3. QED
        BY <2>1, <3>2, <1>21
    <2>2. CASE b \in bk
      <3>1. at + 2 + n <= w
        BY <2>2, <1>3
      <3>2. q \in 1 .. Len(r)
        BY <3>1, <1>1
      <3>3. InPlace(r, p, l, bk)
        BY DEF StreamOK
      <3>4. r[q] = Tok(b, i)
        BY <2>2, <3>2, <3>3, SMTT(30) DEF InPlace
      <3>5. QED
        BY <3>2, <3>4, <1>20
    <2>3. QED
      BY <2>1, <2>2, <1>22
  <1>12. StartsIn(s, p, l, B)
    <2> SUFFICES ASSUME NEW i \in 1 .. Len(s), p + i > l, s[i][1] = "media", s[i][3] = 1
                 PROVE  \E b \in B : b.start + 1 = p + i
      BY DEF StartsIn
    <2>2. CASE i \in 1 .. Len(r)
      <3>1. \E b \in bk : b.start + 1 = p + i
        BY <2>2, <1>20 DEF StreamOK, StartsIn
      <3>2. QED
        BY <3>1, <1>22
    <2>3. CASE i > Len(r)
      <3>1. PICK x \in 1 .. len + 2 : i = Len(r) + x /\ s[i] = Tok(b0, x)
        BY <2>3, <1>4
      <3>2. x = 1
        BY <3>1, <1>7
      <3>3. b0.start + 1 = p + i
        BY <3>1, <3>2, <1>1, <1>2
      <3>4. QED
        BY <3>3, <1>22
    <2>4. QED
      BY <2>2, <2>3, <1>23
  <1>13. InitsIn(s, p, l)
    <2> SUFFICES ASSUME NEW i \in 1 .. Len(s), p + i > l, s[i][1] = "init", s[i][3] = 1
                 PROVE  /\ i < Len(s)
                        /\ \A q \in 1 .. Len(s) : q = i + 1 => s[q][1] = "init" /\ s[q][3] = 2
      BY DEF InitsIn
    <2>1. i \in 1 .. Len(r) /\ s[i] = r[i]
      <3>1. SUFFICES ASSUME i > Len(r) PROVE FALSE
        BY <1>1, <1>20, SMTT(30)
      <3>2. PICK x \in 1 .. len + 2 : i = Len(r) + x /\ s[i] = Tok(b0, x)
        BY <3>1, <1>4
      <3>3. QED
        BY <3>2, <1>7
    <2>3. i < Len(r) /\ \A q \in 1 .. Len(r) : q = i + 1 => r[q][1] = "init" /\ r[q][3] = 2
      BY <2>1 DEF StreamOK, InitsIn
    <2>4. i < Len(r)
      BY <2>3
    <2>5. i < Len(s) /\ \A q \in 1 .. Len(s) : q = i + 1 => q \in 1 .. Len(r)
      BY <2>4, <1>1
    <2>6. QED
      BY <2>3, <2>5, <1>20
  <1>14. BookOK(B, v, m + 1)
    <2>1. \A b \in B : /\ b.n \in 1 .. m + 1 /\ b.start \in Nat /\ b.len \in Lens
                                  /\ b.start + 2 + b.len <= v
      <3>1. \A b \in bk : /\ b.n \in 1 .. m + 1 /\ b.start \in Nat /\ b.len \in Lens
                          /\ b.start + 2 + b.len <= v
        <4> SUFFICES ASSUME NEW b \in bk PROVE b.n \in 1 .. m + 1 /\ b.start + 2 + b.len <= v
          BY DEF BookOK
        <4>1. PICK at \in Nat : at = b.start
          BY <1>3
        <4>2. PICK n \in Nat : n = b.len
          BY <1>3
        <4>3. b.n \in 1 .. m /\ at + 2 + n <= w
          BY <4>1, <4>2, <1>3
        <4>4. at + 2 + n <= v
          BY <4>3, <1>1
        <4>5. QED
          BY <4>1, <4>2, <4>3, <4>4, SMTT(30)
      <3>2. b0.n \in 1 .. m + 1 /\ b0.start \in Nat /\ b0.len \in Lens /\ b0.start + 2 + b0.len <= v
        BY <1>1, <1>2
      <3>3. QED
        BY <3>1, <3>2, <1>22
    <2>2. \A b \in bk : b.n < b0.n /\ b.start + 2 + b.len <= b0.start
      BY <1>2, <1>3, SMTT(30)
    <2>3. QED
      BY <2>1, <2>2, <1>22 DEF BookOK
  <1>15. \A n \in 1 .. m : Behind(n, r) => Behind(n, s)
    <2> SUFFICES ASSUME NEW n \in 1 .. m, Behind(n, r), NEW i \in 1 .. Len(s), s[i][1] # "init"
                 PROVE  n < s[i][2] \/ (n = s[i][2] /\ s[i][1] = "data")
      BY DEF Behind
    <2>1. CASE i \in 1 .. Len(r)
      BY <2>1, <1>20 DEF Behind
    <2>2. CASE i > Len(r)
      <3>1. PICK x \in 1 .. len + 2 : s[i] = Tok(b0, x)
        BY <2>2, <1>4
      <3>2. s[i][2] = m + 1
        BY <3>1, <1>7
      <3>3. QED
        BY <3>2
    <2>3. QED
      BY <2>1, <2>2, <1>23
  <1>16. QED
    BY <1>1, <1>8, <1>9, <1>10, <1>11, <1>12, <1>13, <1>14, <1>15 DEF StreamOK

(* What the tokens of a sequence carry. *)
LEMMA DataInIs ==
  ASSUME NEW s, Tokens(s), NEW i \in 1 .. Len(s), s[i][1] = "data"
  PROVE  s[i][2] \in Framing!DataIn(s)
  BY DEF Tokens, Framing!DataIn

(* The device clears its ring, R, and begins again with an init packet:    *)
(* everything the stream had is lost, or placed before the loss.           *)
InitPacket(z) == Len(z) = 2 /\ z[1] = <<"init", 0, 1>> /\ z[2] = <<"init", 0, 2>>

Cleared(a, R, z, r, s, p, o, w, v, ct, C) ==
  /\ Tokens(a) /\ Tokens(R) /\ Tokens(z) /\ Tokens(r) /\ Tokens(s)
  /\ Joined(r, a, R) /\ Joined(s, a, z) /\ InitPacket(z)
  /\ Sum(v, w, 2) /\ Sum(w, p, Len(r)) /\ Sum(o, p, Len(R)) /\ Loses(C, ct, R)

LEMMA StreamResets ==
  ASSUME NEW a, NEW R, NEW z, NEW r, NEW s, NEW p \in Nat, NEW o \in Nat, NEW w \in Nat, NEW v \in Nat, NEW ct,
         NEW C,
         Cleared(a, R, z, r, s, p, o, w, v, ct, C), Lens \subseteq Nat,
         NEW l \in Nat, NEW bk, NEW m \in Nat, StreamOK(r, p, l, bk, ct), BookOK(bk, w, m)
  PROVE  /\ StreamOK(s, o, w, bk, C) /\ BookOK(bk, v, m)
         /\ \A n : Behind(n, r) => Behind(n, s)
  <1> SUFFICES ASSUME Tokens(a), Tokens(R), Tokens(z), Tokens(r), Tokens(s),
                      Joined(r, a, R), Joined(s, a, z), InitPacket(z),
                      Sum(v, w, 2), Sum(w, p, Len(r)), Sum(o, p, Len(R)), Loses(C, ct, R)
               PROVE  /\ StreamOK(s, o, w, bk, C) /\ BookOK(bk, v, m)
                      /\ \A n : Behind(n, r) => Behind(n, s)
    BY DEF Cleared
  <1>0. Len(a) \in Nat /\ Len(R) \in Nat /\ Len(r) = Len(a) + Len(R)
    BY JoinedIs
  <1>1. /\ Len(a) \in Nat /\ Len(R) \in Nat /\ Len(r) = Len(a) + Len(R)
        /\ v = w + 2 /\ w = p + Len(r) /\ o = p + Len(R)
    BY <1>0 DEF Sum
  <1>2. Len(s) = Len(a) + 2
    <2>1. Len(s) = Len(a) + Len(z)
      BY JoinedIs
    <2>2. QED
      BY <2>1 DEF InitPacket
  <1>3. \A i \in 1 .. Len(a) : i \in 1 .. Len(r) /\ r[i] = a[i]
    BY JoinedIs
  <1>4. \A i \in 1 .. Len(r) : i > Len(a) => \E j \in 1 .. Len(R) : i = Len(a) + j /\ r[i] = R[j]
    BY JoinedIs, SMTT(30)
  <1>5. \A i \in 1 .. Len(a) : i \in 1 .. Len(s) /\ s[i] = a[i]
    BY JoinedIs
  <1>6. \A i \in 1 .. Len(s) : i <= Len(a) => i \in 1 .. Len(r) /\ s[i] = r[i]
    BY <1>1, <1>3, <1>5
  <1>7. \A i \in 1 .. Len(s) : i > Len(a) =>
          \/ i = Len(a) + 1 /\ s[i] = <<"init", 0, 1>>
          \/ i = Len(a) + 2 /\ s[i] = <<"init", 0, 2>>
    <2>1. \A i \in 1 .. Len(s) : i > Len(a) =>
            \E j \in 1 .. Len(z) : i = Len(a) + j /\ s[i] = z[j]
      BY JoinedIs, SMTT(30)
    <2>2. \A j \in 1 .. Len(z) : (j = 1 /\ z[j] = <<"init", 0, 1>>) \/ (j = 2 /\ z[j] = <<"init", 0, 2>>)
      BY DEF InitPacket
    <2>3. QED
      BY <2>1, <2>2
  <1>8. \A i \in 1 .. Len(s) : s[i][1] # "init" => i <= Len(a) /\ i \in 1 .. Len(r) /\ s[i] = r[i]
    <2> SUFFICES ASSUME NEW i \in 1 .. Len(s), s[i][1] # "init" PROVE i <= Len(a)
      BY <1>6
    <2>1. ~(i > Len(a))
      <3>1. SUFFICES ASSUME i > Len(a) PROVE FALSE
        OBVIOUS
      <3>2. s[i] = <<"init", 0, 1>> \/ s[i] = <<"init", 0, 2>>
        BY <3>1, <1>7
      <3>3. QED
        BY <3>2
    <2>2. QED
      BY <2>1, <1>1
  <1>9. \A b \in bk : b.start \in Nat /\ b.len \in Nat /\ b.start + 2 + b.len <= w
    BY DEF BookOK
  <1>10. Origin(s, bk)
    <2>1. Origin(r, bk)
      BY DEF StreamOK
    <2>2. QED
      BY <2>1, <1>8 DEF Origin
  <1>11. Sorted(s)
    <2> SUFFICES ASSUME NEW i \in 1 .. Len(s), NEW k \in 1 .. Len(s), i < k,
                        s[i][1] # "init", s[k][1] # "init"
                 PROVE  Precedes(s[i], s[k])
      BY DEF Sorted
    <2>1. s[i] = r[i] /\ i \in 1 .. Len(r) /\ s[k] = r[k] /\ k \in 1 .. Len(r)
      BY <1>8
    <2>2. QED
      BY <2>1 DEF StreamOK, Sorted
  <1>12. Uncut(s, bk, C)
    <2> SUFFICES ASSUME NEW i \in 1 .. Len(s), NEW b \in bk, NEW len \in Nat, NEW j \in 1 .. len,
                        b.len = len, s[i] = <<"data", b.n, j>>, b.n \notin C
                 PROVE  RunsOn(s, i, b, len, j)
      BY DEF Uncut
    <2>1. s[i][1] = "data" /\ b.n \notin ct /\ b.n \notin Framing!DataIn(R)
      BY DEF Loses
    <2>2. i <= Len(a) /\ i \in 1 .. Len(r) /\ s[i] = r[i]
      BY <2>1, <1>8
    <2>3. Uncut(r, bk, ct) /\ r[i] = <<"data", b.n, j>>
      BY <2>2 DEF StreamOK
    <2>4. RunsOn(r, i, b, len, j)
      BY <2>1, <2>2, <2>3 DEF Uncut
    <2>5. i + len - j <= Len(a)
      <3>1. SUFFICES ASSUME i + len - j > Len(a) PROVE FALSE
        BY <1>1
      <3>2. PICK y \in 1 .. Len(r) : y = Len(a) + 1
        <4>1. i + len - j <= Len(r)
          BY <2>4 DEF RunsOn
        <4>2. Len(a) < Len(r)
          BY <4>1, <3>1, <1>0
        <4>3. QED
          BY <4>2, <1>0, SMTT(30)
      <3>3. PICK k \in j .. len : y - i = k - j
        <4>1. PICK x \in Nat : x = Len(a) /\ i \in Nat /\ i <= x
          BY <2>2, <1>0, SMTT(30)
        <4>2. y - i >= 0 /\ y - i <= len - j
          <5>1. y = x + 1
            BY <3>2, <4>1
          <5>2. i + len - j > x
            BY <3>1, <4>1
          <5>3. y - i >= 0
            BY <4>1, <5>1
          <5>4. x + 1 <= i + len - j
            BY <4>1, <5>2
          <5>5. y - i <= len - j
            BY <4>1, <5>1, <5>4
          <5>6. QED
            BY <5>3, <5>5
        <4>3. j + (y - i) \in j .. len /\ y - i = (j + (y - i)) - j
          BY <4>2
        <4>4. QED
          BY <4>3
      <3>4. r[y] = <<"data", b.n, k>>
        BY <2>4, <3>3 DEF RunsOn
      <3>5. PICK x \in 1 .. Len(R) : r[y] = R[x]
        <4>1. y > Len(a)
          BY <3>2, <1>1
        <4>2. QED
          BY <4>1, <1>4
      <3>6. R[x] = <<"data", b.n, k>>
        BY <3>4, <3>5
      <3>7. R[x][1] = "data" /\ R[x][2] = b.n
        BY <3>6
      <3>8. QED
        BY <3>7, <2>1, DataInIs
    <2>6. i + len - j <= Len(s)
      BY <2>5, <1>1, <1>2
    <2>7. ASSUME NEW q \in 1 .. Len(s), NEW k \in j .. len, q - i = k - j
          PROVE  s[q] = <<"data", b.n, k>>
      <3>1. q <= Len(a)
        BY <2>5, <2>7, <1>1, <1>2
      <3>2. q \in 1 .. Len(r) /\ s[q] = r[q]
        BY <3>1, <1>6
      <3>3. r[q] = <<"data", b.n, k>>
        BY <2>4, <2>7, <3>2 DEF RunsOn
      <3>4. QED
        BY <3>2, <3>3
    <2>8. QED
      BY <2>6, <2>7 DEF RunsOn
  <1>13. InPlace(s, o, w, bk)
    <2> SUFFICES ASSUME NEW b \in bk, NEW at \in Nat, NEW len \in Nat, b.start = at, b.len = len, at >= w
                 PROVE  FALSE
      BY DEF InPlace
    <2>1. at + 2 + len <= w
      BY <1>9
    <2>2. QED
      BY <2>1
  <1>14. StartsIn(s, o, w, bk)
    <2> SUFFICES ASSUME NEW i \in 1 .. Len(s), o + i > w, s[i][1] = "media" PROVE FALSE
      BY DEF StartsIn
    <2>1. ~(i <= Len(a))
      BY <1>1, <1>2
    <2>2. QED
      BY <2>1, <1>8
  <1>15. InitsIn(s, o, w)
    <2> SUFFICES ASSUME NEW i \in 1 .. Len(s), o + i > w, s[i][1] = "init", s[i][3] = 1
                 PROVE  /\ i < Len(s)
                        /\ \A q \in 1 .. Len(s) : q = i + 1 => s[q][1] = "init" /\ s[q][3] = 2
      BY DEF InitsIn
    <2>1. i > Len(a)
      <3>1. i \in Nat /\ o + i > w
        BY <1>2
      <3>2. QED
        BY <3>1, <1>1
    <2>2. i = Len(a) + 1
      BY <2>1, <1>7, SMTT(30)
    <2>3. i < Len(s)
      BY <2>2, <1>1, <1>2
    <2>4. ASSUME NEW q \in 1 .. Len(s), q = i + 1 PROVE s[q][1] = "init" /\ s[q][3] = 2
      <3>1. q = Len(a) + 2
        BY <2>2, <2>4, <1>1
      <3>2. q > Len(a) /\ q # Len(a) + 1
        BY <3>1, <1>0, SMTT(30)
      <3>3. s[q] = <<"init", 0, 2>>
        BY <3>2, <1>7
      <3>4. QED
        BY <3>3
    <2>5. QED
      BY <2>3, <2>4
  <1>16. \A n : Behind(n, r) => Behind(n, s)
    <2> SUFFICES ASSUME NEW n, Behind(n, r), NEW i \in 1 .. Len(s), s[i][1] # "init"
                 PROVE  n < s[i][2] \/ (n = s[i][2] /\ s[i][1] = "data")
      BY DEF Behind
    <2>1. i \in 1 .. Len(r) /\ s[i] = r[i]
      BY <1>8
    <2>2. QED
      BY <2>1 DEF Behind
  <1>17. BookOK(bk, v, m)
    <2>1. ASSUME NEW b \in bk PROVE b.start + 2 + b.len <= v
      <3>1. PICK at \in Nat : at = b.start
        BY <1>9
      <3>2. PICK n \in Nat : n = b.len
        BY <1>9
      <3>3. at + 2 + n <= w
        BY <3>1, <3>2, <1>9
      <3>4. at + 2 + n <= v
        BY <3>3, <1>1
      <3>5. QED
        BY <3>1, <3>2, <3>4
    <2>2. QED
      BY <2>1 DEF BookOK
  <1>18. QED
    BY <1>1, <1>2, <1>10, <1>11, <1>12, <1>13, <1>14, <1>15, <1>16, <1>17 DEF StreamOK

(* Tokens behind the n-th stay in their places when k of them are gone.    *)
LEMMA PlacesMove ==
  ASSUME NEW r, NEW s, NEW p \in Nat, NEW o \in Nat, NEW l \in Nat, NEW v \in Nat, NEW k \in Nat,
         NEW n \in Nat, NEW bk,
         InPlace(r, p, l, bk), o = p + k, v = p + n + k, l <= p + n,
         \A i \in 1 .. Len(s) : i > n => \E y \in 1 .. Len(r) : y = i + k /\ s[i] = r[y]
  PROVE  InPlace(s, o, v, bk)
  <1> SUFFICES ASSUME NEW b \in bk, NEW at \in Nat, NEW len \in Nat, NEW i \in 1 .. 2 + len,
                      NEW q \in 1 .. Len(s), b.start = at, b.len = len, at >= v, at + i = o + q
               PROVE  s[q] = Tok(b, i)
    BY DEF InPlace
  <1>1. q > n
    OBVIOUS
  <1>2. PICK y \in 1 .. Len(r) : y = q + k /\ s[q] = r[y]
    BY <1>1
  <1>3. at >= l /\ at + i = p + y
    BY <1>2
  <1>4. r[y] = Tok(b, i)
    BY <1>3, SMTT(30) DEF InPlace
  <1>5. QED
    BY <1>2, <1>4

(* A transfer times out: the k tokens K that it had received are gone, and *)
(* the stream is what the reader had, a, and what is left of the ring, Q.  *)
TimedOut(a, R, K, Q, r, s, p, o, t, l, v, k, ct, C) ==
  /\ Tokens(a) /\ Tokens(R) /\ Tokens(K) /\ Tokens(Q)
  /\ Joined(r, a, R) /\ Joined(R, K, Q) /\ Joined(s, a, Q) /\ k >= 1 /\ Size(K, k)
  /\ Sum(o, p, k) /\ Sum(t, p, Len(a)) /\ Sum(v, t, k) /\ l <= t /\ Loses(C, ct, K)

LEMMA StreamLoses ==
  ASSUME NEW a, NEW R, NEW K, NEW Q, NEW r, NEW s, NEW p \in Nat, NEW o \in Nat, NEW t \in Nat, NEW l \in Nat,
         NEW v \in Nat, NEW k \in Nat, NEW ct, NEW C,
         TimedOut(a, R, K, Q, r, s, p, o, t, l, v, k, ct, C), NEW bk, StreamOK(r, p, l, bk, ct)
  PROVE  StreamOK(s, o, v, bk, C) /\ \A n : Behind(n, r) => Behind(n, s)
  <1> SUFFICES ASSUME Tokens(a), Tokens(R), Tokens(K), Tokens(Q),
                      Joined(r, a, R), Joined(R, K, Q), Joined(s, a, Q), k >= 1, Size(K, k),
                      Sum(o, p, k), Sum(t, p, Len(a)), Sum(v, t, k), l <= t, Loses(C, ct, K)
               PROVE  StreamOK(s, o, v, bk, C) /\ \A n : Behind(n, r) => Behind(n, s)
    BY DEF TimedOut
  <1>0. Len(a) \in Nat
    BY JoinedIs
  <1>1. Len(a) \in Nat /\ Len(R) \in Nat /\ Len(r) = Len(a) + Len(R)
    BY JoinedIs
  <1>2. Len(Q) \in Nat /\ Len(R) = k + Len(Q)
    <2>1. Len(Q) \in Nat /\ Len(R) = Len(K) + Len(Q)
      BY JoinedIs
    <2>2. QED
      BY <2>1 DEF Size
  <1>3. Len(s) \in Nat /\ Len(s) = Len(a) + Len(Q)
    BY JoinedIs
  <1>4. Len(r) \in Nat /\ Len(r) = Len(s) + k
    BY <1>1, <1>2, <1>3
  <1>5. \A i \in 1 .. Len(s) : i <= Len(a) => i \in 1 .. Len(r) /\ s[i] = r[i]
    <2>1. \A i \in 1 .. Len(a) : s[i] = a[i]
      BY JoinedIs
    <2>2. \A i \in 1 .. Len(a) : i \in 1 .. Len(r) /\ r[i] = a[i]
      BY JoinedIs
    <2>3. QED
      BY <2>1, <2>2, <1>1
  <1>6. \A i \in 1 .. Len(s) : i > Len(a) => \E y \in 1 .. Len(r) : y = i + k /\ s[i] = r[y]
    <2> SUFFICES ASSUME NEW i \in 1 .. Len(s), i > Len(a)
                 PROVE  \E y \in 1 .. Len(r) : y = i + k /\ s[i] = r[y]
      OBVIOUS
    <2>1. PICK j \in 1 .. Len(Q) : i = Len(a) + j /\ s[i] = Q[j]
      BY JoinedIs, SMTT(30)
    <2>2. PICK x \in 1 .. Len(R) : x = Len(K) + j
      BY <1>2 DEF Size
    <2>3. R[x] = Q[j]
      BY <2>2, JoinedBehind
    <2>4. PICK y \in 1 .. Len(r) : y = Len(a) + x
      BY <2>2, <1>1, SMTT(30)
    <2>5. r[y] = R[x]
      BY <2>4, JoinedBehind, SMTT(30)
    <2>6. y = i + k
      BY <2>1, <2>2, <2>4, <1>1 DEF Size
    <2>7. QED
      BY <2>1, <2>3, <2>5, <2>6
  <1>7. \A i \in 1 .. Len(r) : i = Len(a) + 1 => \E j \in 1 .. Len(K) : r[i] = K[j]
    <2> SUFFICES ASSUME NEW i \in 1 .. Len(r), i = Len(a) + 1 PROVE \E j \in 1 .. Len(K) : r[i] = K[j]
      OBVIOUS
    <2>1. 1 \in 1 .. Len(R) /\ 1 \in 1 .. Len(K)
      BY <1>2 DEF Size
    <2>2. r[i] = R[1]
      BY <2>1, JoinedBehind
    <2>3. R[1] = K[1]
      <3>1. \A x \in 1 .. Len(K) : x \in 1 .. Len(R) /\ R[x] = K[x]
        BY JoinedIs
      <3>2. QED
        BY <3>1, <2>1
    <2>4. QED
      BY <2>1, <2>2, <2>3
  <1>8. o = p + k /\ v = p + Len(a) + k /\ l <= p + Len(a)
    BY <1>1 DEF Sum
  <1>9. \A i \in 1 .. Len(s) : \E y \in 1 .. Len(r) :
          s[i] = r[y] /\ ((i <= Len(a) /\ y = i) \/ (i > Len(a) /\ y = i + k))
    <2> SUFFICES ASSUME NEW i \in 1 .. Len(s)
                 PROVE  \E y \in 1 .. Len(r) :
                          s[i] = r[y] /\ ((i <= Len(a) /\ y = i) \/ (i > Len(a) /\ y = i + k))
      OBVIOUS
    <2>1. CASE i <= Len(a)
      BY <2>1, <1>5
    <2>2. CASE i > Len(a)
      BY <2>2, <1>6
    <2>3. QED
      BY <2>1, <2>2, <1>1
  <1>10. Origin(s, bk)
    <2>1. Origin(r, bk)
      BY DEF StreamOK
    <2>2. \A i \in 1 .. Len(s) : \E y \in 1 .. Len(r) : s[i] = r[y]
      BY <1>9
    <2>3. QED
      BY <2>1, <2>2 DEF Origin
  <1>11. Sorted(s)
    <2> SUFFICES ASSUME NEW i \in 1 .. Len(s), NEW j \in 1 .. Len(s), i < j,
                        s[i][1] # "init", s[j][1] # "init"
                 PROVE  Precedes(s[i], s[j])
      BY DEF Sorted
    <2>1. PICK x \in 1 .. Len(r) :
            s[i] = r[x] /\ ((i <= Len(a) /\ x = i) \/ (i > Len(a) /\ x = i + k))
      BY <1>9
    <2>2. PICK y \in 1 .. Len(r) :
            s[j] = r[y] /\ ((j <= Len(a) /\ y = j) \/ (j > Len(a) /\ y = j + k))
      BY <1>9
    <2>3. x < y
      BY <2>1, <2>2, <1>1, SMTT(30)
    <2>4. QED
      BY <2>1, <2>2, <2>3 DEF StreamOK, Sorted
  <1>12. Uncut(s, bk, C)
    <2> SUFFICES ASSUME NEW i \in 1 .. Len(s), NEW b \in bk, NEW len \in Nat, NEW j \in 1 .. len,
                        b.len = len, s[i] = <<"data", b.n, j>>, b.n \notin C
                 PROVE  RunsOn(s, i, b, len, j)
      BY DEF Uncut
    <2>1. b.n \notin ct /\ b.n \notin Framing!DataIn(K)
      BY DEF Loses
    <2>2. PICK x \in 1 .. Len(r) :
            s[i] = r[x] /\ ((i <= Len(a) /\ x = i) \/ (i > Len(a) /\ x = i + k))
      BY <1>9
    <2>3. Uncut(r, bk, ct) /\ r[x] = <<"data", b.n, j>>
      BY <2>2 DEF StreamOK
    <2>4. RunsOn(r, x, b, len, j)
      BY <2>1, <2>3 DEF Uncut
    <2>5. x + len - j <= Len(r)
      BY <2>4 DEF RunsOn
    <2>6. i <= Len(a) => x + len - j <= Len(a)
      <3>1. SUFFICES ASSUME i <= Len(a), x + len - j > Len(a) PROVE FALSE
        BY <1>1
      <3>2. x = i
        BY <2>2, <3>1, SMTT(30)
      <3>3. PICK y \in 1 .. Len(r) : y = Len(a) + 1
        <4>1. Len(a) < Len(r)
          BY <2>5, <3>1, <1>1
        <4>2. QED
          BY <4>1, <1>1, SMTT(30)
      <3>4. PICK m \in j .. len : y - x = m - j
        <4>1. y - x >= 0 /\ y - x <= len - j
          BY <3>1, <3>2, <3>3, <1>0, SMTT(30)
        <4>2. j + (y - x) \in j .. len /\ y - x = (j + (y - x)) - j
          BY <4>1
        <4>3. QED
          BY <4>2
      <3>5. r[y] = <<"data", b.n, m>>
        BY <2>4, <3>4 DEF RunsOn
      <3>6. PICK z \in 1 .. Len(K) : r[y] = K[z]
        BY <3>3, <1>7
      <3>7. K[z] = <<"data", b.n, m>>
        BY <3>5, <3>6
      <3>8. K[z][1] = "data" /\ K[z][2] = b.n
        BY <3>7
      <3>9. QED
        BY <3>8, <2>1, DataInIs
    <2>7. i + len - j <= Len(s)
      <3>1. CASE i <= Len(a)
        <4>1. i + len - j <= Len(a)
          BY <3>1, <2>2, <2>6, SMTT(30)
        <4>2. QED
          BY <4>1, <1>1, <1>2, <1>3
      <3>2. CASE i > Len(a)
        <4>1. x = i + k
          BY <3>2, <2>2
        <4>2. QED
          BY <4>1, <2>5, <1>4
      <3>3. QED
        BY <3>1, <3>2, <1>1
    <2>8. ASSUME NEW q \in 1 .. Len(s), NEW m \in j .. len, q - i = m - j
          PROVE  s[q] = <<"data", b.n, m>>
      <3>1. PICK y \in 1 .. Len(r) :
              s[q] = r[y] /\ ((q <= Len(a) /\ y = q) \/ (q > Len(a) /\ y = q + k))
        BY <1>9
      <3>2. q >= i /\ q <= i + len - j
        BY <2>8, SMTT(30)
      <3>3. y - x = m - j
        <4>1. CASE i <= Len(a)
          <5>1. x = i /\ i + len - j <= Len(a)
            BY <4>1, <2>2, <2>6, SMTT(30)
          <5>2. q <= Len(a)
            BY <5>1, <3>2, <1>1
          <5>3. y = q
            BY <5>2, <3>1, SMTT(30)
          <5>4. QED
            BY <5>1, <5>3, <2>8
        <4>2. CASE i > Len(a)
          <5>1. x = i + k
            BY <4>2, <2>2
          <5>2. q > Len(a)
            BY <4>2, <3>2, <1>1
          <5>3. y = q + k
            BY <5>2, <3>1
          <5>4. QED
            BY <5>1, <5>3, <2>8
        <4>3. QED
          BY <4>1, <4>2, <1>1
      <3>4. r[y] = <<"data", b.n, m>>
        BY <2>4, <3>3 DEF RunsOn
      <3>5. QED
        BY <3>1, <3>4
    <2>9. QED
      BY <2>7, <2>8 DEF RunsOn
  <1>13. InPlace(s, o, v, bk)
    <2>1. InPlace(r, p, l, bk)
      BY DEF StreamOK
    <2>2. PICK n \in Nat : n = Len(a)
      BY <1>1
    <2>3. o = p + k /\ v = p + n + k /\ l <= p + n
      BY <2>2, <1>1, <1>8
    <2>4. \A i \in 1 .. Len(s) : i > n => \E y \in 1 .. Len(r) : y = i + k /\ s[i] = r[y]
      BY <2>2, <1>6
    <2>5. QED
      BY <2>1, <2>3, <2>4, PlacesMove
  <1>14. StartsIn(s, o, v, bk)
    <2> SUFFICES ASSUME NEW i \in 1 .. Len(s), o + i > v, s[i][1] = "media", s[i][3] = 1
                 PROVE  \E b \in bk : b.start + 1 = o + i
      BY DEF StartsIn
    <2>1. i > Len(a)
      BY <1>1, <1>8
    <2>2. PICK y \in 1 .. Len(r) : y = i + k /\ s[i] = r[y]
      BY <2>1, <1>6
    <2>3. p + y = o + i /\ p + y > l
      BY <2>2, <1>1, <1>8
    <2>4. StartsIn(r, p, l, bk)
      BY DEF StreamOK
    <2>5. \E b \in bk : b.start + 1 = p + y
      BY <2>2, <2>3, <2>4 DEF StartsIn
    <2>6. QED
      BY <2>3, <2>5
  <1>15. InitsIn(s, o, v)
    <2> SUFFICES ASSUME NEW i \in 1 .. Len(s), o + i > v, s[i][1] = "init", s[i][3] = 1
                 PROVE  /\ i < Len(s)
                        /\ \A q \in 1 .. Len(s) : q = i + 1 => s[q][1] = "init" /\ s[q][3] = 2
      BY DEF InitsIn
    <2>1. i > Len(a)
      BY <1>1, <1>8
    <2>2. PICK y \in 1 .. Len(r) : y = i + k /\ s[i] = r[y]
      BY <2>1, <1>6
    <2>3. p + y > l
      BY <2>2, <1>1, <1>8
    <2>4. /\ y < Len(r)
          /\ \A q \in 1 .. Len(r) : q = y + 1 => r[q][1] = "init" /\ r[q][3] = 2
      BY <2>2, <2>3 DEF StreamOK, InitsIn
    <2>5. i < Len(s)
      <3>1. y < Len(r)
        BY <2>4
      <3>2. QED
        BY <2>2, <3>1, <1>4
    <2>6. ASSUME NEW q \in 1 .. Len(s), q = i + 1 PROVE s[q][1] = "init" /\ s[q][3] = 2
      <3>1. q > Len(a)
        BY <2>1, <2>6, <1>1
      <3>2. PICK z \in 1 .. Len(r) : z = q + k /\ s[q] = r[z]
        BY <3>1, <1>6
      <3>3. z = y + 1
        BY <2>2, <2>6, <3>2
      <3>4. QED
        BY <2>4, <3>2, <3>3
    <2>7. QED
      BY <2>5, <2>6
  <1>18. \A n : Behind(n, r) => Behind(n, s)
    <2>1. \A i \in 1 .. Len(s) : \E y \in 1 .. Len(r) : s[i] = r[y]
      BY <1>9
    <2>2. QED
      BY <2>1 DEF Behind
  <1>19. QED
    BY <1>10, <1>11, <1>12, <1>13, <1>14, <1>15, <1>18 DEF StreamOK

(* What the history says of a packet, and of two.                          *)
LEMMA BookIs ==
  ASSUME NEW bk, NEW w, NEW m \in Nat, BookOK(bk, w, m), Lens \subseteq Nat \ {0}, NEW b \in bk
  PROVE  /\ b.n \in 1 .. m /\ b.start \in Nat /\ b.len \in Nat \ {0}
         /\ b.start + 2 + b.len <= w
  BY DEF BookOK

LEMMA BookApart ==
  ASSUME NEW bk, NEW w, NEW m \in Nat, BookOK(bk, w, m), Lens \subseteq Nat \ {0}, NEW b \in bk, NEW c \in bk
  PROVE  /\ b.n = c.n => b = c
         /\ b = c \/ b.start + 2 + b.len <= c.start \/ c.start + 2 + c.len <= b.start
  <1>1. b.n \in Nat /\ c.n \in Nat
    BY BookIs
  <1>2. \/ b = c
        \/ b.n < c.n /\ b.start + 2 + b.len <= c.start
        \/ c.n < b.n /\ c.start + 2 + c.len <= b.start
    BY DEF BookOK
  <1>3. QED
    BY <1>1, <1>2

(* A reader that has taken a header with number n and length len, while h  *)
(* are the packets that it handed on: they all came before.  If the        *)
(* number is a packet's, so is the length, and the header was that         *)
(* packet's.  And either the reader is where a packet begins, or it will   *)
(* be no further than one payload, of at most max tokens, behind the loss. *)
InHand(n, len, r, bk, h) ==
  n # 0 => /\ \E b \in bk : b.n = n /\ b.len = len
           /\ Behind(n, r) /\ \A o \in h : o < n
BusyOK(n, len, r, p, l, bk, h, f, max) ==
  /\ InHand(n, len, r, bk, h)
  /\ \/ f # 0 /\ p + len <= l + max + 2
     \/ \E c \in bk : c.start >= l /\ p = c.start + 2 /\ c.n = n /\ c.len = len

(* A packet that has to arrive was handed on (g), or is still ahead, or is *)
(* the one being read.                                                     *)
DueOK(p, n, l, bk, g, f, max) ==
  \A b \in bk : f = 0 \/ b.start >= l + max + 2 =>
    b.n \in g \/ p <= b.start \/ (p = b.start + 2 /\ n = b.n)

(* What was handed on comes before all that is left. *)
HandedOK(h, r, m) == \A o \in h : o \in 1 .. m /\ Behind(o, r)

(* Without a fault there was no loss. *)
Lossless(f, l) == f = 0 => l = 0

(* The fields of a header whose second token is t. *)
FieldsOK(t, n, len, bk) ==
  \/ t[1] = "media" /\ t[3] = 2 /\ n = t[2] /\ \A b \in bk : b.n = n => b.len = len
  \/ ~(t[1] = "media" /\ t[3] = 2) /\ n = 0

(* Where a due packet can start that is not behind the reader: here, at    *)
(* the second token of the window, or further on.                          *)
LEMMA DueStarts ==
  ASSUME NEW p \in Nat, NEW l \in Nat, NEW bk, NEW g, NEW f, NEW max \in Nat, Lossless(f, l),
         DueOK(p, 0, l, bk, g, f, max), NEW b \in bk, b.n # 0, b.start \in Nat, b.n \notin g,
         f = 0 \/ b.start >= l + max + 2
  PROVE  b.start >= l /\ (b.start = p \/ (b.start = p + 1 /\ p >= l) \/ p + 2 <= b.start)
  <1>1. p <= b.start
    BY DEF DueOK
  <1>2. PICK x \in Nat : x = b.start
    OBVIOUS
  <1>3. CASE f = 0
    <2>1. l = 0
      BY <1>3 DEF Lossless
    <2>2. QED
      BY <1>1, <1>2, <2>1
  <1>4. CASE b.start >= l + max + 2
    BY <1>1, <1>2, <1>4
  <1>5. QED
    BY <1>3, <1>4

(* A header is read: the number and the length are those of a packet, and  *)
(* from the last loss on it is the packet that begins here.                *)
LEMMA HeaderRead ==
  ASSUME NEW r, Tokens(r), NEW s, Tokens(s), NEW p \in Nat, NEW o \in Nat, Sum(o, p, 2), Drops(s, r, 2),
         2 \in 1 .. Len(r), NEW l \in Nat, NEW bk, NEW ct, NEW w, NEW m \in Nat, NEW h, NEW g, NEW f,
         StreamOK(r, p, l, bk, ct), BookOK(bk, w, m), Lens \subseteq Nat \ {0}, Lossless(f, l),
         HandedOK(h, r, m),
         r[1][1] = "media", r[1][3] = 1,
         NEW n \in Nat, NEW len \in Nat, NEW max \in Nat, len <= max, FieldsOK(r[2], n, len, bk),
         DueOK(p, 0, l, bk, g, f, max)
  PROVE  BusyOK(n, len, s, o, l, bk, h, f, max) /\ DueOK(o, n, l, bk, g, f, max)
  <1>1. 1 \in 1 .. Len(r)
    BY DEF Tokens
  <1>2. o = p + 2
    BY DEF Sum
  (* The second token of a packet that begins here names it. *)
  <1>3. ASSUME NEW b \in bk, b.start = p, b.start >= l PROVE n = b.n /\ len = b.len
    <2>1. b.start \in Nat /\ b.len \in Nat \ {0} /\ b.n \in Nat
      BY BookIs
    <2>2. Placed(b, 2, p, 2, l)
      BY <1>3, <2>1 DEF Placed
    <2>3. r[2] = Tok(b, 2)
      BY <2>1, <2>2, PlaceIs
    <2>4. r[2] = <<"media", b.n, 2>>
      BY <2>3 DEF Tok
    <2>5. QED
      BY <2>4 DEF FieldsOK
  (* No packet begins at the second token, if the loss is behind. *)
  <1>4. ASSUME p >= l PROVE \E c \in bk : c.start = p
    <2>1. StartsIn(r, p, l, bk)
      BY DEF StreamOK
    <2>2. p + 1 > l
      BY <1>4
    <2>3. PICK c \in bk : c.start + 1 = p + 1
      BY <1>1, <2>1, <2>2 DEF StartsIn
    <2>4. c.start \in Nat
      BY BookIs
    <2>5. QED
      BY <2>3, <2>4, SMTT(30)
  <1>5. n # 0 => /\ \E b \in bk : b.n = n /\ b.len = len
                 /\ Behind(n, s) /\ \A x \in h : x < n
    <2> SUFFICES ASSUME n # 0
                 PROVE  /\ \E b \in bk : b.n = n /\ b.len = len
                        /\ Behind(n, s) /\ \A x \in h : x < n
      OBVIOUS
    <2>1. r[2][1] = "media" /\ r[2][3] = 2 /\ n = r[2][2] /\ \A b \in bk : b.n = n => b.len = len
      BY DEF FieldsOK
    <2>2. PICK b \in bk : \E j \in 1 .. 2 + b.len : r[2] = Tok(b, j)
      <3>1. Origin(r, bk)
        BY DEF StreamOK
      <3>2. QED
        BY <2>1, <3>1 DEF Origin
    <2>3. b.n = n
      BY <2>1, <2>2 DEF Tok
    <2>4. b.len = len
      BY <2>1, <2>3
    <2>5. Behind(n, s)
      <3> SUFFICES ASSUME NEW i \in 1 .. Len(s), s[i][1] # "init"
                   PROVE  n < s[i][2] \/ (n = s[i][2] /\ s[i][1] = "data")
        BY DEF Behind
      <3>1. PICK q \in 1 .. Len(r) : q = i + 2
        BY DEF Drops, Sum, Tokens
      <3>2. s[i] = r[q] /\ 2 < q
        BY <3>1 DEF Drops
      <3>3. Precedes(r[2], r[q])
        <4>1. Sorted(r)
          BY DEF StreamOK
        <4>2. QED
          BY <3>2, <2>1, <4>1 DEF Sorted
      <3>4. n < s[i][2] \/ (n = s[i][2] /\ 2 < Rank(s[i]))
        BY <2>1, <3>2, <3>3 DEF Precedes, Rank
      <3>5. s[i][1] = "data" \/ Rank(s[i]) \in 1 .. 2
        <4>1. PICK c \in bk : \E j \in 1 .. 2 + c.len : s[i] = Tok(c, j)
          <5>1. Origin(r, bk)
            BY DEF StreamOK
          <5>2. QED
            BY <3>2, <5>1 DEF Origin
        <4>2. c.len \in Nat
          BY BookIs
        <4>3. PICK j \in 1 .. 2 + c.len : s[i] = Tok(c, j)
          BY <4>1
        <4>4. CASE j <= 2
          <5>1. s[i] = <<"media", c.n, j>>
            BY <4>3, <4>4 DEF Tok
          <5>2. QED
            BY <4>2, <4>4, <5>1 DEF Rank
        <4>5. CASE ~(j <= 2)
          <5>1. s[i] = <<"data", c.n, j - 2>>
            BY <4>3, <4>5 DEF Tok
          <5>2. QED
            BY <5>1
        <4>6. QED
          BY <4>4, <4>5
      <3>6. QED
        BY <3>4, <3>5
    <2>6. \A x \in h : x < n
      BY <2>1 DEF HandedOK, Behind
    <2>7. QED
      BY <2>3, <2>4, <2>5, <2>6
  <1>6. \/ f # 0 /\ o + len <= l + max + 2
        \/ \E c \in bk : c.start >= l /\ o = c.start + 2 /\ c.n = n /\ c.len = len
    <2>1. CASE p >= l
      BY <2>1, <1>2, <1>3, <1>4
    <2>2. CASE p < l
      <3>1. f # 0
        BY <2>2 DEF Lossless
      <3>2. QED
        BY <2>2, <3>1, <1>2
    <2>3. QED
      BY <2>1, <2>2
  <1>7. DueOK(o, n, l, bk, g, f, max)
    <2> SUFFICES ASSUME NEW b \in bk, f = 0 \/ b.start >= l + max + 2, b.n \notin g
                 PROVE  o <= b.start \/ (o = b.start + 2 /\ n = b.n)
      BY DEF DueOK
    <2>1. b.start \in Nat /\ b.n # 0
      BY BookIs
    <2>2. b.start >= l /\ (b.start = p \/ (b.start = p + 1 /\ p >= l) \/ p + 2 <= b.start)
      BY <2>1, DueStarts
    <2>3. CASE b.start = p
      BY <2>2, <2>3, <1>2, <1>3
    <2>4. CASE b.start = p + 1 /\ p >= l
      <3>1. PICK c \in bk : c.start = p
        BY <2>4, <1>4
      <3>2. b = c \/ b.start + 2 + b.len <= c.start \/ c.start + 2 + c.len <= b.start
        BY BookApart
      <3>3. PICK x \in Nat : x = b.len
        BY BookIs
      <3>4. PICK y \in Nat : y = c.len
        BY BookIs
      <3>5. b # c
        BY <2>4, <3>1
      <3>6. p + 1 + 2 + x <= p \/ p + 2 + y <= p + 1
        BY <2>4, <3>1, <3>2, <3>3, <3>4, <3>5
      <3>7. QED
        BY <3>6
    <2>5. CASE p + 2 <= b.start
      BY <2>5, <1>2
    <2>6. QED
      BY <2>2, <2>3, <2>4, <2>5
  <1>8. QED
    BY <1>5, <1>6, <1>7 DEF BusyOK, InHand

(* Nothing that has to arrive is in what the reader skips: k tokens that   *)
(* are an init packet, or a token that begins nothing.                     *)
LEMMA DueSkips ==
  ASSUME NEW r, Tokens(r), NEW p \in Nat, NEW o \in Nat, NEW k \in {1, 2}, Sum(o, p, k),
         2 \in 1 .. Len(r), NEW l \in Nat, NEW bk, NEW ct, NEW w, NEW m \in Nat, NEW g, NEW f, NEW max \in Nat,
         StreamOK(r, p, l, bk, ct), BookOK(bk, w, m), Lens \subseteq Nat \ {0}, Lossless(f, l),
         r[1][1] # "media" \/ r[1][3] # 1, k = 2 => r[1][1] = "init" /\ r[1][3] = 1,
         DueOK(p, 0, l, bk, g, f, max)
  PROVE  DueOK(o, 0, l, bk, g, f, max)
  <1> SUFFICES ASSUME NEW b \in bk, f = 0 \/ b.start >= l + max + 2, b.n \notin g
               PROVE  o <= b.start
    BY DEF DueOK
  <1>1. 1 \in 1 .. Len(r)
    BY DEF Tokens
  <1>2. o = p + k
    BY DEF Sum
  <1>3. b.start \in Nat /\ b.n # 0 /\ b.len \in Nat \ {0} /\ b.n \in Nat
    BY BookIs
  <1>4. b.start >= l /\ (b.start = p \/ (b.start = p + 1 /\ p >= l) \/ p + 2 <= b.start)
    BY <1>3, DueStarts
  <1>5. CASE b.start = p
    <2>1. Placed(b, 1, p, 1, l)
      BY <1>3, <1>4, <1>5 DEF Placed
    <2>2. r[1] = Tok(b, 1)
      BY <1>1, <1>3, <2>1, PlaceIs
    <2>3. r[1] = <<"media", b.n, 1>>
      BY <2>2 DEF Tok
    <2>4. QED
      BY <2>3
  <1>6. CASE b.start = p + 1 /\ p >= l
    <2>1. SUFFICES ASSUME k = 2 PROVE FALSE
      BY <1>2, <1>6
    <2>2. Placed(b, 1, p, 2, l)
      BY <1>3, <1>4, <1>6 DEF Placed
    <2>3. r[2] = Tok(b, 1)
      BY <1>3, <2>2, PlaceIs
    <2>4. r[2] = <<"media", b.n, 1>>
      BY <2>3 DEF Tok
    <2>5. r[2][1] = "init"
      <3>1. InitsIn(r, p, l)
        BY DEF StreamOK
      <3>2. p + 1 > l
        BY <1>6
      <3>3. 2 = 1 + 1
        OBVIOUS
      <3>4. QED
        BY <1>1, <2>1, <3>1, <3>2, <3>3 DEF InitsIn
    <2>6. QED
      BY <2>4, <2>5
  <1>7. CASE p + 2 <= b.start
    <2>1. PICK x \in Nat : x = b.start
      BY <1>3
    <2>2. p + 2 <= x
      BY <1>7, <2>1
    <2>3. k <= 2
      OBVIOUS
    <2>4. o <= x
      BY <1>2, <2>2, <2>3
    <2>5. QED
      BY <2>1, <2>4
  <1>8. QED
    BY <1>4, <1>5, <1>6, <1>7

(* A payload that begins with a magic is not that of a packet that has to  *)
(* arrive.                                                                 *)
LEMMA DueGoesBack ==
  ASSUME NEW r, NEW p \in Nat, 1 \in 1 .. Len(r), NEW n, NEW l \in Nat, NEW bk, NEW ct, NEW w, NEW m \in Nat,
         NEW g, NEW f, NEW max \in Nat,
         StreamOK(r, p, l, bk, ct), BookOK(bk, w, m), Lens \subseteq Nat \ {0}, Lossless(f, l),
         r[1][1] # "data", DueOK(p, n, l, bk, g, f, max)
  PROVE  DueOK(p, 0, l, bk, g, f, max)
  <1> SUFFICES ASSUME NEW b \in bk, f = 0 \/ b.start >= l + max + 2, p = b.start + 2
               PROVE  FALSE
    BY DEF DueOK
  <1>1. b.start \in Nat /\ b.len \in Nat \ {0} /\ b.n \in Nat
    BY BookIs
  <1>2. b.start >= l
    BY <1>1 DEF Lossless
  <1>3. Placed(b, 3, p, 1, l)
    BY <1>1, <1>2, SMTT(30) DEF Placed
  <1>4. r[1] = Tok(b, 3)
    BY <1>1, <1>3, PlaceIs
  <1>5. r[1] = <<"data", b.n, 1>>
    BY <1>4 DEF Tok
  <1>6. QED
    BY <1>5

(* A payload is complete.  It is that of its packet, unless the packet     *)
(* lost a part of it; and the packets that have to arrive are not passed.  *)
OpensWith(r, n) == r[1] = <<"data", n, 1>>
Whole(r, n, len) == \A q \in 1 .. len : q \in 1 .. Len(r) => r[q] = <<"data", n, q>>

LEMMA PayloadWhole ==
  ASSUME NEW r, Tokens(r), NEW p \in Nat, NEW l \in Nat, NEW bk, NEW ct, NEW w, NEW m \in Nat, NEW h, NEW f,
         NEW max \in Nat,
         StreamOK(r, p, l, bk, ct), BookOK(bk, w, m), Lens \subseteq Nat \ {0},
         NEW n \in Nat, NEW len \in Nat, n # 0, BusyOK(n, len, r, p, l, bk, h, f, max),
         1 \in 1 .. Len(r), OpensWith(r, n), n \notin ct
  PROVE  Whole(r, n, len)
  <1>1. PICK b \in bk : b.n = n /\ b.len = len
    BY DEF BusyOK, InHand
  <1>2. 1 \in 1 .. len
    BY <1>1, BookIs
  <1>3. Uncut(r, bk, ct)
    BY DEF StreamOK
  <1>4. RunsOn(r, 1, b, len, 1)
    BY <1>1, <1>2, <1>3 DEF Uncut, OpensWith
  <1>5. QED
    BY <1>1, <1>2, <1>4 DEF RunsOn, Whole

(* From the last loss on, a packet's payload lies where its header says.   *)
LEMMA PayloadOfDue ==
  ASSUME NEW r, NEW p \in Nat, NEW l \in Nat, NEW bk, NEW ct, NEW w, NEW m \in Nat,
         StreamOK(r, p, l, bk, ct), BookOK(bk, w, m), Lens \subseteq Nat \ {0},
         NEW b \in bk, b.start >= l, p = b.start + 2
  PROVE  Whole(r, b.n, b.len)
  <1>1. b.start \in Nat /\ b.len \in Nat \ {0} /\ b.n \in Nat
    BY BookIs
  <1>2. PICK x \in Nat : x = b.len
    BY <1>1
  <1>3. SUFFICES ASSUME NEW q \in 1 .. x, q \in 1 .. Len(r) PROVE r[q] = <<"data", b.n, q>>
    BY <1>2 DEF Whole
  <1>4. Placed(b, q + 2, p, q, l)
    BY <1>1, <1>2 DEF Placed
  <1>5. r[q] = Tok(b, q + 2)
    BY <1>1, <1>3, <1>4, PlaceIs
  <1>6. ~(q + 2 <= 2) /\ (q + 2) - 2 = q
    OBVIOUS
  <1>7. QED
    BY <1>5, <1>6 DEF Tok

(* The reader hands a payload on, or drops it, and goes on behind it: what *)
(* has to arrive is not passed.                                            *)
LEMMA DuePassed ==
  ASSUME NEW r, NEW p \in Nat, NEW o \in Nat, NEW l \in Nat, NEW bk, NEW ct, NEW w, NEW m \in Nat, NEW h,
         NEW g, NEW G,
         NEW f, NEW max \in Nat, StreamOK(r, p, l, bk, ct), BookOK(bk, w, m), Lens \subseteq Nat \ {0},
         Lossless(f, l),
         NEW n \in Nat, NEW len \in Nat, Sum(o, p, len), BusyOK(n, len, r, p, l, bk, h, f, max),
         DueOK(p, n, l, bk, g, f, max), g \subseteq G,
         n # 0 /\ Whole(r, n, len) => n \in G
  PROVE  DueOK(o, 0, l, bk, G, f, max)
  <1> SUFFICES ASSUME NEW b \in bk, f = 0 \/ b.start >= l + max + 2, b.n \notin G
               PROVE  o <= b.start
    BY DEF DueOK
  <1>1. b.start \in Nat /\ b.len \in Nat \ {0} /\ b.n \in Nat \ {0}
    BY BookIs
  <1>2. PICK x \in Nat : x = b.start
    BY <1>1
  <1>3. o = p + len
    BY DEF Sum
  <1>4. p <= x \/ (p = x + 2 /\ n = b.n)
    BY <1>2 DEF DueOK
  <1>5. x >= l
    <2>1. CASE f = 0
      <3>1. l = 0
        BY <2>1 DEF Lossless
      <3>2. QED
        BY <3>1
    <2>2. CASE x >= l + max + 2
      BY <2>2
    <2>3. QED
      BY <2>1, <2>2, <1>2
  <1>6. CASE p = x + 2 /\ n = b.n
    <2>1. PICK c \in bk : c.n = n /\ c.len = len
      BY <1>1, <1>6 DEF BusyOK, InHand
    <2>2. c = b
      BY <2>1, <1>6, BookApart
    <2>3. Whole(r, b.n, b.len)
      <3>1. b.start >= l /\ p = b.start + 2
        BY <1>2, <1>5, <1>6
      <3>2. QED
        BY <3>1, PayloadOfDue
    <2>4. QED
      BY <2>1, <2>2, <2>3, <1>1, <1>6
  <1>7. CASE p <= x
    <2>1. CASE f # 0 /\ p + len <= l + max + 2
      <3>1. l + max + 2 <= x
        BY <2>1, <1>2
      <3>2. o <= x
        BY <3>1, <2>1, <1>3
      <3>3. QED
        BY <3>2, <1>2
    <2>2. CASE \E c \in bk : c.start >= l /\ p = c.start + 2 /\ c.n = n /\ c.len = len
      <3>1. PICK c \in bk : p = c.start + 2 /\ c.len = len
        BY <2>2
      <3>2. PICK y \in Nat : y = c.start
        BY BookIs
      <3>3. PICK z \in Nat : z = b.len
        BY <1>1
      <3>4. b = c \/ x + 2 + z <= y \/ y + 2 + len <= x
        BY <3>1, <3>2, <3>3, <1>2, BookApart
      <3>5. p = y + 2
        BY <3>1, <3>2
      <3>6. b # c
        BY <3>2, <3>5, <1>2, <1>7
      <3>7. y + 2 + len <= x
        BY <3>4, <3>5, <3>6, <1>7
      <3>8. o <= x
        BY <3>5, <3>7, <1>3
      <3>9. QED
        BY <3>8, <1>2
    <2>3. QED
      BY <2>1, <2>2 DEF BusyOK, InHand
  <1>8. QED
    BY <1>4, <1>6, <1>7

(* What the device does leaves the reader's packets as they are.           *)
LEMMA InHandKept ==
  ASSUME NEW r, NEW s, NEW bk, NEW B, NEW w, NEW m \in Nat, BookOK(bk, w, m), bk \subseteq B, NEW h,
         NEW n \in Nat, NEW len \in Nat, InHand(n, len, r, bk, h),
         \A x \in 1 .. m : Behind(x, r) => Behind(x, s), Lens \subseteq Nat \ {0}
  PROVE  InHand(n, len, s, B, h)
  <1> SUFFICES ASSUME n # 0
               PROVE  /\ \E b \in B : b.n = n /\ b.len = len
                      /\ Behind(n, s) /\ \A x \in h : x < n
    BY DEF InHand
  <1>1. PICK b \in bk : b.n = n /\ b.len = len
    BY DEF InHand
  <1>2. n \in 1 .. m
    BY <1>1, BookIs
  <1>3. Behind(n, s)
    BY <1>2 DEF InHand
  <1>4. QED
    BY <1>1, <1>3 DEF InHand

(* Nor does what is put behind it move a reader that is in step.           *)
LEMMA BusyKept ==
  ASSUME NEW r, NEW s, NEW p \in Nat, NEW l \in Nat, NEW bk, NEW B, NEW w, NEW m \in Nat,
         BookOK(bk, w, m), bk \subseteq B, NEW h, NEW f, NEW max \in Nat, Lens \subseteq Nat \ {0},
         NEW n \in Nat, NEW len \in Nat, BusyOK(n, len, r, p, l, bk, h, f, max),
         \A x \in 1 .. m : Behind(x, r) => Behind(x, s)
  PROVE  BusyOK(n, len, s, p, l, B, h, f, max)
  <1>1. InHand(n, len, s, B, h)
    <2>1. InHand(n, len, r, bk, h)
      BY DEF BusyOK
    <2>2. QED
      BY <2>1, InHandKept
  <1>2. \/ f # 0 /\ p + len <= l + max + 2
        \/ \E c \in B : c.start >= l /\ p = c.start + 2 /\ c.n = n /\ c.len = len
    <2>1. CASE f # 0 /\ p + len <= l + max + 2
      BY <2>1
    <2>2. CASE \E c \in bk : c.start >= l /\ p = c.start + 2 /\ c.n = n /\ c.len = len
      BY <2>2
    <2>3. QED
      BY <2>1, <2>2 DEF BusyOK
  <1>3. QED
    BY <1>1, <1>2 DEF BusyOK

(* The packets that have to arrive stay ahead, or become none that have    *)
(* to.                                                                     *)
LEMMA DueKept ==
  ASSUME NEW p \in Nat, NEW o \in Nat, NEW l \in Nat, NEW v \in Nat, NEW bk, NEW B, NEW w \in Nat,
         NEW m \in Nat,
         BookOK(bk, w, m), Lens \subseteq Nat \ {0}, NEW g, NEW f, NEW e, NEW max \in Nat, NEW n,
         DueOK(p, n, l, bk, g, f, max),
         \/ o = p /\ v = l /\ e = f /\ \A b \in B : b \in bk \/ p <= b.start
         \/ e # 0 /\ o <= v + max + 2 /\ B = bk
  PROVE  DueOK(o, n, v, B, g, e, max)
  <1>1. CASE o = p /\ v = l /\ e = f /\ \A b \in B : b \in bk \/ p <= b.start
    BY <1>1 DEF DueOK
  <1>2. CASE e # 0 /\ o <= v + max + 2 /\ B = bk
    <2> SUFFICES ASSUME NEW b \in bk, b.start >= v + max + 2 PROVE o <= b.start
      BY <1>2 DEF DueOK
    <2>1. PICK x \in Nat : x = b.start
      BY BookIs
    <2>2. o <= x
      BY <2>1, <1>2
    <2>3. QED
      BY <2>1, <2>2
  <1>3. QED
    BY <1>1, <1>2

(* What was handed on stays before all that is left.                       *)
LEMMA HandedKept ==
  ASSUME NEW h, NEW r, NEW s, NEW m \in Nat, NEW M \in Nat, m <= M, HandedOK(h, r, m),
         \A x \in 1 .. m : Behind(x, r) => Behind(x, s)
  PROVE  HandedOK(h, s, M)
  BY DEF HandedOK

(* There is a longest length. *)
LEMMA LongestIs ==
  ASSUME Framing!FramingAssumption
  PROVE  /\ Lens \subseteq Nat \ {0} /\ Garbage \subseteq Nat /\ Framing!Longest \in Nat
         /\ \A len \in Lens \cup Garbage : len <= Framing!Longest
  <1>1. \E l \in Lens \cup Garbage : \A m \in Lens \cup Garbage : m <= l
    BY DEF Framing!FramingAssumption
  <1>2. Framing!Longest \in Lens \cup Garbage /\ \A m \in Lens \cup Garbage : m <= Framing!Longest
    BY <1>1 DEF Framing!Longest
  <1>3. QED
    BY <1>2 DEF Framing!FramingAssumption

(* The packets that the device makes, token by token.                      *)
Packet(q, n, len) == q = Framing!Header(n) \o Framing!Payload(n, len)
Begins(h, n) == h[1] = <<"media", n, 1>> /\ h[2] = <<"media", n, 2>>
Carries(d, n) == \A i \in 1 .. Len(d) : d[i] = <<"data", n, i>>

(* A header and a payload make a packet.                                   *)
LEMMA HeaderAndPayload ==
  ASSUME NEW n \in Nat, NEW len \in Nat, NEW h, Tokens(h), NEW d, Tokens(d), NEW q, Joined(q, h, d),
         Size(h, 2), Size(d, len), Begins(h, n), Carries(d, n)
  PROVE  /\ Tokens(q) /\ Len(q) = len + 2
         /\ \A b : b.n = n => \A i \in 1 .. len + 2 : q[i] = Tok(b, i)
  <1>0. Len(h) = 2 /\ Len(d) = len
    BY DEF Size
  <1>1. Tokens(q) /\ Len(q) = Len(h) + Len(d)
    BY JoinedIs
  <1>2. Len(q) = len + 2
    BY <1>0, <1>1
  <1>3. \A i \in 1 .. Len(h) : q[i] = h[i]
    BY JoinedIs
  <1>4. \A i \in 1 .. Len(q) : i > Len(h) => \E j \in 1 .. Len(d) : i = Len(h) + j /\ q[i] = d[j]
    BY JoinedIs
  <1>5. ASSUME NEW b, b.n = n, NEW i \in 1 .. len + 2 PROVE q[i] = Tok(b, i)
    <2>1. CASE i = 1 \/ i = 2
      <3>1. q[i] = h[i]
        BY <2>1, <1>0, <1>3
      <3>2. h[i] = <<"media", n, i>>
        BY <2>1 DEF Begins
      <3>3. i <= 2
        BY <2>1
      <3>4. QED
        BY <3>1, <3>2, <3>3, <1>5 DEF Tok
    <2>2. CASE i > 2
      <3>1. i \in 1 .. Len(q) /\ i > Len(h)
        BY <2>2, <1>0, <1>2
      <3>2. PICK j \in 1 .. Len(d) : i = Len(h) + j /\ q[i] = d[j]
        BY <3>1, <1>4
      <3>3. q[i] = <<"data", n, j>>
        BY <3>2 DEF Carries
      <3>4. ~(i <= 2) /\ i - 2 = j
        BY <3>2, <2>2, <1>0
      <3>5. QED
        BY <3>3, <3>4, <1>5 DEF Tok
    <2>3. QED
      BY <2>1, <2>2
  <1>6. QED
    BY <1>1, <1>2, <1>5

(* The packets of gateway_proto_write_media_header.                        *)
LEMMA PacketIs ==
  ASSUME NEW n \in Nat, NEW len \in Nat, NEW q, Packet(q, n, len)
  PROVE  /\ Tokens(q) /\ Len(q) = len + 2
         /\ \A b : b.n = n => \A i \in 1 .. len + 2 : q[i] = Tok(b, i)
  <1> DEFINE h == Framing!Header(n)
             d == Framing!Payload(n, len)
  <1>1. Tokens(h) /\ Size(h, 2) /\ Begins(h, n)
    BY DEF Framing!Header, Tokens, Token, Size, Begins
  <1>2. d \in [1 .. len -> Token] /\ \A i \in 1 .. len : d[i] = <<"data", n, i>>
    BY DEF Framing!Payload, Token
  <1>3. Tokens(d) /\ Len(d) = len
    BY <1>2 DEF Tokens
  <1>4. Size(d, len) /\ Carries(d, n)
    BY <1>2, <1>3 DEF Size, Carries
  <1>5. Joined(q, h, d)
    BY DEF Joined, Packet
  <1> HIDE DEF h, d
  <1>6. QED
    BY <1>1, <1>3, <1>4, <1>5, HeaderAndPayload

(* The init packet of a new session.                                       *)
LEMMA InitPacketIs == InitPacket(Framing!Init0) /\ Tokens(Framing!Init0)
  BY DEF InitPacket, Framing!Init0, Tokens, Token

(* Rests of streams: taking from the front, and adding behind.             *)
LEMMA FrontDrops ==
  ASSUME NEW a, Tokens(a), NEW s, Tokens(s), NEW r, Joined(r, a, s), NEW k, Size(a, k)
  PROVE  Tokens(r) /\ k \in Nat /\ Drops(s, r, k)
  <1>1. Len(a) = k
    BY DEF Size
  <1>2. Tokens(r) /\ k \in Nat /\ Len(r) = k + Len(s) /\ Len(s) \in Nat
    BY <1>1, JoinedIs
  <1>3. ASSUME NEW i \in 1 .. Len(s), NEW q \in 1 .. Len(r), q = i + k PROVE s[i] = r[q]
    <2>1. q = Len(a) + i
      BY <1>1, <1>2, <1>3
    <2>2. QED
      BY <2>1, JoinedBehind
  <1>4. Sum(Len(r), Len(s), k)
    BY <1>2 DEF Sum
  <1>5. QED
    BY <1>2, <1>3, <1>4 DEF Drops

(* A packet behind a rest.                                                 *)
LEMMA PacketExtends ==
  ASSUME NEW n \in Nat, NEW len \in Nat, NEW b0, b0.n = n, b0.len = len, NEW r, Tokens(r),
         NEW q, Packet(q, n, len), NEW s, Joined(s, r, q)
  PROVE  Tokens(s) /\ Extends(s, r, b0)
  <1>1. Tokens(q) /\ Len(q) = len + 2
    BY PacketIs
  <1>2. \A i \in 1 .. len + 2 : q[i] = Tok(b0, i)
    BY PacketIs
  <1>3. /\ Tokens(s) /\ Len(r) \in Nat /\ Len(s) = Len(r) + Len(q)
        /\ \A i \in 1 .. Len(r) : s[i] = r[i]
    <2>1. Tokens(q)
      BY <1>1
    <2>2. QED
      BY <2>1, JoinedIs
  <1>4. ASSUME NEW i \in 1 .. len + 2, NEW x \in 1 .. Len(s), x = Len(r) + i PROVE s[x] = Tok(b0, i)
    <2>1. Tokens(q) /\ i \in 1 .. Len(q)
      BY <1>1
    <2>2. s[x] = q[i]
      BY <2>1, <1>4, JoinedBehind
    <2>3. QED
      BY <2>2, <1>2
  <1>5. Len(s) = Len(r) + len + 2
    BY <1>1, <1>3
  <1>6. QED
    BY <1>3, <1>4, <1>5 DEF Extends

(* The inductive invariant.  p tokens of the stream are behind the reader. *)
ReaderTypes(c) ==
  /\ c \in [pc : {"header", "prefix", "rest"}, buf : Seq(Token), n : 0 .. MaxMade, len : Nat,
            prefetch : Seq(Token)]
  /\ c.len \in Lens \cup Garbage \cup {0}
  /\ c.pc = "header" => c.n = 0
FramingTypes ==
  /\ ReaderTypes(client) /\ Len(client.buf) <= Framing!Needed
  /\ Tokens(ring) /\ Len(ring) <= RingSize /\ made \in 1 .. MaxMade
  /\ written \in Nat /\ lastLoss \in Nat /\ lastLoss + Len(ring) <= written
  /\ cuts \in 0 .. MaxCuts /\ Lossless(cuts, lastLoss)
  /\ cut \subseteq 1 .. MaxMade /\ out \in Seq(Nat)
InOrder ==
  /\ \A i, j \in 1 .. Len(out) : i < j => out[i] < out[j]
  /\ damaged \subseteq Framing!Handed \cap cut
ReadOn(c, r, p) ==
  /\ HandedOK(Framing!Handed, r, made)
  /\ c.pc # "header" => BusyOK(c.n, c.len, r, p, lastLoss, book, Framing!Handed, cuts, Framing!Longest)
  /\ DueOK(p, c.n, lastLoss, book, Framing!Handed \ damaged, cuts, Framing!Longest)
Follows(c, r, p) ==
  /\ Sum(written, p, Len(r)) /\ StreamOK(r, p, lastLoss, book, cut) /\ BookOK(book, written, made)
  /\ ReadOn(c, r, p)
FramingInv == FramingTypes /\ InOrder /\ \E p \in Nat : Follows(client, Rem, p)

(* The parts of the rest, in both groupings.                               *)
LEMMA RemIs ==
  ASSUME FramingTypes
  PROVE  /\ Tokens(client.buf) /\ Tokens(client.prefetch) /\ Tokens(ring) /\ Tokens(client.prefetch \o ring)
         /\ Tokens(Rem) /\ Joined(Rem, client.buf, client.prefetch \o ring)
         /\ Joined(Rem, client.buf \o client.prefetch, ring) /\ Tokens(client.buf \o client.prefetch)
         /\ Len(Rem) \in Nat /\ Len(Rem) = Len(client.buf) + Len(client.prefetch) + Len(ring)
         /\ Len(client.buf) \in Nat /\ Len(client.prefetch) \in Nat /\ Len(ring) \in Nat
  <1>1. client.buf \in Seq(Token) /\ client.prefetch \in Seq(Token) /\ ring \in Seq(Token)
    BY DEF FramingTypes, ReaderTypes, Tokens
  <1>2. PICK a \in Seq(Token) : a = client.buf
    BY <1>1
  <1>3. PICK b \in Seq(Token) : b = client.prefetch
    BY <1>1
  <1>4. PICK c \in Seq(Token) : c = ring
    BY <1>1
  <1>5. b \o c \in Seq(Token) /\ a \o b \in Seq(Token) /\ a \o (b \o c) \in Seq(Token)
    BY ConcatProperties
  <1>6. Len(a \o (b \o c)) = Len(a) + Len(b) + Len(c) /\ Len(a) \in Nat /\ Len(b) \in Nat /\ Len(c) \in Nat
    BY <1>5, ConcatProperties
  <1>7. a \o (b \o c) = (a \o b) \o c
    BY ConcatAssociative, SMTT(30)
  <1>8. Rem = a \o (b \o c)
    BY <1>2, <1>3, <1>4 DEF Rem
  <1>9. Tokens(a) /\ Tokens(b) /\ Tokens(c) /\ Tokens(b \o c) /\ Tokens(a \o b) /\ Tokens(Rem)
    BY <1>5, <1>8 DEF Tokens
  <1>10. Joined(Rem, a, b \o c) /\ Joined(Rem, a \o b, c)
    BY <1>7, <1>8 DEF Joined
  <1>11. Len(Rem) \in Nat /\ Len(Rem) = Len(a) + Len(b) + Len(c)
    BY <1>6, <1>8
  <1>12. QED
    BY <1>2, <1>3, <1>4, <1>6, <1>9, <1>10, <1>11

(* The invariant says what the runs check.                                 *)
LEMMA FramingInvSound ==
  ASSUME Framing!FramingAssumption, FramingInv
  PROVE  Framing!TypeOK /\ Framing!Faithful /\ Framing!Recovers
  <1>1. Framing!Handed = {out[i] : i \in 1 .. Len(out)} /\ DOMAIN out = 1 .. Len(out)
    BY DEF FramingInv, FramingTypes, Framing!Handed
  <1>2. PICK p \in Nat : Follows(client, Rem, p)
    BY DEF FramingInv
  <1>3. damaged \subseteq cut /\ cut \subseteq 1 .. MaxMade
    BY DEF FramingInv, FramingTypes, InOrder
  <1>4. lastLoss \in 0 .. written
    <2>1. Len(ring) \in Nat
      BY RemIs DEF FramingInv
    <2>2. QED
      BY <2>1 DEF FramingInv, FramingTypes
  <1>5. Framing!TypeOK
    BY <1>3, <1>4 DEF FramingInv, FramingTypes, ReaderTypes, Framing!TypeOK
  <1>6. Framing!Faithful
    BY <1>1, <1>3 DEF FramingInv, InOrder, Framing!Faithful
  <1>7. Framing!Position = p
    <2>1. written = p + Len(Rem)
      BY <1>2 DEF Follows, Sum
    <2>2. /\ Len(Rem) = Len(client.buf) + Len(client.prefetch) + Len(ring)
          /\ Len(client.buf) \in Nat /\ Len(client.prefetch) \in Nat /\ Len(ring) \in Nat
      BY RemIs DEF FramingInv
    <2>3. PICK x \in Nat : x = Len(client.buf)
      BY <2>2
    <2>4. PICK y \in Nat : y = Len(client.prefetch)
      BY <2>2
    <2>5. PICK z \in Nat : z = Len(ring)
      BY <2>2
    <2>6. written = p + (x + y + z)
      BY <2>1, <2>2, <2>3, <2>4, <2>5
    <2>7. Framing!Position = written - z - y - x
      BY <2>3, <2>4, <2>5 DEF Framing!Position
    <2>8. QED
      BY <2>6, <2>7
  <1>8. Framing!Recovers
    <2> SUFFICES ASSUME NEW b \in book, b.start + 2 + b.len <= p,
                        cuts = 0 \/ b.start >= lastLoss + Framing!Longest + 2
                 PROVE  b.n \in Framing!Handed \ damaged
      BY <1>7 DEF Framing!Recovers, Framing!HeaderSize
    <2>1. BookOK(book, written, made) /\ made \in Nat /\ Lens \subseteq Nat \ {0}
      BY <1>2, LongestIs DEF FramingInv, FramingTypes, Follows
    <2>2. b.start \in Nat /\ b.len \in Nat \ {0}
      BY <2>1, BookIs
    <2>3. b.n \in Framing!Handed \ damaged \/ p <= b.start \/ p = b.start + 2
      BY <1>2 DEF Follows, ReadOn, DueOK
    <2>4. PICK x \in Nat : x = b.start
      BY <2>2
    <2>5. PICK y \in Nat \ {0} : y = b.len
      BY <2>2
    <2>6. ~(p <= x) /\ p # x + 2
      BY <2>4, <2>5
    <2>7. QED
      BY <2>3, <2>4, <2>6
  <1>9. QED
    BY <1>5, <1>6, <1>8

(* The reader goes on, or stays: the stream behind it is still a stream.   *)
LEMMA ReaderGoesOn ==
  ASSUME FramingInv, FramingTypes', InOrder', UNCHANGED <<made, book, written, cut, lastLoss, cuts>>,
         NEW p \in Nat, NEW o \in Nat, NEW k \in Nat, Sum(o, p, k), Tokens(Rem'), Drops(Rem', Rem, k),
         Follows(client, Rem, p), ReadOn(client, Rem, o)'
  PROVE  FramingInv'
  <1>1. PICK r : r = Rem
    OBVIOUS
  <1>2. PICK s : s = Rem'
    OBVIOUS
  <1>3. PICK l \in Nat : l = lastLoss
    BY DEF FramingInv, FramingTypes
  <1>4. Tokens(r) /\ Tokens(s) /\ Drops(s, r, k) /\ StreamOK(r, p, l, book, cut) /\ Sum(written, p, Len(r))
    BY <1>1, <1>2, <1>3, RemIs DEF FramingInv, Follows
  <1>5. StreamOK(s, o, l, book, cut)
    BY <1>4, StreamDrops
  <1>6. Sum(written, o, Len(s))
    <2>1. written = p + Len(r) /\ Len(r) = Len(s) + k /\ o = p + k
      BY <1>4 DEF Sum, Drops
    <2>2. Len(s) \in Nat
      BY <1>4 DEF Tokens
    <2>3. QED
      BY <2>1, <2>2 DEF Sum
  <1>7. BookOK(book, written, made)
    BY DEF Follows
  <1>8. Follows(client, Rem, o)'
    BY <1>2, <1>3, <1>5, <1>6, <1>7 DEF Follows
  <1>9. QED
    BY <1>8 DEF FramingInv

(* The fields that the reader finds.                                       *)
LEMMA FieldsAre ==
  ASSUME NEW r, NEW m \in Nat, NEW w, Origin(r, book), BookOK(book, w, m), 2 \in 1 .. Len(r),
         Lens \subseteq Nat \ {0},
         Garbage \subseteq Nat, NEW f \in Framing!Fields(r[2])
  PROVE  /\ FieldsOK(r[2], f.n, f.len, book)
         /\ f.n \in 0 .. m /\ f.len \in Nat /\ f.len \in Lens \cup Garbage
  <1>1. CASE r[2][1] = "media" /\ r[2][3] = 2
    <2>1. f.n = r[2][2] /\ f.len = CHOOSE l \in Lens : \E b \in book : b.n = r[2][2] /\ b.len = l
      BY <1>1 DEF Framing!Fields
    <2>2. PICK b \in book : \E j \in 1 .. 2 + b.len : r[2] = Tok(b, j)
      BY <1>1 DEF Origin
    <2>3. b.n = r[2][2]
      BY <1>1, <2>2 DEF Tok
    <2>4. b.len \in Lens /\ b.n \in 1 .. m
      BY DEF BookOK
    <2>5. f.len \in Lens /\ \E c \in book : c.n = f.n /\ c.len = f.len
      BY <2>1, <2>3, <2>4
    <2>6. \A c \in book : c.n = f.n => c.len = f.len
      BY <2>5, BookApart
    <2>7. FieldsOK(r[2], f.n, f.len, book)
      BY <1>1, <2>1, <2>6 DEF FieldsOK
    <2>8. f.n \in 1 .. m
      BY <2>1, <2>3, <2>4
    <2>9. f.n \in 0 .. m
      BY <2>8
    <2>10. f.len \in Nat
      BY <2>5
    <2>11. QED
      BY <2>5, <2>7, <2>9, <2>10
  <1>2. CASE ~(r[2][1] = "media" /\ r[2][3] = 2)
    <2>1. f.n = 0 /\ f.len \in Garbage
      BY <1>2 DEF Framing!Fields
    <2>2. FieldsOK(r[2], f.n, f.len, book)
      BY <1>2, <2>1 DEF FieldsOK
    <2>3. 0 \in 0 .. m /\ Garbage \subseteq Nat
      OBVIOUS
    <2>4. f.n \in 0 .. m /\ f.len \in Nat
      BY <2>1, <2>3
    <2>5. QED
      BY <2>1, <2>2, <2>4
  <1>3. QED
    BY <1>1, <1>2

(* A window is full.                                                       *)
LEMMA WindowIs ==
  ASSUME NEW a, Tokens(a), NEW x, Tokens(x), NEW r, Joined(r, a, x), Size(a, 2)
  PROVE  /\ Drops(x, r, 2) /\ 2 \in 1 .. Len(r) /\ 1 \in 1 .. Len(r)
         /\ r[1] = a[1] /\ r[2] = a[2]
  <1>1. Drops(x, r, 2)
    BY FrontDrops
  <1>2. \A i \in 1 .. Len(a) : i \in 1 .. Len(r) /\ r[i] = a[i]
    BY JoinedIs
  <1>3. 1 \in 1 .. Len(a) /\ 2 \in 1 .. Len(a)
    BY DEF Size
  <1>4. QED
    BY <1>1, <1>2, <1>3

(* The window moves one token further.                                     *)
LEMMA WindowMoves ==
  ASSUME NEW a, Tokens(a), NEW x, Tokens(x), NEW r, Joined(r, a, x), Size(a, 2),
         NEW t, Tokens(t), Size(t, 1), t[1] = a[2], NEW s, Joined(s, t, x)
  PROVE  Tokens(s) /\ Drops(s, r, 1)
  <1>1. Len(a) = 2 /\ Len(t) = 1
    BY DEF Size
  <1>2. Len(x) \in Nat /\ Len(r) = Len(a) + Len(x) /\ \A i \in 1 .. Len(a) : r[i] = a[i]
    BY JoinedIs
  <1>3. Tokens(s) /\ Len(s) = Len(t) + Len(x) /\ \A i \in 1 .. Len(t) : s[i] = t[i]
    BY JoinedIs
  <1>4. \A i \in 1 .. Len(s) : i > Len(t) => \E j \in 1 .. Len(x) : i = Len(t) + j /\ s[i] = x[j]
    BY JoinedIs
  <1>5. ASSUME NEW i \in 1 .. Len(s), NEW q \in 1 .. Len(r), q = i + 1 PROVE s[i] = r[q]
    <2>1. CASE i = 1
      <3>1. s[i] = a[2] /\ r[q] = a[2]
        BY <2>1, <1>1, <1>2, <1>3, <1>5
      <3>2. QED
        BY <3>1
    <2>2. CASE i > 1
      <3>1. PICK j \in 1 .. Len(x) : i = Len(t) + j /\ s[i] = x[j]
        BY <2>2, <1>1, <1>4
      <3>2. q = Len(a) + j
        <4>1. Len(x) \in Nat
          BY <1>2
        <4>2. i = 1 + j
          BY <3>1, <1>1
        <4>3. QED
          BY <4>1, <4>2, <1>1, <1>5
      <3>3. r[q] = x[j]
        BY <3>2, JoinedBehind
      <3>4. QED
        BY <3>1, <3>3
    <2>3. QED
      BY <2>1, <2>2
  <1>6. Sum(Len(r), Len(s), 1)
    BY <1>1, <1>2, <1>3 DEF Sum
  <1>7. QED
    BY <1>3, <1>5, <1>6 DEF Drops

(* The reader begins again with a header.                                  *)
LEMMA ReadingIs ==
  ASSUME Framing!FramingAssumption, NEW x, Tokens(x), NEW c, c = Framing!Reading(x)
  PROVE  /\ ReaderTypes(c) /\ c.pc = "header" /\ c.buf = <<>> /\ c.n = 0 /\ c.len = 0 /\ c.prefetch = x
         /\ Len(c.buf) = 0
  <1>1. MaxMade \in Nat
    BY DEF Framing!FramingAssumption
  <1>2. QED
    BY <1>1 DEF Framing!Reading, ReaderTypes, Tokens

(* A window is parsed: a media header, an init packet, or neither.         *)
LEMMA ParseKeeps ==
  ASSUME Framing!FramingAssumption, FramingInv, Framing!ParseHeader
  PROVE  FramingInv'
  <1>1. /\ client.pc = "header" /\ Len(client.buf) = 2
        /\ UNCHANGED <<ring, made, book, written, out, damaged, cut, lastLoss, cuts>>
    BY DEF Framing!ParseHeader, Framing!HeaderSize
  <1>2. PICK p \in Nat : Follows(client, Rem, p)
    BY DEF FramingInv
  <1>3. InOrder'
    BY <1>1 DEF FramingInv, InOrder, Framing!Handed
  <1>4. Framing!Handed' = Framing!Handed
    BY <1>1 DEF Framing!Handed
  <1>5. PICK r : r = Rem
    OBVIOUS
  <1>6. PICK s : s = client.prefetch \o ring
    OBVIOUS
  <1>7. /\ Tokens(r) /\ Tokens(s) /\ Drops(s, r, 2) /\ 2 \in 1 .. Len(r) /\ 1 \in 1 .. Len(r)
        /\ r[1] = client.buf[1] /\ r[2] = client.buf[2]
    <2>1. Tokens(client.buf) /\ Tokens(s) /\ Tokens(r) /\ Joined(r, client.buf, s)
      BY <1>5, <1>6, RemIs DEF FramingInv
    <2>2. Size(client.buf, 2)
      BY <1>1 DEF Size
    <2>3. QED
      BY <2>1, <2>2, WindowIs
  <1>8. PICK l \in Nat : l = lastLoss
    BY DEF FramingInv, FramingTypes
  <1>9. PICK m \in Nat : m = made
    BY DEF FramingInv, FramingTypes
  <1>10. PICK h : h = Framing!Handed
    OBVIOUS
  <1>11. PICK g : g = Framing!Handed \ damaged
    OBVIOUS
  <1>12. PICK max \in Nat : max = Framing!Longest
    BY LongestIs
  <1>13. /\ Lens \subseteq Nat \ {0} /\ Garbage \subseteq Nat
         /\ \A len \in Lens \cup Garbage : len <= max
    BY <1>12, LongestIs
  <1>14. /\ StreamOK(r, p, l, book, cut) /\ BookOK(book, written, m) /\ Lossless(cuts, l) /\ HandedOK(h, r, m)
         /\ DueOK(p, 0, l, book, g, cuts, max)
    BY <1>1, <1>2, <1>5, <1>8, <1>9, <1>10, <1>11, <1>12
       DEF FramingInv, FramingTypes, ReaderTypes, Follows, ReadOn
  <1>15. PICK o \in Nat : o = p + 2
    OBVIOUS
  <1>16. Sum(o, p, 2) /\ \A n : Behind(n, r) => Behind(n, s)
    <2>1. Sum(o, p, 2)
      BY <1>15 DEF Sum
    <2>2. QED
      BY <2>1, <1>7, <1>14, StreamDrops
  <1>17. HandedOK(h, s, m)
    BY <1>14, <1>16, HandedKept
  <1>18. ASSUME client'.buf = <<>>, client'.prefetch = client.prefetch PROVE Rem' = s
    BY <1>1, <1>6, <1>7, <1>18, ConcatEmptySeq DEF Rem, Tokens
  (* A media header. *)
  <1>19. CASE /\ client.buf[1][1] = "media" /\ client.buf[1][3] = 1
              /\ \E f \in Framing!Fields(client.buf[2]) :
                   client' = [client EXCEPT !.pc = "prefix", !.buf = <<>>, !.n = f.n, !.len = f.len]
    <2>1. PICK f \in Framing!Fields(client.buf[2]) :
            client' = [client EXCEPT !.pc = "prefix", !.buf = <<>>, !.n = f.n, !.len = f.len]
      BY <1>19
    <2>2. f \in Framing!Fields(r[2])
      BY <1>7
    <2>3. /\ FieldsOK(r[2], f.n, f.len, book)
          /\ f.n \in 0 .. m /\ f.len \in Nat /\ f.len \in Lens \cup Garbage
      BY <2>2, <1>7, <1>13, <1>14, FieldsAre DEF StreamOK
    <2>4. PICK n \in Nat : n = f.n
      BY <2>3
    <2>5. PICK len \in Nat : len = f.len
      BY <2>3
    <2>6. BusyOK(n, len, s, o, l, book, h, cuts, max) /\ DueOK(o, n, l, book, g, cuts, max)
      <3>1. FieldsOK(r[2], n, len, book) /\ len <= max
        BY <2>3, <2>4, <2>5, <1>13
      <3>2. r[1][1] = "media" /\ r[1][3] = 1
        BY <1>7, <1>19
      <3>3. QED
        BY <3>1, <3>2, <1>7, <1>13, <1>14, <1>16, HeaderRead, ZenonT(60)
    <2>7. /\ client'.pc = "prefix" /\ client'.buf = <<>> /\ client'.n = n /\ client'.len = len
          /\ client'.prefetch = client.prefetch /\ ReaderTypes(client)'
      <3>1. client' = [pc |-> "prefix", buf |-> <<>>, n |-> n, len |-> len, prefetch |-> client.prefetch]
        BY <2>1, <2>4, <2>5 DEF FramingInv, FramingTypes, ReaderTypes
      <3>2. n \in 0 .. MaxMade
        <4>1. m \in 1 .. MaxMade /\ MaxMade \in Nat /\ n \in 0 .. m
          BY <2>3, <2>4, <1>9 DEF FramingInv, FramingTypes, Framing!FramingAssumption
        <4>2. QED
          BY <4>1
      <3>3. <<>> \in Seq(Token) /\ client.prefetch \in Seq(Token) /\ len \in Lens \cup Garbage \cup {0}
        BY <2>3, <2>5 DEF FramingInv, FramingTypes, ReaderTypes
      <3>4. QED
        BY <3>1, <3>2, <3>3 DEF ReaderTypes
    <2>8. Len(client'.buf) <= Framing!Needed'
      BY <2>7 DEF Framing!Needed, Framing!HeaderSize
    <2>9. FramingTypes'
      BY <1>1, <2>7, <2>8 DEF FramingInv, FramingTypes, Tokens, Lossless
    <2>10. Rem' = s
      BY <2>7, <1>18
    <2>11. ReadOn(client, Rem, o)'
      BY <2>6, <2>7, <2>10, <1>1, <1>4, <1>8, <1>9, <1>10, <1>11, <1>12, <1>17 DEF ReadOn
    <2>12. QED
      BY <2>9, <2>10, <2>11, <1>1, <1>2, <1>3, <1>5, <1>7, <1>16, ReaderGoesOn
  (* An init packet: it is skipped. *)
  <1>20. CASE /\ client.buf[1][1] = "init" /\ client.buf[1][3] = 1
              /\ client' = Framing!Reading(client.prefetch)
    <2>1. /\ client'.pc = "header" /\ client'.buf = <<>> /\ client'.n = 0 /\ client'.len = 0
          /\ client'.prefetch = client.prefetch /\ ReaderTypes(client)' /\ Len(client'.buf) = 0
      <3>1. Tokens(client.prefetch)
        BY RemIs DEF FramingInv
      <3>2. QED
        BY <1>20, <3>1, ReadingIs DEF ReaderTypes
    <2>2. FramingTypes'
      BY <1>1, <2>1 DEF FramingInv, FramingTypes, Tokens, Lossless, Framing!Needed, Framing!HeaderSize
    <2>3. Rem' = s
      BY <2>1, <1>18
    <2>4. DueOK(o, 0, l, book, g, cuts, max)
      <3>1. r[1][1] = "init" /\ r[1][3] = 1
        BY <1>7, <1>20
      <3>2. 2 \in {1, 2} /\ (r[1][1] # "media" \/ r[1][3] # 1)
        BY <3>1
      <3>3. QED
        BY <3>1, <3>2, <1>7, <1>13, <1>14, <1>16, DueSkips
    <2>5. ReadOn(client, Rem, o)'
      BY <2>1, <2>3, <2>4, <1>1, <1>4, <1>8, <1>9, <1>10, <1>11, <1>12, <1>17 DEF ReadOn
    <2>6. QED
      BY <2>2, <2>3, <2>5, <1>1, <1>2, <1>3, <1>5, <1>7, <1>16, ReaderGoesOn
  (* Neither: one token further. *)
  <1>21. CASE /\ ~Framing!IsMagic(client.buf[1])
              /\ client' = [client EXCEPT !.buf = Tail(@)]
    <2>1. PICK t : t = Tail(client.buf)
      OBVIOUS
    <2>2. Tokens(t) /\ Size(t, 1) /\ t[1] = client.buf[2]
      <3>1. PICK a \in Seq(Token) : a = client.buf
        BY DEF FramingInv, FramingTypes, ReaderTypes
      <3>2. Len(a) = 2 /\ a # <<>>
        <4>1. Len(a) = 2
          BY <3>1, <1>1
        <4>2. 1 \in DOMAIN a
          BY <4>1
        <4>3. a # <<>>
          BY <4>2
        <4>4. QED
          BY <4>1, <4>3
      <3>3. /\ Tail(a) \in Seq(Token) /\ Len(Tail(a)) = 1
            /\ \A i \in 1 .. Len(Tail(a)) : Tail(a)[i] = a[i + 1]
        BY <3>2, HeadTailProperties
      <3>4. Tail(a)[1] = a[2]
        BY <3>3
      <3>5. QED
        BY <2>1, <3>1, <3>3, <3>4 DEF Tokens, Size
    <2>3. /\ client'.pc = "header" /\ client'.buf = t /\ client'.n = 0 /\ client'.len = client.len
          /\ client'.prefetch = client.prefetch /\ ReaderTypes(client)'
      <3>1. client' = [client EXCEPT !.buf = t] /\ t \in Seq(Token) /\ ReaderTypes(client)
        BY <2>1, <2>2, <1>21 DEF FramingInv, FramingTypes, Tokens
      <3>2. client.n = 0
        BY <1>1, <3>1 DEF ReaderTypes
      <3>3. client' = [pc |-> "header", buf |-> t, n |-> 0, len |-> client.len, prefetch |-> client.prefetch]
        BY <3>1, <3>2, <1>1 DEF ReaderTypes
      <3>4. /\ client.len \in Nat /\ client.len \in Lens \cup Garbage \cup {0} /\ client.prefetch \in Seq(Token)
            /\ 0 \in 0 .. MaxMade
        BY <3>1, <3>2 DEF ReaderTypes
      <3>5. ReaderTypes(client)'
        BY <3>1, <3>3, <3>4 DEF ReaderTypes
      <3>6. QED
        BY <3>3, <3>5
    <2>4. Len(client'.buf) <= Framing!Needed'
      <3>1. Framing!Needed' = 2
        BY <2>3 DEF Framing!Needed, Framing!HeaderSize
      <3>2. Len(client'.buf) = 1
        BY <2>2, <2>3 DEF Size
      <3>3. QED
        BY <3>1, <3>2
    <2>5. FramingTypes'
      BY <1>1, <2>3, <2>4 DEF FramingInv, FramingTypes, Tokens, Lossless
    <2>6. PICK x : x = Rem'
      OBVIOUS
    <2>7. Tokens(x) /\ Drops(x, r, 1)
      <3>1. Joined(x, t, s)
        BY <2>3, <2>6, <1>1, <1>6 DEF Rem, Joined
      <3>2. Tokens(client.buf) /\ Joined(r, client.buf, s)
        BY <1>5, <1>6, RemIs DEF FramingInv
      <3>3. Size(client.buf, 2)
        BY <1>1 DEF Size
      <3>4. QED
        BY <2>2, <3>1, <3>2, <3>3, <1>7, WindowMoves
    <2>8. PICK y \in Nat : y = p + 1
      OBVIOUS
    <2>9. Sum(y, p, 1) /\ \A n : Behind(n, r) => Behind(n, x)
      <3>1. Sum(y, p, 1)
        BY <2>8 DEF Sum
      <3>2. QED
        BY <2>7, <3>1, <1>7, <1>14, StreamDrops
    <2>10. HandedOK(h, x, m)
      BY <2>9, <1>14, HandedKept
    <2>11. DueOK(y, 0, l, book, g, cuts, max)
      <3>1. r[1][1] # "media" \/ r[1][3] # 1
        BY <1>7, <1>21, SMTT(30) DEF Framing!IsMagic
      <3>2. 1 \in {1, 2} /\ 1 # 2
        OBVIOUS
      <3>3. QED
        BY <3>1, <3>2, <2>9, <1>7, <1>13, <1>14, DueSkips
    <2>12. ReadOn(client, Rem, y)'
      BY <2>3, <2>6, <2>10, <2>11, <1>1, <1>4, <1>8, <1>9, <1>10, <1>11, <1>12 DEF ReadOn
    <2>13. QED
      BY <2>5, <2>6, <2>7, <2>9, <2>12, <1>1, <1>2, <1>3, <1>5, ReaderGoesOn
  <1>22. QED
    BY <1>19, <1>20, <1>21 DEF Framing!ParseHeader

(* Concatenation may be grouped either way.                                *)
LEMMA Associates ==
  ASSUME NEW a \in Seq(Token), NEW b \in Seq(Token), NEW c \in Seq(Token)
  PROVE  (a \o b) \o c = a \o (b \o c)
  BY ConcatAssociative, SMTT(30)

(* The first token of b goes to the end of a.                              *)
Has(b) == b # <<>>
Moved(a, b, c, x, y) ==
  /\ x = Append(a, Head(b)) /\ y = Tail(b) /\ Len(x) = Len(a) + 1 /\ Len(y) = Len(b) - 1
  /\ x \o (y \o c) = a \o (b \o c)

LEMMA Moves ==
  ASSUME NEW a \in Seq(Token), NEW b \in Seq(Token), NEW c \in Seq(Token), Has(b)
  PROVE  \E x, y \in Seq(Token) : Moved(a, b, c, x, y)
  <1>0. b # <<>>
    BY DEF Has
  <1>1. Head(b) \in Token /\ Tail(b) \in Seq(Token) /\ Len(Tail(b)) = Len(b) - 1
    BY <1>0, HeadTailProperties
  <1>2. PICK e \in Token : e = Head(b)
    BY <1>1
  <1>3. PICK t \in Seq(Token) : t = Tail(b)
    BY <1>1
  <1>4. <<e>> \in Seq(Token)
    OBVIOUS
  <1>5. b = <<e>> \o t
    <2>1. Len(b) \in Nat \ {0}
      BY <1>0, EmptySeq
    <2>2. b = SubSeq(b, 1, Len(b)) /\ t = SubSeq(b, 2, Len(b))
      BY <1>0, <1>3, SubSeqFull, TailIsSubSeq
    <2>3. SubSeq(b, 1, Len(b)) = <<b[1]>> \o SubSeq(b, 1 + 1, Len(b))
      <3>1. 1 \in 1 .. Len(b) /\ Len(b) \in 1 .. Len(b)
        BY <2>1
      <3>2. QED
        BY <3>1, SubSeqRecursiveFirst
    <2>4. 1 + 1 = 2 /\ b[1] = e
      BY <1>2
    <2>5. QED
      BY <2>2, <2>3, <2>4
  <1>6. Append(a, e) = a \o <<e>> /\ Append(a, e) \in Seq(Token) /\ Len(Append(a, e)) = Len(a) + 1
    BY AppendIsConcat, AppendProperties
  <1>7. PICK d \in Seq(Token) : d = <<e>>
    BY <1>4
  <1>8. t \o c \in Seq(Token)
    BY ConcatProperties
  <1>9. \A u \in Seq(Token) : (a \o d) \o u = a \o (d \o u)
    BY Associates, ZenonT(40)
  <1>10. (d \o t) \o c = d \o (t \o c)
    BY Associates, ZenonT(40)
  <1>11. Append(a, e) \o (t \o c) = a \o (b \o c)
    BY <1>5, <1>6, <1>7, <1>8, <1>9, <1>10
  <1>12. QED
    BY <1>1, <1>2, <1>3, <1>6, <1>11 DEF Moved

(* The reader gets one token: the rest of the stream is the same.          *)
LEMMA ReadsKeeps ==
  ASSUME Framing!FramingAssumption, FramingInv, Framing!ClientReads
  PROVE  FramingInv'
  <1>1. /\ Len(client.buf) < Framing!Needed
        /\ UNCHANGED <<made, book, written, out, damaged, cut, lastLoss, cuts>>
    BY DEF Framing!ClientReads
  <1>2. PICK p \in Nat : Follows(client, Rem, p)
    BY DEF FramingInv
  <1>3. InOrder' /\ Framing!Handed' = Framing!Handed
    BY <1>1 DEF FramingInv, InOrder, Framing!Handed
  <1>4. PICK a \in Seq(Token) : a = client.buf
    BY DEF FramingInv, FramingTypes, ReaderTypes
  <1>5. PICK b \in Seq(Token) : b = client.prefetch
    BY DEF FramingInv, FramingTypes, ReaderTypes
  <1>6. PICK c \in Seq(Token) : c = ring
    BY SMTT(30) DEF FramingInv, FramingTypes, Tokens
  <1>7. /\ client.pc \in {"header", "prefix", "rest"} /\ client.n \in 0 .. MaxMade /\ client.len \in Nat
        /\ client.len \in Lens \cup Garbage \cup {0} /\ (client.pc = "header" => client.n = 0)
    BY SMTT(30) DEF FramingInv, FramingTypes, ReaderTypes
  <1>8. \E x, y, z \in Seq(Token) :
          /\ client' = [client EXCEPT !.buf = x, !.prefetch = y] /\ ring' = z
          /\ x \o (y \o z) = a \o (b \o c) /\ Len(x) = Len(a) + 1 /\ Len(z) <= Len(c)
    <2>1. CASE /\ client.prefetch # <<>>
               /\ client' = [client EXCEPT !.buf = Append(@, Head(client.prefetch)), !.prefetch = Tail(@)]
               /\ UNCHANGED ring
      <3>1. Has(b)
        BY <2>1, <1>5 DEF Has
      <3>2. PICK x, y \in Seq(Token) : Moved(a, b, c, x, y)
        BY <3>1, Moves
      <3>3. client' = [client EXCEPT !.buf = x, !.prefetch = y] /\ ring' = c
        BY <2>1, <3>2, <1>4, <1>5, <1>6 DEF Moved
      <3>4. Len(c) <= Len(c) /\ x \o (y \o c) = a \o (b \o c) /\ Len(x) = Len(a) + 1
        BY <3>2, SMTT(30) DEF Moved
      <3>5. QED
        BY <3>3, <3>4
    <2>2. CASE /\ client.prefetch = <<>> /\ ring # <<>>
               /\ client' = [client EXCEPT !.buf = Append(@, Head(ring))] /\ ring' = Tail(ring)
      <3>1. Has(c)
        BY <2>2, <1>6 DEF Has
      <3>2. PICK x, z \in Seq(Token) : Moved(a, c, b, x, z)
        BY <3>1, Moves
      <3>3. b = <<>> /\ z \o b = z /\ c \o b = c /\ b \o z = z /\ b \o c = c
        BY <2>2, <1>5, ConcatEmptySeq
      <3>4. client' = [client EXCEPT !.buf = x, !.prefetch = b] /\ ring' = z
        BY <2>2, <3>2, <1>4, <1>5, <1>6 DEF FramingInv, FramingTypes, ReaderTypes, Moved
      <3>5. x \o (b \o z) = a \o (b \o c)
        BY <3>2, <3>3 DEF Moved
      <3>6. Len(z) <= Len(c) /\ Len(x) = Len(a) + 1
        BY <3>2 DEF Moved
      <3>7. QED
        BY <3>4, <3>5, <3>6
    <2>3. QED
      BY <2>1, <2>2 DEF Framing!ClientReads
  <1>9. PICK x, y, z \in Seq(Token) :
          /\ client' = [client EXCEPT !.buf = x, !.prefetch = y] /\ ring' = z
          /\ x \o (y \o z) = a \o (b \o c) /\ Len(x) = Len(a) + 1 /\ Len(z) <= Len(c)
    BY <1>8
  <1>10. client' = [pc |-> client.pc, buf |-> x, n |-> client.n, len |-> client.len, prefetch |-> y]
    BY <1>9 DEF FramingInv, FramingTypes, ReaderTypes
  <1>11. ReaderTypes(client)'
    BY <1>7, <1>10 DEF ReaderTypes
  <1>12. client'.buf = x /\ client'.prefetch = y /\ client'.pc = client.pc /\ client'.n = client.n
             /\ client'.len = client.len
    BY <1>10
  <1>13. Framing!Needed' = Framing!Needed /\ Framing!Needed \in Nat
    BY <1>7, <1>12 DEF Framing!Needed, Framing!HeaderSize
  <1>14. Len(client'.buf) <= Framing!Needed'
    <2>1. Len(a) < Framing!Needed /\ Len(client'.buf) = Len(a) + 1
      BY <1>1, <1>4, <1>9, <1>12
    <2>2. QED
      BY <2>1, <1>13
  <1>15. FramingTypes'
    <2>1. Len(z) \in Nat /\ Len(c) \in Nat
      OBVIOUS
    <2>2. Len(z) <= Len(c) /\ ring' = z
      BY <1>9
    <2>3. Len(c) <= RingSize /\ lastLoss + Len(c) <= written /\ lastLoss \in Nat /\ written \in Nat
      BY <1>6 DEF FramingInv, FramingTypes
    <2>4. RingSize \in Nat
      BY DEF Framing!FramingAssumption
    <2>5. Len(ring') <= RingSize /\ lastLoss + Len(ring') <= written
      BY <2>1, <2>2, <2>3, <2>4
    <2>6. QED
      BY <2>2, <2>5, <1>1, <1>11, <1>14 DEF FramingInv, FramingTypes, Tokens, Lossless
  <1>16. Rem' = Rem
    BY <1>4, <1>5, <1>6, <1>9, <1>12 DEF Rem
  <1>17. Follows(client, Rem, p)'
    BY <1>1, <1>2, <1>3, <1>12, <1>16 DEF Follows, ReadOn
  <1>18. QED
    BY <1>3, <1>15, <1>17 DEF FramingInv

(* The start of a payload is checked: what goes back is still unread.      *)
LEMMA CheckKeeps ==
  ASSUME Framing!FramingAssumption, FramingInv, Framing!CheckPrefix
  PROVE  FramingInv'
  <1>1. /\ client.pc = "prefix" /\ Len(client.buf) = Framing!Needed
        /\ UNCHANGED <<ring, made, book, written, out, damaged, cut, lastLoss, cuts>>
    BY DEF Framing!CheckPrefix
  <1>2. PICK p \in Nat : Follows(client, Rem, p)
    BY DEF FramingInv
  <1>3. InOrder' /\ Framing!Handed' = Framing!Handed
    BY <1>1 DEF FramingInv, InOrder, Framing!Handed
  (* What was read goes back. *)
  <1>4. CASE /\ client.buf # <<>> /\ Framing!IsMagic(client.buf[1])
             /\ client' = Framing!Reading(client.buf \o client.prefetch)
    <2>1. PICK x : x = client.buf \o client.prefetch
      OBVIOUS
    <2>2. Tokens(x) /\ Joined(Rem, x, ring)
      BY <2>1, RemIs DEF FramingInv
    <2>3. /\ client'.pc = "header" /\ client'.buf = <<>> /\ client'.n = 0 /\ client'.prefetch = x
          /\ ReaderTypes(client)' /\ Len(client'.buf) = 0
      BY <2>1, <2>2, <1>4, ReadingIs DEF ReaderTypes
    <2>4. FramingTypes'
      BY <1>1, <2>3 DEF FramingInv, FramingTypes, Tokens, Lossless, Framing!Needed, Framing!HeaderSize
    <2>5. Rem' = Rem
      <3>1. Rem = x \o ring
        BY <2>2 DEF Joined
      <3>2. x \o ring \in Seq(Token)
        BY <3>1, RemIs DEF FramingInv, Tokens
      <3>3. <<>> \o (x \o ring) = x \o ring
        BY <3>2, ConcatEmptySeq
      <3>4. Rem' = <<>> \o (x \o ring)
        BY <2>3, <1>1 DEF Rem
      <3>5. QED
        BY <3>1, <3>3, <3>4
    <2>6. 1 \in 1 .. Len(Rem) /\ Rem[1] = client.buf[1]
      <3>1. PICK a \in Seq(Token) : a = client.buf
        BY DEF FramingInv, FramingTypes, ReaderTypes
      <3>2. 1 \in 1 .. Len(a)
        <4>1. a # <<>>
          BY <3>1, <1>4
        <4>2. Len(a) \in Nat \ {0}
          BY <4>1, EmptySeq
        <4>3. QED
          BY <4>2
      <3>3. \A i \in 1 .. Len(a) : i \in 1 .. Len(Rem) /\ Rem[i] = a[i]
        <4>1. Tokens(a) /\ Tokens(client.prefetch \o ring) /\ Joined(Rem, a, client.prefetch \o ring)
          BY <3>1, RemIs DEF FramingInv
        <4>2. QED
          BY <4>1, JoinedIs
      <3>4. QED
        BY <3>1, <3>2, <3>3
    <2>7. Rem[1][1] # "data"
      BY <2>6, <1>4 DEF Framing!IsMagic
    <2>8. DueOK(p, 0, lastLoss, book, Framing!Handed \ damaged, cuts, Framing!Longest)
      <3>1. /\ StreamOK(Rem, p, lastLoss, book, cut) /\ BookOK(book, written, made)
            /\ DueOK(p, client.n, lastLoss, book, Framing!Handed \ damaged, cuts, Framing!Longest)
        BY <1>2 DEF Follows, ReadOn
      <3>2. Lossless(cuts, lastLoss) /\ lastLoss \in Nat /\ made \in Nat
        BY DEF FramingInv, FramingTypes
      <3>3. Lens \subseteq Nat \ {0} /\ Framing!Longest \in Nat
        BY LongestIs
      <3>4. QED
        BY <2>6, <2>7, <3>1, <3>2, <3>3, DueGoesBack
    <2>9. Follows(client, Rem, p)'
      BY <2>3, <2>5, <2>8, <1>1, <1>2, <1>3 DEF Follows, ReadOn
    <2>10. QED
      BY <2>4, <2>9, <1>3 DEF FramingInv
  (* The payload goes on. *)
  <1>5. CASE client' = [client EXCEPT !.pc = "rest"]
    <2>1. /\ client'.pc = "rest" /\ client'.buf = client.buf /\ client'.n = client.n /\ client'.len = client.len
          /\ client'.prefetch = client.prefetch /\ ReaderTypes(client)'
      <3>1. client' = [pc |-> "rest", buf |-> client.buf, n |-> client.n, len |-> client.len, prefetch |-> client.prefetch]
        BY <1>5 DEF FramingInv, FramingTypes, ReaderTypes
      <3>2. /\ client.buf \in Seq(Token) /\ client.n \in 0 .. MaxMade /\ client.len \in Nat
               /\ client.prefetch \in Seq(Token)
            /\ client.len \in Lens \cup Garbage \cup {0}
        BY DEF FramingInv, FramingTypes, ReaderTypes
      <3>3. ReaderTypes(client)'
        BY <3>1, <3>2 DEF ReaderTypes
      <3>4. QED
        BY <3>1, <3>3
    <2>2. Len(client'.buf) <= Framing!Needed'
      <3>1. Framing!Needed' = client.len /\ Framing!Needed = (IF client.len < 2 THEN client.len ELSE 2)
                /\ client.len \in Nat
        BY <2>1, <1>1 DEF Framing!Needed, Framing!HeaderSize, FramingInv, FramingTypes, ReaderTypes
      <3>2. Framing!Needed <= Framing!Needed'
        BY <3>1
      <3>3. QED
        BY <2>1, <3>2, <1>1
    <2>3. FramingTypes'
      BY <2>1, <2>2, <1>1 DEF FramingInv, FramingTypes, Tokens, Lossless
    <2>4. Rem' = Rem
      BY <2>1, <1>1 DEF Rem
    <2>5. Follows(client, Rem, p)'
      BY <2>1, <2>4, <1>1, <1>2, <1>3 DEF Follows, ReadOn
    <2>6. QED
      BY <2>3, <2>5, <1>3 DEF FramingInv
  <1>6. QED
    BY <1>4, <1>5 DEF Framing!CheckPrefix

(* A payload is complete: in order, and damaged only if the packet was cut. *)
LEMMA InOrderGrows ==
  ASSUME NEW a \in Seq(Nat), NEW n \in Nat, \A i, j \in 1 .. Len(a) : i < j => a[i] < a[j],
         \A i \in 1 .. Len(a) : a[i] < n, NEW z, z = Append(a, n)
  PROVE  /\ z \in Seq(Nat) /\ \A i, j \in 1 .. Len(z) : i < j => z[i] < z[j]
         /\ {z[i] : i \in 1 .. Len(z)} = {a[i] : i \in 1 .. Len(a)} \cup {n}
  <1>1. /\ z \in Seq(Nat) /\ Len(z) = Len(a) + 1 /\ Len(a) \in Nat
        /\ \A i \in 1 .. Len(a) : z[i] = a[i] /\ z[Len(a) + 1] = n
    BY AppendProperties
  <1>2. z[Len(a) + 1] = n
    BY AppendProperties
  <1>3. ASSUME NEW i \in 1 .. Len(z), NEW j \in 1 .. Len(z), i < j PROVE z[i] < z[j]
    <2>1. i \in 1 .. Len(a)
      BY <1>1, <1>3
    <2>2. z[i] = a[i]
      BY <2>1, <1>1
    <2>3. CASE j \in 1 .. Len(a)
      BY <2>1, <2>2, <2>3, <1>1, <1>3
    <2>4. CASE j = Len(a) + 1
      BY <2>1, <2>2, <2>4, <1>2
    <2>5. QED
      BY <2>3, <2>4, <1>1
  <1>4. \A i \in 1 .. Len(z) : i \in 1 .. Len(a) \/ i = Len(a) + 1
    BY <1>1
  <1>5. Len(a) + 1 \in 1 .. Len(z) /\ \A i \in 1 .. Len(a) : i \in 1 .. Len(z)
    BY <1>1
  <1>6. {z[i] : i \in 1 .. Len(z)} = {a[i] : i \in 1 .. Len(a)} \cup {n}
    BY <1>1, <1>2, <1>4, <1>5
  <1>7. QED
    BY <1>1, <1>3, <1>6

(* The payload goes to the player, or is refused by the cipher.            *)
LEMMA HandOnKeeps ==
  ASSUME Framing!FramingAssumption, FramingInv, Framing!HandOn
  PROVE  FramingInv'
  <1>1. /\ client.pc = "rest" /\ Len(client.buf) = client.len /\ client' = Framing!Reading(client.prefetch)
        /\ UNCHANGED <<ring, made, book, written, cut, lastLoss, cuts>>
    BY DEF Framing!HandOn
  <1>2. PICK p \in Nat : Follows(client, Rem, p)
    BY DEF FramingInv
  <1>3. PICK r : r = Rem
    OBVIOUS
  <1>4. PICK s : s = client.prefetch \o ring
    OBVIOUS
  <1>5. PICK a \in Seq(Token) : a = client.buf
    BY DEF FramingInv, FramingTypes, ReaderTypes
  <1>6. PICK n \in Nat : n = client.n
    BY DEF FramingInv, FramingTypes, ReaderTypes
  <1>7. PICK len \in Nat : len = client.len
    BY DEF FramingInv, FramingTypes, ReaderTypes
  <1>8. PICK l \in Nat : l = lastLoss
    BY DEF FramingInv, FramingTypes
  <1>9. PICK m \in Nat : m = made
    BY DEF FramingInv, FramingTypes
  <1>10. PICK h : h = Framing!Handed
    OBVIOUS
  <1>11. PICK g : g = h \ damaged
    OBVIOUS
  <1>12. PICK max \in Nat : max = Framing!Longest
    BY LongestIs
  <1>13. Lens \subseteq Nat \ {0}
    BY LongestIs
  <1>14. /\ StreamOK(r, p, l, book, cut) /\ BookOK(book, written, m) /\ Lossless(cuts, l) /\ HandedOK(h, r, m)
         /\ DueOK(p, n, l, book, g, cuts, max) /\ BusyOK(n, len, r, p, l, book, h, cuts, max)
    BY <1>1, <1>2, <1>3, <1>6, <1>7, <1>8, <1>9, <1>10, <1>11, <1>12
       DEF FramingInv, FramingTypes, Follows, ReadOn
  <1>15. Tokens(a) /\ Tokens(s) /\ Tokens(r) /\ Joined(r, a, s) /\ Size(a, len)
    <2>1. Tokens(s) /\ Tokens(r) /\ Joined(r, a, s)
      BY <1>3, <1>4, <1>5, RemIs DEF FramingInv
    <2>2. Tokens(a) /\ Size(a, len)
      BY <1>1, <1>5, <1>7 DEF Tokens, Size
    <2>3. QED
      BY <2>1, <2>2
  <1>16. Drops(s, r, len)
    BY <1>15, FrontDrops
  <1>17. \A q \in 1 .. len : q \in 1 .. Len(r) /\ r[q] = a[q]
    <2>1. \A q \in 1 .. Len(a) : q \in 1 .. Len(r) /\ r[q] = a[q]
      BY <1>15, JoinedIs
    <2>2. QED
      BY <2>1, <1>15 DEF Size
  <1>18. PICK o \in Nat : o = p + len
    OBVIOUS
  <1>19. Sum(o, p, len) /\ \A x : Behind(x, r) => Behind(x, s)
    <2>1. Sum(o, p, len)
      BY <1>18 DEF Sum
    <2>2. QED
      BY <2>1, <1>14, <1>15, <1>16, StreamDrops
  <1>20. HandedOK(h, s, m)
    BY <1>14, <1>19, HandedKept
  <1>21. PICK pay : pay = Framing!Payload(n, len)
    OBVIOUS
  <1>22. a = pay <=> \A q \in 1 .. len : a[q] = <<"data", n, q>>
    BY <1>15, <1>21 DEF Framing!Payload, Size, Tokens
  <1>23. /\ client'.pc = "header" /\ client'.buf = <<>> /\ client'.n = 0 /\ client'.prefetch = client.prefetch
         /\ ReaderTypes(client)' /\ Len(client'.buf) = 0
    <2>1. Tokens(client.prefetch)
      BY RemIs DEF FramingInv
    <2>2. QED
      BY <2>1, <1>1, ReadingIs DEF ReaderTypes
  <1>24. Rem' = s
    BY <1>1, <1>4, <1>15, <1>23, ConcatEmptySeq DEF Rem, Tokens
  <1>25. ASSUME out' \in Seq(Nat) PROVE FramingTypes'
    BY <1>1, <1>23, <1>25 DEF FramingInv, FramingTypes, Tokens, Lossless, Framing!Needed, Framing!HeaderSize
  <1>26. h = {out[i] : i \in 1 .. Len(out)} /\ out \in Seq(Nat)
    BY <1>10 DEF FramingInv, FramingTypes, Framing!Handed
  (* It is handed on. *)
  <1>27. CASE Framing!Accepted(client) /\ client.n # 0
    <2>1. /\ out' = Append(out, n)
          /\ damaged' = IF a = pay THEN damaged ELSE damaged \cup {n}
      BY <1>1, <1>5, <1>6, <1>7, <1>21, <1>27 DEF Framing!HandOn
    <2>2. PICK b \in book : b.n = n /\ b.len = len
      BY <1>6, <1>14, <1>27 DEF BusyOK, InHand
    <2>3. len # 0 /\ n \in 1 .. m
      BY <2>2, <1>13, <1>14, BookIs
    <2>4. a[1] = <<"data", n, 1>> /\ 1 \in 1 .. len
      BY <2>3, <1>5, <1>6, <1>7, <1>27 DEF Framing!Accepted
    <2>5. (\A x \in h : x < n) /\ Behind(n, r)
      BY <2>3, <1>14 DEF BusyOK, InHand
    <2>6. /\ out' \in Seq(Nat) /\ \A i, j \in 1 .. Len(out') : i < j => out'[i] < out'[j]
          /\ Framing!Handed' = h \cup {n}
      <3>1. \A i, j \in 1 .. Len(out) : i < j => out[i] < out[j]
        BY DEF FramingInv, InOrder
      <3>2. \A i \in 1 .. Len(out) : out[i] < n
        BY <2>5, <1>26
      <3>3. /\ out' \in Seq(Nat) /\ \A i, j \in 1 .. Len(out') : i < j => out'[i] < out'[j]
            /\ {out'[i] : i \in 1 .. Len(out')} = h \cup {n}
        BY <2>1, <3>1, <3>2, <1>26, InOrderGrows
      <3>4. DOMAIN out' = 1 .. Len(out')
        BY <3>3
      <3>5. QED
        BY <3>3, <3>4 DEF Framing!Handed
    <2>7. a # pay => n \in cut
      <3>1. SUFFICES ASSUME n \notin cut PROVE a = pay
        OBVIOUS
      <3>2. 1 \in 1 .. Len(r) /\ OpensWith(r, n) /\ n # 0
        BY <2>3, <2>4, <1>17 DEF OpensWith
      <3>3. Whole(r, n, len)
        BY <3>1, <3>2, <1>13, <1>14, <1>15, PayloadWhole
      <3>4. QED
        BY <3>3, <1>17, <1>22 DEF Whole
    <2>8. InOrder'
      <3>1. damaged \subseteq h /\ damaged \subseteq cut
        BY <1>10 DEF FramingInv, InOrder
      <3>2. damaged' \subseteq (h \cup {n}) \cap cut'
        BY <2>1, <2>7, <3>1, <1>1
      <3>3. QED
        BY <2>6, <3>2 DEF InOrder
    <2>9. PICK G : G = Framing!Handed' \ damaged'
      OBVIOUS
    <2>10. g \subseteq G /\ (a = pay => n \in G)
      <3>1. n \notin h /\ damaged \subseteq h
        BY <2>5, <1>10 DEF FramingInv, InOrder
      <3>2. QED
        BY <2>1, <2>6, <2>9, <3>1, <1>11
    <2>11. DueOK(o, 0, l, book, G, cuts, max)
      <3>1. n # 0 /\ Whole(r, n, len) => n \in G
        BY <2>10, <1>17, <1>22 DEF Whole
      <3>2. QED
        BY <2>10, <3>1, <1>13, <1>14, <1>19, DuePassed
    <2>12. HandedOK(Framing!Handed', s, m)
      BY <2>3, <2>5, <2>6, <1>19, <1>20 DEF HandedOK
    <2>13. ReadOn(client, Rem, o)'
      BY <2>9, <2>11, <2>12, <1>1, <1>8, <1>9, <1>12, <1>23, <1>24 DEF ReadOn
    <2>14. QED
      BY <2>6, <2>8, <2>13, <1>1, <1>2, <1>3, <1>15, <1>16, <1>19, <1>24, <1>25, ReaderGoesOn
  (* It is none of the stream's. *)
  <1>28. CASE ~(Framing!Accepted(client) /\ client.n # 0)
    <2>1. UNCHANGED <<out, damaged>>
      BY <1>28 DEF Framing!HandOn
    <2>2. InOrder' /\ Framing!Handed' = h
      BY <2>1, <1>1, <1>10 DEF FramingInv, InOrder, Framing!Handed
    <2>3. DueOK(o, 0, l, book, g, cuts, max)
      <3>1. ~(n # 0 /\ Whole(r, n, len))
        <4>1. SUFFICES ASSUME n # 0, Whole(r, n, len) PROVE FALSE
          OBVIOUS
        <4>2. len = 0 \/ a[1] = <<"data", n, 1>>
          BY <4>1, <1>17 DEF Whole
        <4>3. QED
          BY <4>1, <4>2, <1>5, <1>6, <1>7, <1>28 DEF Framing!Accepted
      <3>2. g \subseteq g
        OBVIOUS
      <3>3. QED
        BY <3>1, <3>2, <1>13, <1>14, <1>19, DuePassed
    <2>4. ReadOn(client, Rem, o)'
      BY <2>1, <2>2, <2>3, <1>1, <1>8, <1>9, <1>11, <1>12, <1>20, <1>23, <1>24 DEF ReadOn
    <2>5. out' \in Seq(Nat)
      BY <2>1, <1>26
    <2>6. QED
      BY <2>2, <2>4, <2>5, <1>1, <1>2, <1>3, <1>15, <1>16, <1>19, <1>24, <1>25, ReaderGoesOn
  <1>29. QED
    BY <1>27, <1>28

(* What the device puts behind its ring is behind all of the stream.       *)
LEMMA RingGrows ==
  ASSUME NEW a, Tokens(a), NEW b, Tokens(b), NEW c, Tokens(c), NEW q, Tokens(q),
         NEW r, r = a \o (b \o c), NEW s, s = a \o (b \o (c \o q))
  PROVE  Joined(s, r, q)
  <1>1. a \in Seq(Token) /\ b \in Seq(Token) /\ c \in Seq(Token) /\ q \in Seq(Token)
    BY DEF Tokens
  <1>2. PICK d \in Seq(Token) : d = b \o c
    BY <1>1, ConcatProperties
  <1>3. (b \o c) \o q = b \o (c \o q)
    BY <1>1, Associates, ZenonT(40)
  <1>4. (a \o d) \o q = a \o (d \o q)
    BY <1>1, Associates, ZenonT(40)
  <1>5. QED
    BY <1>2, <1>3, <1>4 DEF Joined

(* The device makes a packet, and sends or drops it.                       *)
LEMMA SendsKeeps ==
  ASSUME Framing!FramingAssumption, FramingInv, Framing!DeviceSends
  PROVE  FramingInv'
  <1>1. made < MaxMade /\ made' = made + 1 /\ UNCHANGED <<client, out, damaged, cut, lastLoss, cuts>>
    BY DEF Framing!DeviceSends
  <1>2. PICK p \in Nat : Follows(client, Rem, p)
    BY DEF FramingInv
  <1>3. InOrder' /\ Framing!Handed' = Framing!Handed
    BY <1>1 DEF FramingInv, InOrder, Framing!Handed
  <1>4. PICK m \in Nat : m = made
    BY DEF FramingInv, FramingTypes
  <1>5. PICK w \in Nat : w = written
    BY DEF FramingInv, FramingTypes
  <1>6. PICK l \in Nat : l = lastLoss
    BY DEF FramingInv, FramingTypes
  <1>7. PICK r : r = Rem
    OBVIOUS
  <1>8. PICK n \in Nat : n = client.n
    BY DEF FramingInv, FramingTypes, ReaderTypes
  <1>9. PICK len \in Nat : len = client.len
    BY DEF FramingInv, FramingTypes, ReaderTypes
  <1>10. PICK h : h = Framing!Handed
    OBVIOUS
  <1>11. PICK g : g = h \ damaged
    OBVIOUS
  <1>12. PICK max \in Nat : max = Framing!Longest
    BY LongestIs
  <1>13. Lens \subseteq Nat \ {0}
    BY LongestIs
  <1>14. /\ Tokens(r) /\ Sum(w, p, Len(r)) /\ StreamOK(r, p, l, book, cut) /\ BookOK(book, w, m)
            /\ HandedOK(h, r, m)
         /\ DueOK(p, n, l, book, g, cuts, max)
         /\ (client.pc # "header" => BusyOK(n, len, r, p, l, book, h, cuts, max))
    BY <1>2, <1>4, <1>5, <1>6, <1>7, <1>8, <1>9, <1>10, <1>11, <1>12, RemIs DEF FramingInv, Follows, ReadOn
  <1>15. m + 1 \in Nat /\ m <= m + 1 /\ m + 1 \in 1 .. MaxMade
    BY <1>1, <1>4 DEF Framing!FramingAssumption
  <1>16. Framing!Needed' = Framing!Needed
    BY <1>1 DEF Framing!Needed
  (* The packet fits. *)
  <1>17. ASSUME NEW size0 \in Lens, NEW q, Packet(q, m + 1, size0), Len(ring) + Len(q) <= RingSize,
                ring' = ring \o q, written' = written + Len(q),
                NEW b0, b0 = [n |-> m + 1, start |-> w, len |-> size0], Union(book', book, {b0})
         PROVE  FramingInv'
    <2>1. PICK k \in Nat : k = size0 /\ k >= 1
      BY <1>13
    <2>2. b0.n = m + 1 /\ b0.start = w /\ b0.len = k
      BY <2>1, <1>17
    <2>3. Packet(q, m + 1, k)
      BY <2>1, <1>17
    <2>4. Tokens(q) /\ Len(q) = k + 2
      BY <2>3, <1>15, PacketIs
    <2>5. PICK v \in Nat : v = w + k + 2
      OBVIOUS
    <2>6. Sum(v, w, k + 2) /\ written' = v
      BY <2>4, <2>5, <1>5, <1>17 DEF Sum
    <2>7. PICK s : s = Rem'
      OBVIOUS
    <2>8. Joined(s, r, q)
      <3>1. PICK a : a = client.buf
        OBVIOUS
      <3>2. PICK b : b = client.prefetch
        OBVIOUS
      <3>3. PICK c : c = ring
        OBVIOUS
      <3>4. Tokens(a) /\ Tokens(b) /\ Tokens(c)
        BY <3>1, <3>2, <3>3, RemIs DEF FramingInv
      <3>5. r = a \o (b \o c) /\ s = a \o (b \o (c \o q))
        BY <2>7, <3>1, <3>2, <3>3, <1>1, <1>7, <1>17 DEF Rem
      <3>6. QED
        BY <2>4, <3>4, <3>5, RingGrows
    <2>9. Tokens(s) /\ Extends(s, r, b0)
      BY <2>2, <2>3, <2>8, <1>14, <1>15, PacketExtends
    <2>10. PICK B : B = book'
      OBVIOUS
    <2>11. Union(B, book, {b0})
      BY <2>10, <1>17
    <2>12. /\ StreamOK(s, p, l, B, cut) /\ BookOK(B, v, m + 1)
           /\ \A x \in 1 .. m : Behind(x, r) => Behind(x, s)
      <3>1. Lens \subseteq Nat /\ k \in Lens
        BY <2>1, <1>13
      <3>2. QED
        BY <2>1, <2>2, <2>6, <2>9, <2>11, <3>1, <1>14, StreamAppends
    <2>13. HandedOK(h, s, m + 1)
      BY <2>12, <1>14, <1>15, HandedKept
    <2>14. client.pc # "header" => BusyOK(n, len, s, p, l, B, h, cuts, max)
      <3>1. book \subseteq B
        BY <2>11 DEF Union
      <3>2. SUFFICES ASSUME client.pc # "header" PROVE BusyOK(n, len, s, p, l, B, h, cuts, max)
        OBVIOUS
      <3>3. QED
        BY <2>12, <3>1, <3>2, <1>13, <1>14, BusyKept
    <2>15. DueOK(p, n, l, B, g, cuts, max)
      <3>1. \A b \in B : b \in book \/ p <= b.start
        <4>1. p <= w
          BY <1>14 DEF Sum, Tokens
        <4>2. QED
          BY <2>2, <2>11, <4>1 DEF Union
      <3>2. QED
        BY <3>1, <1>13, <1>14, DueKept
    <2>16. Sum(v, p, Len(s))
      BY <2>5, <2>9, <2>2, <1>14 DEF Sum, Extends, Tokens
    <2>17. Follows(client, Rem, p)'
      BY <2>6, <2>7, <2>10, <2>12, <2>13, <2>14, <2>15, <2>16, <1>1, <1>3, <1>4, <1>6, <1>8, <1>9, <1>10,
         <1>11, <1>12
         DEF Follows, ReadOn
    <2>18. Tokens(ring') /\ Len(ring') = Len(ring) + Len(q)
      <3>1. PICK c : c = ring
        OBVIOUS
      <3>2. PICK z : z = ring'
        OBVIOUS
      <3>3. Tokens(c) /\ Joined(z, c, q)
        BY <3>1, <3>2, <1>17 DEF FramingInv, FramingTypes, Joined
      <3>4. Tokens(z) /\ Len(z) = Len(c) + Len(q)
        BY <2>4, <3>3, JoinedIs
      <3>5. QED
        BY <3>1, <3>2, <3>4
    <2>19. Len(ring') <= RingSize /\ lastLoss + Len(ring') <= written' /\ written' \in Nat
      <3>1. PICK x \in Nat : x = Len(ring)
        BY RemIs DEF FramingInv
      <3>2. PICK y \in Nat : y = Len(q)
        BY <2>4
      <3>3. l + x <= w
        BY <3>1, <1>5, <1>6 DEF FramingInv, FramingTypes
      <3>4. l + (x + y) <= w + y /\ w + y \in Nat
        BY <3>3
      <3>5. QED
        BY <2>18, <3>1, <3>2, <3>4, <1>5, <1>6, <1>17
    <2>20. FramingTypes'
      BY <2>18, <2>19, <1>1, <1>4, <1>15, <1>16 DEF FramingInv, FramingTypes, ReaderTypes, Lossless, Tokens
    <2>21. QED
      BY <2>17, <2>20, <1>3 DEF FramingInv
  (* It does not, and is dropped. *)
  <1>18. ASSUME UNCHANGED <<ring, written, book>> PROVE FramingInv'
    <2>1. Rem' = Rem
      BY <1>1, <1>18 DEF Rem
    <2>2. HandedOK(h, r, m + 1)
      BY <1>14, <1>15, HandedKept
    <2>3. BookOK(book, w, m + 1)
      <3>1. \A b \in book : b.n \in 1 .. m => b.n \in 1 .. m + 1
        OBVIOUS
      <3>2. QED
        BY <3>1, <1>14 DEF BookOK
    <2>4. Follows(client, Rem, p)'
      BY <2>1, <2>2, <2>3, <1>1, <1>3, <1>4, <1>5, <1>6, <1>7, <1>8, <1>9, <1>10, <1>11, <1>12, <1>14, <1>18
         DEF Follows, ReadOn
    <2>5. FramingTypes'
      BY <1>1, <1>4, <1>15, <1>16, <1>18 DEF FramingInv, FramingTypes, ReaderTypes, Lossless, Tokens
    <2>6. QED
      BY <2>4, <2>5, <1>3 DEF FramingInv
  <1>19. PICK size0 \in Lens :
           LET q == Framing!Header(made') \o Framing!Payload(made', size0)
           IN IF Len(ring) + Len(q) <= RingSize
              THEN /\ ring' = ring \o q /\ written' = written + Len(q)
                   /\ book' = book \cup {[n |-> made', start |-> written, len |-> size0]}
              ELSE UNCHANGED <<ring, written, book>>
    BY DEF Framing!DeviceSends
  <1>20. PICK q : q = Framing!Header(m + 1) \o Framing!Payload(m + 1, size0)
    OBVIOUS
  <1>21. PICK b0 : b0 = [n |-> m + 1, start |-> w, len |-> size0]
    OBVIOUS
  <1>22. made' = m + 1
    BY <1>1, <1>4
  <1>23. CASE Len(ring) + Len(q) <= RingSize
    <2>1. ring' = ring \o q /\ written' = written + Len(q) /\ book' = book \cup {b0}
      BY <1>5, <1>19, <1>20, <1>21, <1>22, <1>23
    <2>2. Packet(q, m + 1, size0) /\ Union(book', book, {b0})
      BY <2>1, <1>20 DEF Packet, Union
    <2>3. QED
      BY <2>1, <2>2, <1>17, <1>21, <1>23
  <1>24. CASE ~(Len(ring) + Len(q) <= RingSize)
    <2>1. UNCHANGED <<ring, written, book>>
      BY <1>19, <1>20, <1>22, <1>24
    <2>2. QED
      BY <2>1, <1>18
  <1>25. QED
    BY <1>23, <1>24

(* What is lost of the ring is of packets that were made.                  *)
LEMMA LostIs ==
  ASSUME NEW r, Origin(r, book), NEW m \in Nat, NEW w, BookOK(book, w, m), NEW z,
         \A j \in DOMAIN z : \E i \in 1 .. Len(r) : r[i] = z[j]
  PROVE  Framing!DataIn(z) \subseteq 1 .. m
  <1> SUFFICES ASSUME NEW j \in DOMAIN z, z[j][1] = "data" PROVE z[j][2] \in 1 .. m
    BY DEF Framing!DataIn
  <1>1. PICK i \in 1 .. Len(r) : r[i] = z[j]
    OBVIOUS
  <1>2. PICK b \in book : \E k \in 1 .. 2 + b.len : r[i] = Tok(b, k)
    BY <1>1 DEF Origin
  <1>3. r[i][2] = b.n
    BY <1>2 DEF Tok
  <1>4. b.n \in 1 .. m
    BY DEF BookOK
  <1>5. QED
    BY <1>1, <1>3, <1>4

(* The device begins a new session.                                        *)
LEMMA ResetsKeeps ==
  ASSUME Framing!FramingAssumption, FramingInv, Framing!DeviceResets
  PROVE  FramingInv'
  <1>1. /\ cuts < MaxCuts /\ cuts' = cuts + 1 /\ ring' = Framing!Init0 /\ written' = written + 2
        /\ cut' = cut \cup Framing!DataIn(ring) /\ lastLoss' = written
        /\ UNCHANGED <<made, book, client, out, damaged>>
    BY DEF Framing!DeviceResets, Framing!HeaderSize
  <1>2. PICK p \in Nat : Follows(client, Rem, p)
    BY DEF FramingInv
  <1>3. InOrder' /\ Framing!Handed' = Framing!Handed
    BY <1>1 DEF FramingInv, InOrder, Framing!Handed
  <1>4. PICK m \in Nat : m = made
    BY DEF FramingInv, FramingTypes
  <1>5. PICK w \in Nat : w = written
    BY DEF FramingInv, FramingTypes
  <1>6. PICK l \in Nat : l = lastLoss
    BY DEF FramingInv, FramingTypes
  <1>7. PICK r : r = Rem
    OBVIOUS
  <1>8. PICK n \in Nat : n = client.n
    BY DEF FramingInv, FramingTypes, ReaderTypes
  <1>9. PICK len \in Nat : len = client.len /\ len \in Lens \cup Garbage \cup {0}
    BY DEF FramingInv, FramingTypes, ReaderTypes
  <1>10. PICK h : h = Framing!Handed
    OBVIOUS
  <1>11. PICK g : g = h \ damaged
    OBVIOUS
  <1>12. PICK max \in Nat : max = Framing!Longest
    BY LongestIs
  <1>13. Lens \subseteq Nat \ {0} /\ len <= max
    <2>1. len \in Lens \cup Garbage => len <= max
      BY <1>12, LongestIs
    <2>2. QED
      BY <2>1, <1>9, LongestIs
  <1>14. /\ Tokens(r) /\ Sum(w, p, Len(r)) /\ StreamOK(r, p, l, book, cut) /\ BookOK(book, w, m)
            /\ HandedOK(h, r, m)
         /\ DueOK(p, n, l, book, g, cuts, max)
         /\ (client.pc # "header" => BusyOK(n, len, r, p, l, book, h, cuts, max))
    BY <1>2, <1>4, <1>5, <1>6, <1>7, <1>8, <1>9, <1>10, <1>11, <1>12, RemIs DEF FramingInv, Follows, ReadOn
  <1>15. PICK a : a = client.buf \o client.prefetch
    OBVIOUS
  <1>16. PICK R : R = ring
    OBVIOUS
  <1>17. Tokens(a) /\ Tokens(R) /\ Joined(r, a, R)
    BY <1>7, <1>15, <1>16, RemIs DEF FramingInv
  <1>18. PICK z : z = Framing!Init0
    OBVIOUS
  <1>19. Tokens(z) /\ InitPacket(z)
    BY <1>18, InitPacketIs
  <1>20. PICK s : s = Rem'
    OBVIOUS
  <1>21. Joined(s, a, z)
    <2>1. client.buf \in Seq(Token) /\ client.prefetch \in Seq(Token) /\ z \in Seq(Token)
      BY <1>19 DEF FramingInv, FramingTypes, ReaderTypes, Tokens
    <2>2. (client.buf \o client.prefetch) \o z = client.buf \o (client.prefetch \o z)
      BY <2>1, Associates, ZenonT(40)
    <2>3. s = client.buf \o (client.prefetch \o z)
      BY <1>1, <1>18, <1>20 DEF Rem
    <2>4. QED
      BY <2>2, <2>3, <1>15 DEF Joined
  <1>22. Tokens(s) /\ Len(s) = Len(a) + Len(z)
    BY <1>17, <1>19, <1>21, JoinedIs
  <1>23. Len(a) \in Nat /\ Len(R) \in Nat /\ Len(r) = Len(a) + Len(R) /\ Len(z) = 2
    <2>1. Len(a) \in Nat /\ Len(R) \in Nat /\ Len(r) = Len(a) + Len(R)
      BY <1>17, JoinedIs
    <2>2. QED
      BY <2>1, <1>19 DEF InitPacket
  <1>24. PICK o \in Nat : o = p + Len(R)
    BY <1>23
  <1>25. PICK v \in Nat : v = w + 2
    OBVIOUS
  <1>26. Sum(o, p, Len(R)) /\ Sum(v, w, 2)
    BY <1>24, <1>25 DEF Sum
  <1>27. PICK C : C = cut'
    OBVIOUS
  <1>28. Loses(C, cut, R)
    BY <1>1, <1>16, <1>27 DEF Loses
  <1>29. StreamOK(s, o, w, book, C) /\ BookOK(book, v, m) /\ \A x : Behind(x, r) => Behind(x, s)
    <2>1. Lens \subseteq Nat
      BY <1>13
    <2>2. Cleared(a, R, z, r, s, p, o, w, v, cut, C)
      BY <1>14, <1>17, <1>19, <1>21, <1>22, <1>26, <1>28 DEF Cleared
    <2>3. StreamOK(r, p, l, book, cut) /\ BookOK(book, w, m)
      BY <1>14
    <2>4. QED
      BY <2>1, <2>2, <2>3, StreamResets
  <1>30. HandedOK(h, s, m)
    BY <1>14, <1>29, HandedKept
  <1>31. PICK e \in Nat : e = cuts + 1 /\ e # 0 /\ e <= MaxCuts
    BY <1>1 DEF FramingInv, FramingTypes, Framing!FramingAssumption
  <1>32. o <= w
    <2>1. w = p + Len(r)
      BY <1>14 DEF Sum
    <2>2. QED
      BY <2>1, <1>23, <1>24
  <1>33. o + len <= w + max + 2 /\ o <= w + max + 2
    BY <1>13, <1>32
  <1>34. ASSUME client.pc # "header" PROVE BusyOK(n, len, s, o, w, book, h, e, max)
    <2>1. InHand(n, len, s, book, h)
      <3>1. BookOK(book, w, m) /\ InHand(n, len, r, book, h)
        BY <1>14, <1>34 DEF BusyOK
      <3>2. \A x \in 1 .. m : Behind(x, r) => Behind(x, s)
        BY <1>29
      <3>3. Lens \subseteq Nat \ {0}
        BY <1>13
      <3>4. QED
        BY <3>1, <3>2, <3>3, InHandKept
    <2>2. e # 0 /\ o + len <= w + max + 2
      BY <1>31, <1>33
    <2>3. QED
      BY <2>1, <2>2 DEF BusyOK
  <1>35. DueOK(o, n, w, book, g, e, max)
    BY <1>13, <1>14, <1>31, <1>33, DueKept
  <1>36. Sum(v, o, Len(s))
    <2>1. w = p + Len(r)
      BY <1>14 DEF Sum
    <2>2. Len(s) = Len(a) + 2
      BY <1>22, <1>23
    <2>3. v = o + Len(s)
      BY <2>1, <2>2, <1>23, <1>24, <1>25, SMTT(30)
    <2>4. QED
      BY <2>3 DEF Sum
  <1>37. Follows(client, Rem, o)'
    BY <1>1, <1>3, <1>4, <1>5, <1>8, <1>9, <1>10, <1>11, <1>12, <1>20, <1>25, <1>27, <1>29, <1>30, <1>31,
       <1>34, <1>35, <1>36
       DEF Follows, ReadOn
  <1>38. cut' \subseteq 1 .. MaxMade
    <2>1. Framing!DataIn(R) \subseteq 1 .. m
      <3>1. \A j \in DOMAIN R : \E i \in 1 .. Len(r) : r[i] = R[j]
        <4> SUFFICES ASSUME NEW j \in DOMAIN R PROVE \E i \in 1 .. Len(r) : r[i] = R[j]
          OBVIOUS
        <4>1. j \in 1 .. Len(R)
          BY <1>17 DEF Tokens
        <4>2. PICK i \in 1 .. Len(r) : i = Len(a) + j
          BY <4>1, <1>23
        <4>3. QED
          BY <4>1, <4>2, <1>17, JoinedBehind
      <3>2. Origin(r, book)
        BY <1>14 DEF StreamOK
      <3>3. QED
        BY <3>1, <3>2, <1>14, LostIs
    <2>2. m <= MaxMade /\ MaxMade \in Nat
      BY <1>4 DEF FramingInv, FramingTypes, Framing!FramingAssumption
    <2>3. Framing!DataIn(R) \subseteq 1 .. MaxMade
      BY <2>1, <2>2
    <2>4. QED
      BY <2>3, <1>1, <1>16 DEF FramingInv, FramingTypes
  <1>39. Tokens(ring') /\ Len(ring') = 2 /\ RingSize >= 2
    BY <1>1, <1>18, <1>19 DEF InitPacket, Framing!FramingAssumption
  <1>40. lastLoss' + Len(ring') <= written' /\ written' \in Nat /\ lastLoss' \in Nat /\ Len(ring') <= RingSize
    <2>1. lastLoss' = w /\ written' = v
      BY <1>1, <1>5, <1>25
    <2>2. w + 2 <= v
      BY <1>25
    <2>3. QED
      BY <2>1, <2>2, <1>39 DEF Framing!FramingAssumption
  <1>41. Lossless(cuts, lastLoss)' /\ cuts' \in 0 .. MaxCuts
    BY <1>1, <1>31 DEF Lossless, Framing!FramingAssumption
  <1>42. FramingTypes'
    BY <1>1, <1>38, <1>39, <1>40, <1>41 DEF FramingInv, FramingTypes, ReaderTypes, Framing!Needed
  <1>43. QED
    BY <1>3, <1>37, <1>42 DEF FramingInv

(* A transfer times out.                                                   *)
LEMMA TimesOutKeeps ==
  ASSUME Framing!FramingAssumption, FramingInv, Framing!ReadTimesOut
  PROVE  FramingInv'
  <1>1. /\ cuts < MaxCuts /\ cuts' = cuts + 1 /\ client.prefetch = <<>>
        /\ UNCHANGED <<made, book, written, client, out, damaged>>
    BY DEF Framing!ReadTimesOut
  <1>2. PICK p \in Nat : Follows(client, Rem, p)
    BY DEF FramingInv
  <1>3. PICK k \in 1 .. Framing!Needed - Len(client.buf) - 1 :
          /\ k <= Len(ring)
          /\ ring' = SubSeq(ring, k + 1, Len(ring))
          /\ cut' = cut \cup Framing!DataIn(SubSeq(ring, 1, k))
          /\ lastLoss' = written - Len(ring) + k
    BY DEF Framing!ReadTimesOut
  <1>4. PICK m \in Nat : m = made
    BY DEF FramingInv, FramingTypes
  <1>5. PICK w \in Nat : w = written
    BY DEF FramingInv, FramingTypes
  <1>6. PICK l \in Nat : l = lastLoss
    BY DEF FramingInv, FramingTypes
  <1>7. PICK r : r = Rem
    OBVIOUS
  <1>8. PICK n \in Nat : n = client.n
    BY DEF FramingInv, FramingTypes, ReaderTypes
  <1>9. PICK len \in Nat : len = client.len /\ len \in Lens \cup Garbage \cup {0}
    BY DEF FramingInv, FramingTypes, ReaderTypes
  <1>10. PICK h : h = Framing!Handed
    OBVIOUS
  <1>11. PICK g : g = h \ damaged
    OBVIOUS
  <1>12. PICK max \in Nat : max = Framing!Longest
    BY LongestIs
  <1>13. Lens \subseteq Nat \ {0} /\ len <= max
    <2>1. len \in Lens \cup Garbage => len <= max
      BY <1>12, LongestIs
    <2>2. QED
      BY <2>1, <1>9, LongestIs
  <1>14. /\ Tokens(r) /\ Sum(w, p, Len(r)) /\ StreamOK(r, p, l, book, cut) /\ BookOK(book, w, m)
            /\ HandedOK(h, r, m)
         /\ DueOK(p, n, l, book, g, cuts, max)
         /\ (client.pc # "header" => BusyOK(n, len, r, p, l, book, h, cuts, max))
    BY <1>2, <1>4, <1>5, <1>6, <1>7, <1>8, <1>9, <1>10, <1>11, <1>12, RemIs DEF FramingInv, Follows, ReadOn
  <1>15. PICK a \in Seq(Token) : a = client.buf
    BY DEF FramingInv, FramingTypes, ReaderTypes
  <1>16. PICK R \in Seq(Token) : R = ring
    BY DEF FramingInv, FramingTypes, Tokens
  <1>17. <<>> \o R = R
    BY ConcatEmptySeq
  <1>18. Tokens(a) /\ Tokens(R) /\ Joined(r, a, R)
    BY <1>1, <1>7, <1>15, <1>16, <1>17 DEF Tokens, Joined, Rem
  <1>19. k \in Nat /\ k >= 1 /\ k <= Len(R)
    <2>1. k <= Len(R)
      BY <1>3, <1>16
    <2>2. Framing!Needed - Len(client.buf) - 1 \in Int
      <3>1. Framing!Needed \in Nat
        BY DEF FramingInv, FramingTypes, ReaderTypes, Framing!Needed, Framing!HeaderSize
      <3>2. Len(client.buf) \in Nat
        BY RemIs DEF FramingInv
      <3>3. QED
        BY <3>1, <3>2
    <2>3. QED
      BY <2>1, <2>2, <1>3
  <1>20. PICK K : K = SubSeq(R, 1, k)
    OBVIOUS
  <1>21. PICK Q : Q = SubSeq(R, k + 1, Len(R))
    OBVIOUS
  <1>22. Tokens(K) /\ Tokens(Q) /\ Joined(R, K, Q) /\ Size(K, k) /\ Len(Q) = Len(R) - k /\ Len(Q) \in Nat
    <2>1. SubSeq(R, 1, k) \o SubSeq(R, k + 1, Len(R)) = SubSeq(R, 1, Len(R))
      <3>1. 1 \in 1 .. Len(R) + 1 /\ k \in 1 - 1 .. Len(R) /\ Len(R) \in k .. Len(R)
        BY <1>19
      <3>2. QED
        BY <3>1, ConcatAdjacentSubSeq
    <2>2. SubSeq(R, 1, Len(R)) = R
      BY SubSeqFull
    <2>3. \A i \in 1 .. k : R[i] \in Token
      BY <1>19
    <2>4. \A i \in k + 1 .. Len(R) : R[i] \in Token
      BY <1>19
    <2>5. K \in Seq(Token) /\ Len(K) = k
      BY <2>3, <1>19, <1>20, SubSeqProperties, SMTT(30)
    <2>6. Q \in Seq(Token) /\ Len(Q) = Len(R) - k
      <3>1. Q \in Seq(Token) /\ Len(Q) = IF k + 1 <= Len(R) THEN Len(R) - (k + 1) + 1 ELSE 0
        BY <2>4, <1>19, <1>21, SubSeqProperties, SMTT(30)
      <3>2. QED
        BY <3>1, <1>19
    <2>7. R = K \o Q
      BY <2>1, <2>2, <1>20, <1>21
    <2>8. Len(Q) \in Nat
      BY <2>6
    <2>9. QED
      BY <2>5, <2>6, <2>7, <2>8 DEF Tokens, Joined, Size
  <1>23. PICK s : s = Rem'
    OBVIOUS
  <1>24. ring' = Q
    BY <1>3, <1>16, <1>21
  <1>25. Joined(s, a, Q)
    <2>1. Q \in Seq(Token)
      BY <1>22 DEF Tokens
    <2>2. <<>> \o Q = Q
      BY <2>1, ConcatEmptySeq
    <2>3. QED
      BY <2>2, <1>1, <1>15, <1>23, <1>24 DEF Joined, Rem
  <1>26. Tokens(s) /\ Len(s) = Len(a) + Len(Q) /\ Len(r) = Len(a) + Len(R) /\ Len(a) \in Nat /\ Len(R) \in Nat
    <2>1. Tokens(s) /\ Len(s) = Len(a) + Len(Q)
      BY <1>18, <1>22, <1>25, JoinedIs
    <2>2. Len(r) = Len(a) + Len(R) /\ Len(a) \in Nat /\ Len(R) \in Nat
      BY <1>18, JoinedIs
    <2>3. QED
      BY <2>1, <2>2
  <1>27. PICK o \in Nat : o = p + k
    BY <1>19
  <1>28. PICK t \in Nat : t = p + Len(a)
    BY <1>26
  <1>29. PICK v \in Nat : v = t + k
    BY <1>19
  <1>30. Sum(o, p, k) /\ Sum(t, p, Len(a)) /\ Sum(v, t, k)
    BY <1>27, <1>28, <1>29 DEF Sum
  <1>31. w = t + Len(R)
    <2>1. w = p + Len(r)
      BY <1>14 DEF Sum
    <2>2. QED
      BY <2>1, <1>26, <1>28
  <1>32. l <= t
    <2>1. l + Len(R) <= w
      BY <1>5, <1>6, <1>16 DEF FramingInv, FramingTypes
    <2>2. QED
      BY <2>1, <1>26, <1>31
  <1>33. lastLoss' = v
    <2>1. lastLoss' = w - Len(R) + k
      BY <1>3, <1>5, <1>16
    <2>2. QED
      BY <2>1, <1>19, <1>26, <1>29, <1>31
  <1>34. PICK C : C = cut'
    OBVIOUS
  <1>35. Loses(C, cut, K)
    BY <1>3, <1>16, <1>20, <1>34 DEF Loses
  <1>36. StreamOK(s, o, v, book, C) /\ \A x : Behind(x, r) => Behind(x, s)
    <2>1. TimedOut(a, R, K, Q, r, s, p, o, t, l, v, k, cut, C)
      BY <1>18, <1>19, <1>22, <1>25, <1>30, <1>32, <1>35 DEF TimedOut
    <2>2. StreamOK(r, p, l, book, cut) /\ k \in Nat
      BY <1>14, <1>19
    <2>3. QED
      BY <2>1, <2>2, StreamLoses
  <1>37. HandedOK(h, s, m)
    <2>1. m <= m /\ \A x \in 1 .. m : Behind(x, r) => Behind(x, s)
      BY <1>36
    <2>2. HandedOK(h, r, m)
      BY <1>14
    <2>3. QED
      BY <2>1, <2>2, HandedKept
  <1>38. PICK e \in Nat : e = cuts + 1 /\ e # 0 /\ e <= MaxCuts
    <2>1. cuts \in Nat /\ MaxCuts \in Nat /\ cuts < MaxCuts
      BY <1>1 DEF FramingInv, FramingTypes, Framing!FramingAssumption
    <2>2. cuts + 1 \in Nat /\ cuts + 1 # 0 /\ cuts + 1 <= MaxCuts
      BY <2>1
    <2>3. QED
      BY <2>2
  <1>39. o + len <= v + max + 2 /\ o <= v + max + 2
    <2>1. o <= v
      BY <1>26, <1>27, <1>28, <1>29
    <2>2. QED
      BY <2>1, <1>13
  <1>40. ASSUME client.pc # "header" PROVE BusyOK(n, len, s, o, v, book, h, e, max)
    <2>1. InHand(n, len, s, book, h)
      <3>1. BookOK(book, w, m) /\ InHand(n, len, r, book, h)
        BY <1>14, <1>40 DEF BusyOK
      <3>2. \A x \in 1 .. m : Behind(x, r) => Behind(x, s)
        BY <1>36
      <3>3. Lens \subseteq Nat \ {0}
        BY <1>13
      <3>4. QED
        BY <3>1, <3>2, <3>3, InHandKept
    <2>2. e # 0 /\ o + len <= v + max + 2
      BY <1>38, <1>39
    <2>3. QED
      BY <2>1, <2>2 DEF BusyOK
  <1>41. DueOK(o, n, v, book, g, e, max)
    BY <1>13, <1>14, <1>38, <1>39, DueKept
  <1>42. Sum(w, o, Len(s))
    BY <1>19, <1>22, <1>26, <1>27, <1>28, <1>31 DEF Sum
  <1>43. InOrder' /\ Framing!Handed' = Framing!Handed
    BY <1>1, <1>3 DEF FramingInv, InOrder, Framing!Handed
  <1>44. Follows(client, Rem, o)'
    BY <1>1, <1>4, <1>5, <1>8, <1>9, <1>10, <1>11, <1>12, <1>14, <1>23, <1>33, <1>34, <1>36, <1>37, <1>38,
       <1>40, <1>41,
       <1>42, <1>43 DEF Follows, ReadOn
  <1>45. cut' \subseteq 1 .. MaxMade
    <2>1. Framing!DataIn(K) \subseteq 1 .. m
      <3>1. \A j \in DOMAIN K : \E i \in 1 .. Len(r) : r[i] = K[j]
        <4> SUFFICES ASSUME NEW j \in DOMAIN K PROVE \E i \in 1 .. Len(r) : r[i] = K[j]
          OBVIOUS
        <4>1. j \in 1 .. Len(K)
          BY <1>22 DEF Tokens
        <4>2. j \in 1 .. Len(R) /\ R[j] = K[j]
          BY <4>1, <1>22, JoinedIs
        <4>3. PICK i \in 1 .. Len(r) : i = Len(a) + j
          BY <4>2, <1>26
        <4>4. QED
          BY <4>2, <4>3, <1>18, JoinedBehind
      <3>2. Origin(r, book)
        BY <1>14 DEF StreamOK
      <3>3. QED
        BY <3>1, <3>2, <1>14, LostIs
    <2>2. m <= MaxMade /\ MaxMade \in Nat
      BY <1>4 DEF FramingInv, FramingTypes, Framing!FramingAssumption
    <2>3. Framing!DataIn(K) \subseteq 1 .. MaxMade
      BY <2>1, <2>2
    <2>4. QED
      BY <2>3, <1>3, <1>16, <1>20 DEF FramingInv, FramingTypes
  <1>46. Tokens(ring') /\ Len(ring') = Len(R) - k
    BY <1>22, <1>24
  <1>47. lastLoss' + Len(ring') <= written' /\ lastLoss' \in Nat /\ Len(ring') <= RingSize
    <2>1. written' = w /\ v + (Len(R) - k) <= w
      BY <1>1, <1>5, <1>19, <1>26, <1>29, <1>31
    <2>2. Len(R) <= RingSize /\ RingSize \in Nat
      BY <1>16 DEF FramingInv, FramingTypes, Framing!FramingAssumption
    <2>3. Len(R) - k <= RingSize
      BY <2>2, <1>19, <1>26
    <2>4. QED
      BY <2>1, <2>3, <1>33, <1>46
  <1>48. Lossless(cuts, lastLoss)' /\ cuts' \in 0 .. MaxCuts
    BY <1>1, <1>38 DEF Lossless, Framing!FramingAssumption
  <1>49. FramingTypes'
    BY <1>1, <1>45, <1>46, <1>47, <1>48 DEF FramingInv, FramingTypes, ReaderTypes, Framing!Needed
  <1>50. QED
    BY <1>43, <1>44, <1>49 DEF FramingInv

(* Before the first step: the first packet, read ahead in part.            *)
LEMMA FramingStarts ==
  ASSUME Framing!FramingAssumption, Framing!Init
  PROVE  FramingInv
  <1>1. PICK size0 \in Lens : \E k \in 0 .. size0 + 2 :
          LET q == Framing!Header(1) \o Framing!Payload(1, size0)
          IN /\ Len(q) <= RingSize
             /\ client = Framing!Reading(SubSeq(q, 1, k)) /\ ring = SubSeq(q, k + 1, Len(q))
             /\ book = {[n |-> 1, start |-> 0, len |-> size0]} /\ written = Len(q)
             /\ made = 1 /\ out = <<>> /\ damaged = {} /\ cut = {} /\ lastLoss = 0 /\ cuts = 0
    BY DEF Framing!Init, Framing!HeaderSize
  <1>2. PICK q : q = Framing!Header(1) \o Framing!Payload(1, size0)
    OBVIOUS
  <1>3. PICK b0 : b0 = [n |-> 1, start |-> 0, len |-> size0]
    OBVIOUS
  <1>4. PICK k \in 0 .. size0 + 2 :
          /\ Len(q) <= RingSize
          /\ client = Framing!Reading(SubSeq(q, 1, k)) /\ ring = SubSeq(q, k + 1, Len(q))
          /\ book = {b0} /\ written = Len(q)
          /\ made = 1 /\ out = <<>> /\ damaged = {} /\ cut = {} /\ lastLoss = 0 /\ cuts = 0
    BY <1>1, <1>2, <1>3
  <1>5. PICK len \in Nat : len = size0 /\ len >= 1
    BY LongestIs
  <1>6. Packet(q, 1, len)
    BY <1>2, <1>5 DEF Packet
  <1>7. Tokens(q) /\ Len(q) = len + 2
    BY <1>6, PacketIs
  <1>8. PICK z : z = <<>>
    OBVIOUS
  <1>9. Tokens(z) /\ Len(z) = 0
    BY <1>8 DEF Tokens
  <1>10. Joined(q, z, q)
    BY <1>7, <1>8, ConcatEmptySeq DEF Tokens, Joined
  <1>11. b0.n = 1 /\ b0.start = 0 /\ b0.len = len
    BY <1>3, <1>5
  <1>12. Extends(q, z, b0)
    BY <1>6, <1>9, <1>10, <1>11, PacketExtends
  <1>13. PICK none : none = {}
    OBVIOUS
  <1>14. StreamOK(z, 0, 0, none, none) /\ BookOK(none, 0, 0)
    BY <1>9, <1>13 DEF StreamOK, BookOK, Origin, Sorted, Uncut, InPlace, StartsIn, InitsIn
  <1>15. PICK w \in Nat : w = len + 2
    OBVIOUS
  <1>16. StreamOK(q, 0, 0, book, none) /\ BookOK(book, w, 1)
    <2>1. Sum(w, 0, len + 2) /\ Sum(0, 0, Len(z))
      BY <1>9, <1>15 DEF Sum
    <2>2. Union(book, none, {b0})
      BY <1>4, <1>13 DEF Union
    <2>3. Lens \subseteq Nat /\ len \in Lens
      BY <1>5, LongestIs
    <2>4. b0.n = 0 + 1
      BY <1>11
    <2>5. StreamOK(q, 0, 0, book, none) /\ BookOK(book, w, 0 + 1)
      BY <2>1, <2>2, <2>3, <2>4, <1>5, <1>7, <1>9, <1>11, <1>12, <1>14, StreamAppends
    <2>6. QED
      BY <2>5
  <1>17. PICK a \in Seq(Token) : a = SubSeq(q, 1, k)
    <2>1. q \in Seq(Token)
      BY <1>7 DEF Tokens
    <2>2. \A i \in 1 .. k : q[i] \in Token
      BY <2>1, <1>5, <1>7
    <2>3. SubSeq(q, 1, k) \in Seq(Token)
      BY <2>2, SubSeqProperties
    <2>4. QED
      BY <2>3
  <1>18. PICK c \in Seq(Token) : c = SubSeq(q, k + 1, Len(q)) /\ Len(c) <= Len(q)
    <2>1. q \in Seq(Token)
      BY <1>7 DEF Tokens
    <2>2. \A i \in k + 1 .. Len(q) : q[i] \in Token
      BY <2>1
    <2>3. /\ SubSeq(q, k + 1, Len(q)) \in Seq(Token)
          /\ Len(SubSeq(q, k + 1, Len(q))) = IF k + 1 <= Len(q) THEN Len(q) - (k + 1) + 1 ELSE 0
      BY <2>1, <2>2, SubSeqProperties, SMTT(30)
    <2>4. Len(SubSeq(q, k + 1, Len(q))) <= Len(q)
      BY <2>3, <1>7, SMTT(30)
    <2>5. QED
      BY <2>3, <2>4
  <1>19. a \o c = q
    <2>1. q \in Seq(Token)
      BY <1>7 DEF Tokens
    <2>2. 1 \in 1 .. Len(q) + 1 /\ k \in 1 - 1 .. Len(q) /\ Len(q) \in k .. Len(q)
      BY <1>5, <1>7
    <2>3. SubSeq(q, 1, k) \o SubSeq(q, k + 1, Len(q)) = SubSeq(q, 1, Len(q))
      BY <2>1, <2>2, ConcatAdjacentSubSeq
    <2>4. SubSeq(q, 1, Len(q)) = q
      BY <2>1, SubSeqFull
    <2>5. QED
      BY <2>3, <2>4, <1>17, <1>18
  <1>20. /\ ReaderTypes(client) /\ client.pc = "header" /\ client.buf = <<>> /\ client.n = 0
            /\ client.prefetch = a
         /\ Len(client.buf) = 0
    BY <1>4, <1>17, ReadingIs DEF Tokens
  <1>21. Rem = q
    BY <1>4, <1>7, <1>18, <1>19, <1>20, ConcatEmptySeq DEF Rem, Tokens
  <1>22. FramingTypes
    <2>1. Len(client.buf) <= Framing!Needed
      BY <1>20 DEF Framing!Needed, Framing!HeaderSize
    <2>2. Tokens(ring) /\ ring = c
      BY <1>4, <1>18 DEF Tokens
    <2>3. Len(ring) <= RingSize /\ 0 + Len(ring) <= written /\ written \in Nat
      <3>1. PICK x \in Nat : x = Len(c)
        OBVIOUS
      <3>2. PICK y \in Nat : y = Len(q)
        BY <1>7
      <3>3. x <= y /\ y <= RingSize /\ RingSize \in Nat /\ written = y
        BY <3>1, <3>2, <1>4, <1>18 DEF Framing!FramingAssumption
      <3>4. QED
        BY <2>2, <3>1, <3>3
    <2>4. made \in 1 .. MaxMade /\ cuts \in 0 .. MaxCuts
      BY <1>4 DEF Framing!FramingAssumption
    <2>5. QED
      BY <2>1, <2>2, <2>3, <2>4, <1>4, <1>20 DEF FramingTypes, Lossless
  <1>23. InOrder /\ Framing!Handed = {}
    BY <1>4 DEF InOrder, Framing!Handed
  <1>24. Follows(client, Rem, 0)
    <2>1. Sum(written, 0, Len(Rem))
      BY <1>4, <1>7, <1>21 DEF Sum
    <2>2. StreamOK(Rem, 0, lastLoss, book, cut) /\ BookOK(book, written, made)
      BY <1>4, <1>7, <1>13, <1>15, <1>16, <1>21
    <2>3. ReadOn(client, Rem, 0)
      <3>1. \A b \in book : 0 <= b.start
        BY <1>4, <1>11
      <3>2. QED
        BY <3>1, <1>20, <1>23 DEF ReadOn, HandedOK, DueOK
    <2>4. QED
      BY <2>1, <2>2, <2>3 DEF Follows
  <1>25. QED
    BY <1>22, <1>23, <1>24 DEF FramingInv

(* One step of the framing, of the device or of the client.                *)
LEMMA FramingStep ==
  ASSUME Framing!FramingAssumption, FramingInv, [Framing!Next]_(Framing!vars)
  PROVE  FramingInv'
  <1>1. CASE UNCHANGED Framing!vars
    <2>1. UNCHANGED <<ring, made, book, written, client, out, damaged, cut, lastLoss, cuts>>
      BY <1>1 DEF Framing!vars
    <2>2. FramingTypes' /\ InOrder'
      BY <2>1 DEF FramingInv, FramingTypes, ReaderTypes, Tokens, Lossless, InOrder, Framing!Handed,
         Framing!Needed
    <2>3. PICK p \in Nat : Follows(client, Rem, p)
      BY DEF FramingInv
    <2>4. Follows(client, Rem, p)'
      BY <2>1, <2>3 DEF Follows, ReadOn, Rem, Framing!Handed
    <2>5. QED
      BY <2>2, <2>4 DEF FramingInv
  <1>2. QED
    BY <1>1, SendsKeeps, ResetsKeeps, ReadsKeeps, TimesOutKeeps, ParseKeeps, CheckKeeps,
       HandOnKeeps DEF Framing!Next

-----------------------------------------------------------------------------
(* The parts side by side: each keeps its own specification.              *)

LEMMA EachPartsStep ==
  ASSUME [ClientNext]_clientVars
  PROVE  [Audio!Next]_(Audio!vars) /\ [Framing!Next]_(Framing!vars) /\ [Trace!Next]_(Trace!vars)
  <1> USE DEF audioVars, framingVars, traceVars
  <1>1. CASE AudioNext
    BY <1>1 DEF AudioNext, Framing!vars, Trace!vars, Trace!source, Trace!client
  <1>2. CASE TraceNext
    BY <1>2 DEF TraceNext, Audio!vars, Framing!vars
  <1>3. CASE FramingNext \/ StopNext \/ BoundReached \/ UNCHANGED clientVars
    BY <1>3 DEF FramingNext, StopNext, BoundReached, clientVars, Audio!vars, Framing!vars,
                Trace!vars, Trace!source, Trace!client
  <1>4. QED
    BY <1>1, <1>2, <1>3 DEF ClientNext

(* No PCM data is reordered, duplicated or miscounted, playback starts     *)
(* even if the first packet is refused, latency is bounded by the target   *)
(* and one packet, and the device outlives its users: for any prebuffer,   *)
(* target, limit and sizes of packets.                                     *)
THEOREM AudioSoundAlways == ClientSpec => []AudioSound
  <1>1. ClientSpec => Audio!Spec
    <2>1. ClientInit => Audio!Init
      BY DEF ClientInit
    <2>2. [ClientNext]_clientVars => [Audio!Next]_(Audio!vars)
      BY EachPartsStep
    <2>3. QED
      BY <2>1, <2>2, PTL DEF ClientSpec, Audio!Spec
  <1>2. AudioInv => AudioSound
    BY AudioInvSound, PartsAssumption DEF AudioSound
  <1>3. Audio!Spec => []AudioInv
    BY AudioInvariant, PartsAssumption
  <1>4. QED
    BY <1>1, <1>2, <1>3, PTL

(* Over a stream that is cut anywhere, the client hands on packets once,   *)
(* in order and under their own names, damages only packets that lost a    *)
(* part of themselves, and is in step again within one payload of a loss:  *)
(* for any lengths, any size of the ring and any number of losses.         *)
THEOREM FramingSoundAlways == ClientSpec => []FramingSound
  <1>1. ClientInit => FramingInv
    BY FramingStarts, PartsAssumption DEF ClientInit
  <1>2. FramingInv /\ [ClientNext]_clientVars => FramingInv'
    BY EachPartsStep, FramingStep, PartsAssumption
  <1>3. FramingInv => FramingSound
    BY FramingInvSound, PartsAssumption DEF FramingSound
  <1>4. QED
    BY <1>1, <1>2, <1>3, PTL DEF ClientSpec

(* What the client reports of the audio chunks is what was lost: for any   *)
(* size of the file and of a chunk, and any width of the index.            *)
THEOREM TraceSoundAlways == ClientSpec => TraceSound
  <1>1. ClientInit => TraceInv
    BY TraceStarts, PartsAssumption DEF ClientInit
  <1>2. TraceInv /\ [ClientNext]_clientVars =>
          TraceInv' /\ [Trace!GapIsLoss /\ Trace!JumpIsLoss]_(Trace!vars)
    BY EachPartsStep, TraceStep, PartsAssumption
  <1>3. TraceInv => Trace!TypeOK
    BY DEF TraceInv
  <1>4. QED
    BY <1>1, <1>2, <1>3, PTL DEF ClientSpec, TraceSound, Trace!TraceSound
=============================================================================
