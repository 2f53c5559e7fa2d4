----------------------------- MODULE ClientStop -----------------------------
(***************************************************************************)
(* How gateway_client opens, uses, stops and closes its transport          *)
(* (transport.c, transport_libusb.c, tcp_transport_read_exact), in the two *)
(* programs that share it between threads:                                 *)
(*                                                                         *)
(*   play   main() decodes while network_reader reads;                     *)
(*   diag   run_diag_dump reads while a watchdog thread sleeps.            *)
(*                                                                         *)
(* Either thread may request the stop, the other one may be inside a       *)
(* blocking read.  request_stop takes no lock: the test of tcp_fd, the     *)
(* shutdown, the close and the assignment are steps of their own.          *)
(***************************************************************************)
EXTENDS Naturals

CONSTANTS Kinds,     \* which transports: "usb", "tcp"
          Programs,  \* which programs: "play", "diag"
          Packets    \* bound on diag_packets

ASSUME StopAssumption ==
  /\ Kinds \subseteq {"usb", "tcp"} /\ Programs \subseteq {"play", "diag"}
  /\ Packets \in Nat

VARIABLES
  kind, program,  \* chosen at the start
  stopping,       \* transport.stop_requested
  fd,             \* transport.tcp_fd is not TCP_TRANSPORT_INVALID_SOCKET
  socket,         \* the connection: none, open, shut, closed
  handle,         \* transport.usb_handle: none, open, closed
  running,        \* state.running in play, watchdog_running in diag
  main,           \* where the main thread is
  other,          \* where network_reader or the watchdog is
  result,         \* what the main thread will return
  dumped,         \* packets_dumped
  gone,           \* the peer closed, or the device was unplugged
  twice           \* history: a descriptor was closed that was closed already

conn == <<fd, socket, handle, twice>>
vars == <<kind, program, stopping, conn, running, main, other, result, dumped, gone>>

Reader   == IF program = "play" THEN "other" ELSE "main"
At(t)    == IF t = "main" THEN main ELSE other
Goes(t, to) ==
  IF t = "main" THEN main' = to /\ UNCHANGED other ELSE other' = to /\ UNCHANGED main

Init ==
  /\ kind \in Kinds /\ program \in Programs
  /\ stopping = FALSE /\ fd = FALSE /\ socket = "none" /\ handle = "none"
  /\ running = TRUE /\ main = "open" /\ other = "none"
  /\ result = 0 /\ dumped = 0 /\ gone = FALSE /\ twice = FALSE

-----------------------------------------------------------------------------
(* gateway_client_transport_open, the start-up, and its failures.          *)

(* The USB side waits for the device; claiming it may fail. *)
UsbOpens ==
  /\ kind = "usb"
  /\ \/ handle' = "open" /\ main' = "startup" /\ UNCHANGED result
     \/ main' = "done" /\ result' = 1 /\ UNCHANGED handle
  /\ UNCHANGED <<fd, socket>>

(* Each address is tried; the socket of one that refuses is closed. *)
TcpOpens ==
  /\ kind = "tcp"
  /\ \/ fd' = TRUE /\ socket' = "open" /\ main' = "startup" /\ UNCHANGED result
     \/ main' = "done" /\ result' = 1 /\ UNCHANGED <<fd, socket>>
  /\ UNCHANGED handle

Opens ==
  /\ main = "open" /\ (UsbOpens \/ TcpOpens)
  /\ UNCHANGED <<kind, program, stopping, twice, running, other, dumped, gone>>

(* prepare_usb_stream_startup twice, the init packet, SDL and the decoder: *)
(* any of these may fail; then there is no second thread yet.              *)
StartsUp ==
  /\ main = "startup"
  /\ \/ main' = "spawn" /\ UNCHANGED result
     \/ main' = "close" /\ result' = 1
  /\ UNCHANGED <<kind, program, stopping, conn, running, other, dumped, gone>>

Spawns ==
  /\ main = "spawn"
  /\ IF program = "play" THEN main' = "round" /\ other' = "test"
                         ELSE main' = "initial" /\ other' = "sleep"
  /\ UNCHANGED <<kind, program, stopping, conn, running, result, dumped, gone>>

-----------------------------------------------------------------------------
(* The reading thread r: network_reader, or main in run_diag_dump.         *)

(* The condition of the loop.  What the loop of diag looks at is the stop  *)
(* flag and the count, that of play looks at state.running.                *)
Tests(r) ==
  /\ r = Reader /\ At(r) = "test"
  /\ IF IF program = "play" THEN running ELSE ~stopping /\ dumped < Packets
     THEN Goes(r, "read")
     ELSE Goes(r, "stop")
  /\ running' = (running /\ At(r)' # "stop")
  /\ UNCHANGED <<kind, program, stopping, conn, result, dumped, gone>>

(* Fault: a transfer that timed out is repeated whatever the stop flag. *)
MutUsbInterrupted == gone

(* The end of a blocking read.  USB: a transfer that timed out looks at    *)
(* the stop flag, an unplugged device ends it.                             *)
UsbInterrupted == stopping \/ gone

(* TCP: the peer closed, or the socket was shut down, or was closed before *)
(* recv was called with it.                                                *)
TcpInterrupted == ~fd \/ socket # "open" \/ gone

Interrupted == IF kind = "usb" THEN UsbInterrupted ELSE TcpInterrupted

ReadEnds(r) ==
  /\ r = Reader /\ At(r) = "read" /\ Interrupted
  /\ Goes(r, "stop") /\ running' = FALSE
  /\ UNCHANGED <<kind, program, stopping, conn, result, dumped, gone>>

(* run_diag_dump: over USB the start-up has the init packet already, over  *)
(* TCP it is read now; with none, or version 0, there is nothing to dump.  *)
DiagStarts ==
  /\ main = "initial" /\ (kind = "tcp" => Interrupted)
  /\ \/ main' = "test" /\ kind = "usb" /\ UNCHANGED <<running, result>>
     \/ main' = "stop" /\ running' = FALSE /\ result' = 1
  /\ UNCHANGED <<kind, program, stopping, conn, other, dumped, gone>>

DiagReadsInit ==
  /\ main = "initial" /\ kind = "tcp" /\ fd /\ socket = "open"
  /\ \/ main' = "test" /\ UNCHANGED <<running, result>>
     \/ main' = "stop" /\ running' = FALSE /\ result' = 1
  /\ UNCHANGED <<kind, program, stopping, conn, other, dumped, gone>>

(* A packet was read: it is shown and counted, or skipped. *)
ReadReturns(r) ==
  /\ r = Reader /\ At(r) = "read" /\ (kind = "tcp" => fd /\ socket = "open")
  /\ Goes(r, "test")
  /\ dumped' \in (IF program = "diag" THEN {dumped, dumped + 1} ELSE {dumped})
  /\ UNCHANGED <<kind, program, stopping, conn, running, result, gone>>

-----------------------------------------------------------------------------
(* The other ends.                                                         *)

(* main in play: the window is closed, or the reader has stopped. *)
MainQuits ==
  /\ main = "round" /\ running /\ running' = FALSE /\ main' = "quit"
  /\ UNCHANGED <<kind, program, stopping, conn, other, result, dumped, gone>>

MainSeesEnd ==
  /\ main = "round" /\ ~running /\ main' = "stop"
  /\ UNCHANGED <<kind, program, stopping, conn, running, other, result, dumped, gone>>

(* The watchdog wakes up after diag_seconds. *)
WatchdogWakes ==
  /\ other = "sleep"
  /\ other' = IF running THEN "stop" ELSE "done"
  /\ UNCHANGED <<kind, program, stopping, conn, running, main, result, dumped, gone>>

-----------------------------------------------------------------------------
(* gateway_client_transport_request_stop, called by thread t.              *)

Requests(t) ==
  /\ At(t) \in {"stop", "quit"} /\ stopping' = TRUE
  /\ IF kind = "tcp" /\ fd
     THEN Goes(t, IF At(t) = "quit" THEN "quit shutdown" ELSE "shutdown")
     ELSE Goes(t, IF At(t) = "quit" THEN "round" ELSE IF t = "main" THEN "join" ELSE "done")
  /\ UNCHANGED <<kind, program, conn, running, result, dumped, gone>>

(* tcp_transport_shutdown_close(transport->tcp_fd): the descriptor is read *)
(* again, and is not touched if it has become invalid in between.          *)
Shuts(t) ==
  /\ At(t) \in {"shutdown", "quit shutdown"}
  /\ IF fd
     THEN /\ socket' = (IF socket = "open" THEN "shut" ELSE socket)
          /\ Goes(t, IF At(t) = "shutdown" THEN "closing" ELSE "quit closing")
     ELSE UNCHANGED socket /\ Goes(t, IF At(t) = "shutdown" THEN "forget" ELSE "quit forget")
  /\ UNCHANGED <<kind, program, stopping, fd, handle, twice, running, result, dumped, gone>>

CloseFd(t) ==
  /\ At(t) \in {"closing", "quit closing"}
  /\ socket' = "closed" /\ twice' = (twice \/ socket = "closed")
  /\ Goes(t, IF At(t) = "closing" THEN "forget" ELSE "quit forget")
  /\ UNCHANGED <<kind, program, stopping, fd, handle, running, result, dumped, gone>>

Forgets(t) ==
  /\ At(t) \in {"forget", "quit forget"}
  /\ fd' = FALSE
  /\ Goes(t, IF At(t) = "quit forget" THEN "round" ELSE IF t = "main" THEN "join" ELSE "done")
  /\ UNCHANGED <<kind, program, stopping, socket, handle, twice, running, result, dumped, gone>>

-----------------------------------------------------------------------------
(* The end of the program.                                                 *)

(* Fault: the other thread is not waited for. *)
MutJoins ==
  /\ main = "join" /\ main' = "close"
  /\ result' = IF program = "diag" /\ dumped = 0 THEN 1 ELSE result
  /\ UNCHANGED <<kind, program, stopping, conn, running, other, dumped, gone>>

Joins ==
  /\ main = "join" /\ other = "done" /\ main' = "close"
  /\ result' = IF program = "diag" /\ dumped = 0 THEN 1 ELSE result
  /\ UNCHANGED <<kind, program, stopping, conn, running, other, dumped, gone>>

(* gateway_client_transport_close: one step, there is no other thread. *)
UsbCloses ==
  handle' = (IF handle = "open" THEN "closed" ELSE handle) /\ UNCHANGED <<fd, socket, twice>>

TcpCloses ==
  /\ fd' = FALSE /\ socket' = (IF fd THEN "closed" ELSE socket)
  /\ twice' = (twice \/ (fd /\ socket = "closed")) /\ UNCHANGED handle

Closes ==
  /\ main = "close" /\ main' = "done"
  /\ IF kind = "usb" THEN UsbCloses ELSE TcpCloses
  /\ UNCHANGED <<kind, program, stopping, running, other, result, dumped, gone>>

PeerGoes ==
  /\ ~gone /\ gone' = TRUE
  /\ UNCHANGED <<kind, program, stopping, conn, running, main, other, result, dumped>>

Ended == main = "done" /\ UNCHANGED vars

Reads(r)     == Tests(r) \/ ReadEnds(r)
StopCall(t)  == Requests(t) \/ Shuts(t) \/ CloseFd(t) \/ Forgets(t)

Next ==
  \/ Opens \/ StartsUp \/ Spawns \/ DiagStarts \/ DiagReadsInit \/ MainQuits \/ MainSeesEnd \/ WatchdogWakes
  \/ \E t \in {"main", "other"} : Reads(t) \/ ReadReturns(t) \/ StopCall(t)
  \/ Joins \/ Closes \/ PeerGoes \/ Ended

Spec == Init /\ [][Next]_vars

(* Threads are scheduled and the watchdog's sleep ends.  A read ends when  *)
(* it is interrupted; that data arrives, or a window is closed, is not     *)
(* assumed.  A steady stream of packets must not keep a read from ending:  *)
(* then the loop's own test ends it.                                       *)
FairSpec ==
  /\ Spec /\ WF_vars(DiagStarts)
  /\ WF_vars(MainSeesEnd) /\ WF_vars(WatchdogWakes) /\ WF_vars(Joins) /\ WF_vars(Closes)
  /\ \A t \in {"main", "other"} : WF_vars(Reads(t)) /\ WF_vars(StopCall(t))

-----------------------------------------------------------------------------
(* Types of the state. *)
TypeOK ==
  /\ kind \in Kinds /\ program \in Programs
  /\ stopping \in BOOLEAN /\ fd \in BOOLEAN /\ running \in BOOLEAN
  /\ gone \in BOOLEAN /\ twice \in BOOLEAN
  /\ socket \in {"none", "open", "shut", "closed"} /\ handle \in {"none", "open", "closed"}
  /\ main \in {"open", "startup", "spawn", "initial", "round", "test", "read", "quit",
               "quit shutdown", "quit closing", "quit forget",
               "stop", "shutdown", "closing", "forget", "join", "close", "done"}
  /\ other \in {"none", "test", "read", "sleep", "stop", "shutdown", "closing", "forget", "done"}
  /\ result \in {0, 1} /\ dumped \in 0 .. Packets

(* No thread is inside a USB transfer, or may begin one, when the handle   *)
(* has been closed; libusb_close does not wait for it.                     *)
HandleAlive == handle = "closed" => other \in {"none", "done"} /\ main = "done"

(* A program that has ended has released its connection, by whichever of   *)
(* its exits and whoever requested the stop.                               *)
NothingOpen == main = "done" => socket \in {"none", "closed"} /\ handle \in {"none", "closed"} /\ ~fd

(* The stop may be requested by two threads at once, and then a descriptor *)
(* may be closed a second time.  But that takes two threads inside         *)
(* request_stop: a descriptor that is left over when one of them has       *)
(* returned is never a closed one, so the close at the end of the program  *)
(* does not hit a descriptor that belongs to somebody else by then.        *)
NoStaleFd ==
  fd /\ socket = "closed" =>
    \E t \in {"main", "other"} : At(t) \in {"closing", "forget", "quit closing", "quit forget"}

(* Whoever requests the stop, the connection is released once the program  *)
(* ends, and nobody uses what was closed.                                  *)
StopSound == TypeOK /\ HandleAlive /\ NothingOpen /\ NoStaleFd

(* Once a stop was requested, whoever reads is woken up and the program    *)
(* ends, even if nothing arrives any more.                                 *)
StopEnds == stopping ~> main = "done"

(* A dump ends after diag_seconds even if nothing ever arrives. *)
DiagEnds == (program = "diag" /\ other = "sleep") ~> main = "done"
=============================================================================
