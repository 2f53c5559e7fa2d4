------------------------- MODULE Wsh264SourceProofs -------------------------
(***************************************************************************)
(* One connection of wsh264, for any number of threads, commands, units    *)
(* and faults, however its threads interleave: video gives way to exactly  *)
(* the audio packets that are under way, and the receiver gets crypto_init *)
(* first and the packets in the order of their numbers.                    *)
(*                                                                         *)
(* When only video is asked for, the app is not freed before its last use, *)
(* and the fragments of a frame follow each other.  With audio these two   *)
(* would need changes of app->state that cannot overtake each other.       *)
(***************************************************************************)
EXTENDS Wsh264Source, FiniteSetTheorems, SequenceTheorems, TLAPS

(* Where a streaming thread may be, and the record it is.                  *)
ThreadPc == {"none", "start", "test", "prio", "lock", "send", "sent", "failed",
             "load1", "store1", "load2", "store2", "done"}
ThreadRec == [stream : {"video", "audio"}, pc : ThreadPc, loaded : SUBSET Flag, seq : Nat,
              id : Nat, index : Nat, count : Nat]

(* What goes over the wire. *)
Plain  == [kind : {"reply", "init"}]
Coded  == [kind : {"video", "audio"}, seq : Nat, id : Nat, index : Nat, count : Nat]
Packet == Plain \cup Coded

(* The callback thread; only the two streams are started.                  *)
FitJob == ({"stop", "flag", "reply", "free"} \X {"video", "video2", "audio"})
            \cup ({"start"} \X {"video", "audio"})
ControlRec == [pc : {"idle", "store", "create", "wait"}, todo : Seq(FitJob), loaded : SUBSET Flag]

Flags == freed \in BOOLEAN /\ cryptoSent \in BOOLEAN

Threads ==
  /\ threads \in [Thread -> ThreadRec]
  /\ \A i \in Thread : threads[i].index \in 1 .. threads[i].count

Control ==
  /\ control \in ControlRec /\ state \subseteq Flag
  /\ control.pc # "idle" => control.todo # <<>>
  /\ control.pc = "store" => Work[1] \in {"start", "stop", "flag"}
  /\ control.pc = "create" => Work[1] = "start"
  /\ control.pc = "wait" => Work[1] = "stop"

Numbers ==
  /\ pending \in Nat /\ txLock \in {0} \cup Thread /\ mediaSeq \in Nat
  /\ units \in 0 .. MaxUnits /\ frameId \in 0 .. units /\ wire \in Seq(Packet)

(* The threads are created one after the other. *)
Created == \E m \in 0 .. MaxThreads : Used = 1 .. m

(* The threads with an audio packet under way. *)
Urgent == {i \in Thread : IsAudio(i) /\ threads[i].pc \in {"lock", "send", "sent", "failed"}}

Types == Flags /\ Threads /\ Control /\ Numbers

-----------------------------------------------------------------------------
(* The parts of a job. *)
LEMMA JobParts ==
  ASSUME NEW j \in FitJob
  PROVE  /\ j \in Job /\ j[1] \in {"start", "stop", "flag", "reply", "free"}
         /\ j[2] \in {"video", "video2", "audio"} /\ j = <<j[1], j[2]>>
         /\ j[1] = "start" => j[2] \in {"video", "audio"}
  <1>1. CASE j \in {"start"} \X {"video", "audio"}
    <2>1. PICK s \in {"video", "audio"} : j = <<"start", s>>
      BY <1>1
    <2>2. QED
      BY <2>1 DEF Job
  <1>2. CASE j \in {"stop", "flag", "reply", "free"} \X {"video", "video2", "audio"}
    <2>1. PICK f \in {"stop", "flag", "reply", "free"}, s \in {"video", "video2", "audio"} : j = <<f, s>>
      BY <1>2
    <2>2. QED
      BY <2>1 DEF Job
  <1>3. QED
    BY <1>1, <1>2 DEF FitJob

(* A command is a job that may be done. *)
LEMMA CommandJobs ==
  ASSUME NEW c \in Commands
  PROVE  c \in FitJob
  <1>1. CASE c \in {"start", "stop"} \X Streams
    <2>1. PICK f \in {"start", "stop"}, s \in Streams : c = <<f, s>>
      BY <1>1
    <2>2. s \in {"video", "audio"}
      BY SourceAssumption
    <2>3. QED
      BY <2>1, <2>2 DEF FitJob
  <1>2. CASE c = <<"flag", "video2">> \/ c = <<"reply", "video">>
    BY <1>2 DEF FitJob
  <1>3. QED
    BY <1>1, <1>2 DEF Commands

(* The jobs of onclose. *)
LEMMA CloseJobsFit == CloseJobs \in Seq(FitJob)
  BY DEF CloseJobs, FitJob

(* The flags are in the set of flags. *)
LEMMA FlagsOf ==
  ASSUME NEW s \in {"video", "video2", "audio"}
  PROVE  Streaming(s) \in Flag /\ Closing(s) \in Flag
  BY DEF Streaming, Closing, Flag

(* Creating one more thread continues the numbering (pthread_create); when *)
(* all numbers are used nothing changes.                                   *)
LEMMA NextThread ==
  ASSUME Created
  PROVE  /\ Cardinality(Used) \in 0 .. MaxThreads /\ Used = 1 .. Cardinality(Used)
         /\ Cardinality(Used) + 1 \notin Used
  <1>1. PICK m \in 0 .. MaxThreads : Used = 1 .. m
    BY DEF Created
  <1>2. Cardinality(1 .. m) = m
    BY <1>1, FS_Interval, SourceAssumption
  <1>3. QED
    BY <1>1, <1>2, SourceAssumption

-----------------------------------------------------------------------------
(* A finished job leaves the rest of the list. *)
Finished == control' = [control EXCEPT !.todo = Tail(@), !.pc = "idle"]

(* What the list holds, and what is left of it. *)
LEMMA TodoParts ==
  ASSUME Control, control.todo # <<>>
  PROVE  /\ Work \in FitJob /\ control.todo \in Seq(FitJob) /\ Tail(control.todo) \in Seq(FitJob)
         /\ Finished => /\ control' \in ControlRec /\ control'.pc = "idle"
                        /\ control'.todo = Tail(control.todo)
  <1>1. control \in ControlRec /\ control.todo \in Seq(FitJob)
    BY DEF Control, ControlRec
  <1>2. Work \in FitJob /\ Tail(control.todo) \in Seq(FitJob)
    BY <1>1 DEF Work
  <1>3. ASSUME Finished
        PROVE  /\ control' \in ControlRec /\ control'.pc = "idle"
               /\ control'.todo = Tail(control.todo)
    BY <1>1, <1>2, <1>3 DEF ControlRec, Finished
  <1>4. QED
    BY <1>1, <1>2, <1>3

(* The actions of the callback thread keep the types. *)
LEMMA ControlTypes ==
  ASSUME Control, ControlReceives \/ ControlNext
  PROVE  Control'
  <1>1. control \in ControlRec /\ state \subseteq Flag
    BY DEF Control
  <1>2. CASE ControlReceives
    <2>1. control.pc = "idle" /\ state' = state
      BY <1>2 DEF ControlReceives, Control
    <2>2. \/ \E c \in Commands : control' = [control EXCEPT !.todo = <<c>>]
          \/ control' = [control EXCEPT !.todo = CloseJobs]
      BY <1>2, Zenon DEF ControlReceives
    <2>3. PICK todo \in Seq(FitJob) : control' = [control EXCEPT !.todo = todo]
      <3>1. CASE \E c \in Commands : control' = [control EXCEPT !.todo = <<c>>]
        <4>1. PICK c \in Commands : control' = [control EXCEPT !.todo = <<c>>]
          BY <3>1
        <4>2. <<c>> \in Seq(FitJob)
          BY CommandJobs
        <4>3. QED
          BY <4>1, <4>2
      <3>2. CASE control' = [control EXCEPT !.todo = CloseJobs]
        BY <3>2, CloseJobsFit
      <3>3. QED
        BY <2>2, <3>1, <3>2
    <2>4. control' \in ControlRec /\ control'.pc = "idle"
      BY <1>1, <2>1, <2>3 DEF ControlRec
    <2>5. QED
      BY <1>1, <2>1, <2>4 DEF Control
  <1>3. CASE ControlNext
    <2>1. CASE Finished
      <3>1. control.todo # <<>> /\ (state' = state \/ state' = control.loaded)
        BY <1>3, <2>1 DEF ControlNext, ControlLoads, ControlStores, ControlCreates, ControlWaits,
                          ControlReplies, ControlFrees, Control, counters, link
      <3>2. control' \in ControlRec /\ control'.pc = "idle" /\ state' \subseteq Flag
        BY <1>1, <2>1, <3>1, TodoParts DEF ControlRec
      <3>3. QED
        BY <3>2 DEF Control
    <2>2. CASE ~Finished /\ ControlLoads
      <3>1. /\ control.todo # <<>> /\ Work[1] \notin {"free", "reply"} /\ state' = state
            /\ control' = [control EXCEPT !.pc = "store", !.loaded = Changed(state)]
        BY <2>2 DEF ControlLoads, Finished, Next1
      <3>2. Work \in FitJob /\ control.todo \in Seq(FitJob)
        BY <3>1, TodoParts
      <3>3. Work[1] \in {"start", "stop", "flag"} /\ Changed(state) \subseteq Flag
        BY <1>1, <3>1, <3>2, JobParts, FlagsOf DEF Changed, Stream
      <3>4. /\ control' \in ControlRec /\ control'.pc = "store" /\ control'.todo = control.todo
        BY <1>1, <3>1, <3>3 DEF ControlRec
      <3>5. QED
        BY <1>1, <3>1, <3>3, <3>4 DEF Control, Work
    <2>3. CASE ~Finished /\ ControlStores
      <3>1. /\ control.todo # <<>> /\ state' = control.loaded
            /\ \/ Work[1] = "start" /\ control' = [control EXCEPT !.pc = "create"]
               \/ Work[1] = "stop" /\ control' = [control EXCEPT !.pc = "wait"]
        BY <2>3 DEF ControlStores, Finished, Next1, Control
      <3>2. /\ control' \in ControlRec /\ control'.todo = control.todo /\ state' \subseteq Flag
            /\ \/ Work[1] = "start" /\ control'.pc = "create"
               \/ Work[1] = "stop" /\ control'.pc = "wait"
        BY <1>1, <3>1 DEF ControlRec
      <3>3. QED
        BY <3>1, <3>2 DEF Control, Work
    <2>4. QED
      BY <1>3, <2>1, <2>2, <2>3 DEF ControlNext, ControlCreates, ControlWaits, ControlReplies,
                                    ControlFrees, Finished, Next1
  <1>4. QED
    BY <1>2, <1>3

(* What the actions of a streaming thread have in common: they change the  *)
(* record of their own thread, which neither appears nor disappears by it, *)
(* and the flags only when it ends.                                        *)
Changes(i, rec) ==
  /\ i \in Thread /\ threads[i].pc # "none" /\ threads' = [threads EXCEPT ![i] = rec]
  /\ rec \in ThreadRec /\ rec.pc # "none" /\ rec.stream = threads[i].stream
  /\ rec.index \in 1 .. rec.count
  /\ freed' = freed /\ control' = control
  /\ state' = state \/ state' = threads[i].loaded

(* Each of them does. *)
LEMMA ThreadChanges ==
  ASSUME Threads, Numbers, Control, NEW i \in Thread, ThreadNext(i)
  PROVE  \E rec \in ThreadRec : Changes(i, rec)
  <1> DEFINE t == threads[i]
  <1>1. t \in ThreadRec /\ t.index \in 1 .. t.count /\ threads \in [Thread -> ThreadRec]
        /\ t.count \in Nat /\ t.index \in Nat /\ state \subseteq Flag
    BY DEF Threads, Control, ThreadRec
  <1>2. ASSUME NEW pc \in ThreadPc \ {"none"}, Goto(i, pc), t.pc # "none", freed' = freed,
               control' = control, state' = state \/ state' = t.loaded
        PROVE  \E rec \in ThreadRec : Changes(i, rec)
    <2> DEFINE rec == [t EXCEPT !.pc = pc]
    <2>1. /\ rec \in ThreadRec /\ rec.pc = pc /\ rec.stream = t.stream /\ rec.index = t.index
          /\ rec.count = t.count
      BY <1>1 DEF ThreadRec
    <2>2. threads' = [threads EXCEPT ![i] = rec]
      BY <1>2 DEF Goto
    <2>3. QED
      BY <1>1, <1>2, <2>1, <2>2 DEF Changes
  <1>3. CASE ThreadStarts(i)
    BY <1>2, <1>3 DEF ThreadStarts, At, ThreadPc
  <1>4. CASE ThreadTests(i)
    <2>1. CASE Goto(i, "load1")
      BY <1>2, <1>4, <2>1 DEF ThreadTests, At, ThreadPc
    <2>2. CASE ~Goto(i, "load1")
      <3>1. PICK count \in {1} \cup FragCounts :
              threads' = [threads EXCEPT ![i].pc = "prio", ![i].index = 1,
                                         ![i].count = count, ![i].id = frameId]
        BY <1>4, <2>2 DEF ThreadTests
      <3> DEFINE rec == [t EXCEPT !.pc = "prio", !.index = 1, !.count = count, !.id = frameId]
      <3>2. count \in Nat \ {0} /\ frameId \in Nat
        BY SourceAssumption DEF Numbers
      <3>3. rec \in ThreadRec /\ rec.pc = "prio" /\ rec.stream = t.stream /\ rec.index = 1 /\ rec.count = count
        BY <1>1, <3>2 DEF ThreadRec, ThreadPc
      <3>4. threads' = [threads EXCEPT ![i] = rec]
        BY <1>1, <3>1
      <3> HIDE DEF rec
      <3>5. t.pc = "test" /\ freed' = freed /\ control' = control /\ state' = state
        BY <1>4 DEF ThreadTests, At
      <3>6. Changes(i, rec)
        BY <1>1, <3>2, <3>3, <3>4, <3>5 DEF Changes
      <3>7. QED
        BY <3>3, <3>6
    <2>3. QED
      BY <2>1, <2>2
  <1>5. CASE ThreadTakesPriority(i)
    BY <1>2, <1>5 DEF ThreadTakesPriority, At, ThreadPc
  <1>6. CASE ThreadLocks(i)
    <2>1. CASE Goto(i, "failed")
      BY <1>2, <1>6, <2>1 DEF ThreadLocks, At, ThreadPc
    <2>2. CASE ~Goto(i, "failed")
      <3>1. threads' = [threads EXCEPT ![i].pc = "send", ![i].seq = mediaSeq]
        BY <1>6, <2>2 DEF ThreadLocks
      <3> DEFINE rec == [t EXCEPT !.pc = "send", !.seq = mediaSeq]
      <3>2. rec \in ThreadRec /\ rec.pc = "send" /\ rec.stream = t.stream /\ rec.index = t.index
            /\ rec.count = t.count
        BY <1>1 DEF ThreadRec, ThreadPc, Numbers
      <3>3. threads' = [threads EXCEPT ![i] = rec]
        BY <1>1, <3>1
      <3>4. QED
        BY <1>1, <1>6, <3>2, <3>3 DEF Changes, ThreadLocks, At
    <2>3. QED
      BY <2>1, <2>2
  <1>7. CASE ThreadSends(i)
    BY <1>2, <1>7 DEF ThreadSends, At, ThreadPc
  <1>8. CASE ThreadGivesBack(i)
    <2>1. CASE Goto(i, "test")
      BY <1>2, <1>8, <2>1 DEF ThreadGivesBack, At, ThreadPc
    <2>2. CASE ~Goto(i, "test")
      <3>1. t.index < t.count /\ threads' = [threads EXCEPT ![i].pc = "prio", ![i].index = @ + 1]
        BY <1>8, <2>2 DEF ThreadGivesBack, Goto
      <3> DEFINE rec == [t EXCEPT !.pc = "prio", !.index = @ + 1]
      <3>2. rec \in ThreadRec /\ rec.pc = "prio" /\ rec.stream = t.stream /\ rec.index = t.index + 1
            /\ rec.count = t.count
        <4>1. t.index + 1 \in Nat
          BY <1>1
        <4>2. QED
          BY <1>1, <4>1 DEF ThreadRec, ThreadPc
      <3>3. threads' = [threads EXCEPT ![i] = rec]
        BY <1>1, <3>1
      <3> HIDE DEF rec
      <3>4. t.pc # "none" /\ freed' = freed /\ control' = control /\ state' = state
        BY <1>8 DEF ThreadGivesBack, At
      <3>5. rec.index \in 1 .. rec.count /\ rec.pc # "none"
        <4>1. t.index < t.count
          BY <3>1
        <4> HIDE DEF t
        <4>2. QED
          BY <1>1, <3>2, <4>1
      <3>6. Changes(i, rec)
        BY <1>1, <3>2, <3>3, <3>4, <3>5 DEF Changes
      <3>7. QED
        BY <3>2, <3>6
    <2>3. QED
      BY <2>1, <2>2
  <1>9. CASE ThreadLoads(i)
    <2>1. PICK pc \in {"load1", "load2"} :
            /\ At(i, pc)
            /\ threads' = [threads EXCEPT ![i].pc = IF pc = "load1" THEN "store1" ELSE "store2",
                                          ![i].loaded = state \ {Cleared(i, pc)}]
      BY <1>9 DEF ThreadLoads
    <2> DEFINE rec == [t EXCEPT !.pc = IF pc = "load1" THEN "store1" ELSE "store2",
                                !.loaded = state \ {Cleared(i, pc)}]
    <2>2. rec \in ThreadRec /\ rec.pc \in {"store1", "store2"} /\ rec.stream = t.stream
          /\ rec.index = t.index /\ rec.count = t.count
      BY <1>1 DEF ThreadRec, ThreadPc
    <2>3. threads' = [threads EXCEPT ![i] = rec]
      BY <1>1, <2>1
    <2>4. QED
      BY <1>1, <1>9, <2>1, <2>2, <2>3 DEF Changes, ThreadLoads, At
  <1>10. CASE ThreadStores(i)
    BY <1>2, <1>10 DEF ThreadStores, At, ThreadPc
  <1>11. QED
    BY <1>3, <1>4, <1>5, <1>6, <1>7, <1>8, <1>9, <1>10 DEF ThreadNext

(* Where each action of a thread leads, and what it makes of the record.   *)
SamePacket(t, u) == u.id = t.id /\ u.index = t.index /\ u.count = t.count

Moves(i, t, u) ==
  /\ ThreadStarts(i) => t.pc = "start" /\ u.pc \in {"test", "done"}
  /\ ThreadTests(i) => t.pc = "test" /\ (u.pc = "load1" \/ (u.pc = "prio" /\ u.index = 1))
  /\ ThreadTakesPriority(i) => t.pc = "prio" /\ u.pc = "lock" /\ SamePacket(t, u)
  /\ ThreadLocks(i) => t.pc = "lock" /\ u.pc \in {"send", "failed"} /\ SamePacket(t, u)
  /\ ThreadSends(i) => t.pc = "send" /\ u.pc \in {"sent", "failed"} /\ SamePacket(t, u)
  /\ ThreadGivesBack(i) =>
       \/ t.pc \in {"sent", "failed"} /\ u.pc = "test"
       \/ t.pc = "sent" /\ u.pc = "prio" /\ u.id = t.id /\ u.index = t.index + 1 /\ u.count = t.count
  /\ ThreadLoads(i) =>
       \/ t.pc = "load1" /\ u.pc = "store1" /\ u.loaded = state \ {Cleared(i, "load1")}
       \/ t.pc = "load2" /\ u.pc = "store2" /\ u.loaded = state \ {Cleared(i, "load2")}
  /\ ThreadStores(i) =>
       \/ t.pc = "store1" /\ u.pc = "load2"
       \/ t.pc = "store2" /\ u.pc = "done"

LEMMA ThreadMoves ==
  ASSUME Threads, NEW i \in Thread
  PROVE  Moves(i, threads[i], threads'[i])
  <1> DEFINE t == threads[i]
             u == threads'[i]
  <1>1. threads \in [Thread -> ThreadRec] /\ t \in ThreadRec
    BY DEF Threads
  <1>2. ASSUME NEW pc, Goto(i, pc)
        PROVE  u.pc = pc /\ SamePacket(t, u)
    BY <1>1, <1>2 DEF Goto, ThreadRec, SamePacket
  <1>3. ThreadStarts(i) => t.pc = "start" /\ u.pc \in {"test", "done"}
    BY <1>2 DEF ThreadStarts, At
  <1>4. ThreadTests(i) => t.pc = "test" /\ (u.pc = "load1" \/ (u.pc = "prio" /\ u.index = 1))
    <2>1. SUFFICES ASSUME ThreadTests(i)
                   PROVE  t.pc = "test" /\ (u.pc = "load1" \/ (u.pc = "prio" /\ u.index = 1))
      OBVIOUS
    <2>2. t.pc = "test"
      BY <2>1 DEF ThreadTests, At
    <2>3. CASE Goto(i, "load1")
      BY <1>2, <2>2, <2>3
    <2>4. CASE ~Goto(i, "load1")
      <3>1. PICK count \in {1} \cup FragCounts :
              threads' = [threads EXCEPT ![i].pc = "prio", ![i].index = 1,
                                         ![i].count = count, ![i].id = frameId]
        BY <2>1, <2>4 DEF ThreadTests
      <3>2. u.pc = "prio" /\ u.index = 1
        BY <1>1, <3>1 DEF ThreadRec
      <3>3. QED
        BY <2>2, <3>2
    <2>5. QED
      BY <2>3, <2>4
  <1>5. ThreadTakesPriority(i) => t.pc = "prio" /\ u.pc = "lock" /\ SamePacket(t, u)
    BY <1>2 DEF ThreadTakesPriority, At
  <1>6. ThreadLocks(i) => t.pc = "lock" /\ u.pc \in {"send", "failed"} /\ SamePacket(t, u)
    <2>1. threads' = [threads EXCEPT ![i].pc = "send", ![i].seq = mediaSeq] =>
            u.pc = "send" /\ SamePacket(t, u)
      BY <1>1 DEF ThreadRec, SamePacket
    <2>2. QED
      BY <1>2, <2>1 DEF ThreadLocks, At
  <1>7. ThreadSends(i) => t.pc = "send" /\ u.pc \in {"sent", "failed"} /\ SamePacket(t, u)
    BY <1>2 DEF ThreadSends, At
  <1>8. ThreadGivesBack(i) =>
          \/ t.pc \in {"sent", "failed"} /\ u.pc = "test"
          \/ t.pc = "sent" /\ u.pc = "prio" /\ u.id = t.id /\ u.index = t.index + 1 /\ u.count = t.count
    <2>1. threads' = [threads EXCEPT ![i].pc = "prio", ![i].index = @ + 1] =>
            u.pc = "prio" /\ u.id = t.id /\ u.index = t.index + 1 /\ u.count = t.count
      BY <1>1 DEF ThreadRec
    <2>2. ThreadGivesBack(i) =>
            \/ t.pc \in {"sent", "failed"} /\ Goto(i, "test")
            \/ t.pc = "sent" /\ threads' = [threads EXCEPT ![i].pc = "prio", ![i].index = @ + 1]
      BY DEF ThreadGivesBack, At, Goto
    <2>3. QED
      BY <1>2, <2>1, <2>2
  <1>9. ThreadLoads(i) =>
          \/ t.pc = "load1" /\ u.pc = "store1" /\ u.loaded = state \ {Cleared(i, "load1")}
          \/ t.pc = "load2" /\ u.pc = "store2" /\ u.loaded = state \ {Cleared(i, "load2")}
    <2>1. ASSUME NEW pc \in {"load1", "load2"}, t.pc = pc,
                 threads' = [threads EXCEPT ![i].pc = IF pc = "load1" THEN "store1" ELSE "store2",
                                            ![i].loaded = state \ {Cleared(i, pc)}]
          PROVE  u.pc = (IF pc = "load1" THEN "store1" ELSE "store2") /\ u.loaded = state \ {Cleared(i, pc)}
      BY <1>1, <2>1 DEF ThreadRec
    <2>2. ThreadLoads(i) =>
            \E pc \in {"load1", "load2"} :
              /\ t.pc = pc
              /\ threads' = [threads EXCEPT ![i].pc = IF pc = "load1" THEN "store1" ELSE "store2",
                                            ![i].loaded = state \ {Cleared(i, pc)}]
      BY DEF ThreadLoads, At
    <2>3. QED
      BY <2>1, <2>2
  <1>10. ThreadStores(i) =>
           \/ t.pc = "store1" /\ u.pc = "load2"
           \/ t.pc = "store2" /\ u.pc = "done"
    BY <1>2 DEF ThreadStores, At
  <1>11. QED
    BY <1>3, <1>4, <1>5, <1>6, <1>7, <1>8, <1>9, <1>10 DEF Moves

(* A thread's own step keeps the types, and which threads there are.       *)
LEMMA ChangesKept ==
  ASSUME Threads, NEW i, NEW rec, Changes(i, rec)
  PROVE  /\ Threads' /\ Used' = Used /\ threads'[i] = rec
         /\ \A j \in Thread \ {i} : threads'[j] = threads[j]
         /\ \A j \in Thread : IsAudio(j)' = IsAudio(j)
  <1>1. /\ threads'[i] = rec /\ \A j \in Thread \ {i} : threads'[j] = threads[j]
        /\ threads' \in [Thread -> ThreadRec] /\ i \in Thread
    BY DEF Changes, Threads
  <1>2. Threads'
    BY <1>1 DEF Changes, Threads
  <1>3. Used' = Used
    BY <1>1 DEF Changes, Used
  <1>4. \A j \in Thread : threads'[j].stream = threads[j].stream
    BY <1>1 DEF Changes
  <1>5. QED
    BY <1>1, <1>2, <1>3, <1>4 DEF IsAudio

(* pthread_create starts a new thread, or none when the bound is reached.  *)
LEMMA CreatesThread ==
  ASSUME Threads, Control, Created, ControlCreates
  PROVE  /\ Threads' /\ Created'
         /\ \/ threads' = threads /\ Used = Thread
            \/ \E n \in Thread :
                 /\ threads[n].pc = "none" /\ Used' = Used \cup {n} /\ threads'[n].pc = "start"
                 /\ threads'[n].stream = Stream /\ threads'[n].index = 1
                 /\ \A j \in Thread \ {n} : threads'[j] = threads[j]
  <1> DEFINE n == Cardinality(Used) + 1
             rec == [NoThread EXCEPT !.stream = Stream, !.pc = "start"]
  <1>1. Cardinality(Used) \in 0 .. MaxThreads /\ Used = 1 .. Cardinality(Used) /\ n \notin Used
    BY NextThread
  <1>2. threads' = [threads EXCEPT ![n] = rec]
    BY DEF ControlCreates
  <1>3. Stream \in {"video", "audio"}
    BY TodoParts, JobParts DEF ControlCreates, Control, Stream
  <1>4. rec \in ThreadRec /\ rec.pc = "start" /\ rec.stream = Stream /\ rec.index = 1 /\ rec.count = 1
    BY <1>3 DEF NoThread, ThreadRec, ThreadPc
  <1> HIDE DEF rec
  <1>5. CASE n \in Thread
    <2>1. threads[n].pc = "none"
      BY <1>1, <1>5 DEF Used
    <2>2. /\ threads' \in [Thread -> ThreadRec] /\ threads'[n] = rec
          /\ \A j \in Thread \ {n} : threads'[j] = threads[j]
      BY <1>2, <1>4, <1>5 DEF Threads
    <2>3. Used' = Used \cup {n}
      BY <1>4, <1>5, <2>2 DEF Used
    <2>4. Threads'
      BY <1>4, <2>2 DEF Threads
    <2>5. Created'
      <3>1. n \in 0 .. MaxThreads
        BY <1>1, <1>5, SourceAssumption DEF Thread
      <3>2. Used' = 1 .. n
        BY <1>1, <2>3, SourceAssumption
      <3>3. QED
        BY <3>1, <3>2 DEF Created
    <2>6. QED
      BY <1>4, <1>5, <2>1, <2>2, <2>3, <2>4, <2>5
  <1>6. CASE n \notin Thread
    <2>1. threads' = threads
      BY <1>2, <1>6 DEF Threads
    <2>2. Used = Thread
      BY <1>1, <1>6, SourceAssumption DEF Thread
    <2>3. QED
      BY <2>1, <2>2 DEF Threads, Created, Used
  <1>7. QED
    BY <1>5, <1>6

(* An answer, or the first frame, is a packet; so is what a thread sends.  *)
LEMMA Packets ==
  /\ [kind |-> "reply"] \in Packet /\ [kind |-> "init"] \in Packet
  /\ \A t \in ThreadRec : [kind |-> t.stream, seq |-> t.seq, id |-> t.id, index |-> t.index,
                            count |-> t.count] \in Packet
  BY DEF Packet, Plain, Coded, ThreadRec

(* The counters and the wire. *)
LEMMA NumbersStay ==
  ASSUME Types, [Next]_vars
  PROVE  Numbers'
  <1> USE SourceAssumption DEF Types, Numbers, counters, link
  <1>1. CASE UNCHANGED vars
    BY <1>1 DEF vars
  <1>2. CASE ControlReceives \/ ControlLoads \/ ControlStores \/ ControlCreates \/ ControlWaits \/ ControlFrees
    BY <1>2 DEF ControlReceives, ControlLoads, ControlStores, ControlCreates, ControlWaits, ControlFrees
  <1>3. CASE ControlReplies
    BY <1>3, Packets DEF ControlReplies
  <1>4. ASSUME NEW i \in Thread, ThreadNext(i) PROVE Numbers'
    <2>1. CASE ThreadStarts(i) \/ ThreadLoads(i) \/ ThreadStores(i)
      BY <2>1 DEF ThreadStarts, ThreadLoads, ThreadStores
    <2>2. CASE ThreadTests(i)
      <3>1. \/ units' = units /\ frameId' = frameId
            \/ units < MaxUnits /\ units' = units + 1 /\ frameId' \in {frameId, frameId + 1}
        BY <2>2 DEF ThreadTests
      <3>2. units' \in 0 .. MaxUnits /\ frameId' \in 0 .. units'
        BY <3>1
      <3>3. QED
        BY <2>2, <3>2 DEF ThreadTests
    <2>3. CASE ThreadTakesPriority(i) \/ ThreadGivesBack(i)
      BY <2>3 DEF ThreadTakesPriority, ThreadGivesBack
    <2>4. CASE ThreadLocks(i)
      <3>1. wire' \in Seq(Packet)
        <4>1. wire' = wire \/ wire' = Append(wire, [kind |-> "init"])
          BY <2>4, Zenon DEF ThreadLocks
        <4>2. QED
          BY <4>1, Packets
      <3>2. QED
        BY <2>4, <3>1, SMTT(30) DEF ThreadLocks
    <2>5. CASE ThreadSends(i)
      <3>1. threads[i] \in ThreadRec
        BY DEF Threads
      <3>2. wire' \in Seq(Packet)
        BY <2>5, <3>1, Packets DEF ThreadSends
      <3>3. QED
        BY <2>5, <3>2 DEF ThreadSends
    <2>6. QED
      BY <1>4, <2>1, <2>2, <2>3, <2>4, <2>5 DEF ThreadNext
  <1>5. QED
    BY <1>1, <1>2, <1>3, <1>4 DEF Next, ControlNext, Ended

(* The types and the creation order together. *)
LEMMA TypesStay ==
  ASSUME Types, Created, [Next]_vars
  PROVE  Types' /\ Created'
  <1>1. Numbers'
    BY NumbersStay
  <1>2. Flags'
    <2>1. CASE UNCHANGED vars
      BY <2>1, Zenon DEF vars, link, Types, Flags
    <2>2. CASE ControlReceives \/ ControlNext
      BY <2>2, Zenon DEF ControlReceives, ControlNext, ControlLoads, ControlStores, ControlCreates,
                        ControlWaits, ControlReplies, ControlFrees, link, Types, Flags
    <2>3. ASSUME NEW i \in Thread, ThreadNext(i) PROVE Flags'
      BY <2>3, Zenon DEF ThreadNext, ThreadStarts, ThreadTests, ThreadTakesPriority, ThreadLocks,
                        ThreadSends, ThreadGivesBack, ThreadLoads, ThreadStores, link, Types, Flags
    <2>4. QED
      BY <2>1, <2>2, <2>3 DEF Next, Ended
  <1>3. CASE UNCHANGED vars
    BY <1>1, <1>2, <1>3 DEF vars, Types, Threads, Control, Created, Used, Work
  <1>4. CASE ControlReceives \/ ControlNext
    <2>1. Control'
      BY <1>4, ControlTypes DEF Types
    <2>2. Threads' /\ Created'
      <3>1. CASE ControlCreates
        BY <3>1, CreatesThread DEF Types
      <3>2. CASE ~ControlCreates
        <4>1. threads' = threads
          BY <1>4, <3>2 DEF ControlReceives, ControlNext, ControlLoads, ControlStores, ControlWaits,
                            ControlReplies, ControlFrees
        <4>2. QED
          BY <4>1 DEF Types, Threads, Created, Used
      <3>3. QED
        BY <3>1, <3>2
    <2>3. QED
      BY <1>1, <1>2, <2>1, <2>2 DEF Types
  <1>5. ASSUME NEW i \in Thread, ThreadNext(i) PROVE Types' /\ Created'
    <2>1. PICK rec \in ThreadRec : Changes(i, rec)
      BY <1>5, ThreadChanges DEF Types
    <2>2. Threads' /\ Used' = Used
      BY <2>1, ChangesKept DEF Types
    <2>3. state' \subseteq Flag /\ control' = control
      BY <2>1 DEF Changes, Types, Threads, Control, ThreadRec
    <2>4. Control'
      BY <2>3 DEF Types, Control, Work
    <2>5. QED
      BY <1>1, <1>2, <2>2, <2>4 DEF Types, Created
  <1>6. QED
    BY <1>3, <1>4, <1>5 DEF Next, Ended

-----------------------------------------------------------------------------
(* The threads with an audio packet under way are few. *)
LEMMA UrgentFinite == IsFiniteSet(Urgent) /\ Cardinality(Urgent) \in 0 .. MaxThreads
  <1>1. IsFiniteSet(1 .. MaxThreads) /\ Cardinality(1 .. MaxThreads) = MaxThreads
    BY FS_Interval, SourceAssumption
  <1>2. Urgent \subseteq 1 .. MaxThreads
    BY DEF Urgent, Thread
  <1>3. IsFiniteSet(Urgent) /\ Cardinality(Urgent) <= Cardinality(1 .. MaxThreads)
    BY <1>1, <1>2, FS_Subset
  <1>4. QED
    BY <1>1, <1>3, FS_CardinalityType, SourceAssumption

(* Only begin_ and end_audio_priority change the number that video gives   *)
(* way to, and the set of the packets it stands for, together.             *)
LEMMA BalanceKept ==
  ASSUME Types, Created, PriorityBalanced, [Next]_vars
  PROVE  PriorityBalanced'
  <1>1. pending = Cardinality(Urgent) /\ (Urgent' = Urgent /\ pending' = pending => PriorityBalanced')
    BY DEF PriorityBalanced, Urgent
  <1>2. CASE UNCHANGED vars
    BY <1>1, <1>2 DEF vars, link, Urgent, IsAudio
  <1>3. CASE ControlReceives \/ ControlNext
    <2>1. pending' = pending
      BY <1>3 DEF ControlReceives, ControlNext, ControlLoads, ControlStores, ControlCreates,
                  ControlWaits, ControlReplies, ControlFrees, link
    <2>2. Urgent' = Urgent
      <3>1. CASE threads' = threads
        BY <3>1 DEF Urgent, IsAudio
      <3>2. CASE threads' # threads
        <4>1. PICK n \in Thread : /\ threads[n].pc = "none" /\ threads'[n].pc = "start"
                                  /\ \A j \in Thread \ {n} : threads'[j] = threads[j]
          BY <1>3, <3>2, CreatesThread
          DEF ControlReceives, ControlNext, ControlLoads, ControlStores, ControlWaits,
              ControlReplies, ControlFrees, Types
        <4>2. QED
          BY <4>1 DEF Urgent, IsAudio
      <3>3. QED
        BY <3>1, <3>2
    <2>3. QED
      BY <1>1, <2>1, <2>2
  <1>4. ASSUME NEW i \in Thread, ThreadNext(i) PROVE PriorityBalanced'
    <2>1. PICK rec \in ThreadRec : Changes(i, rec)
      BY <1>4, ThreadChanges DEF Types
    <2>2. /\ threads'[i] = rec /\ \A j \in Thread \ {i} : threads'[j] = threads[j]
          /\ \A j \in Thread : IsAudio(j)' = IsAudio(j)
      BY <2>1, ChangesKept DEF Types
    <2>3. threads[i] \in ThreadRec /\ threads \in [Thread -> ThreadRec]
      BY DEF Types, Threads
    <2> DEFINE under(pc) == pc \in {"lock", "send", "sent", "failed"}
    <2>4. ASSUME pending' = pending, under(rec.pc) <=> under(threads[i].pc) PROVE PriorityBalanced'
      <3>1. Urgent' = Urgent
        BY <2>2, <2>4 DEF Urgent
      <3>2. QED
        BY <1>1, <2>4, <3>1
    <2>5. ASSUME pending' = pending, ~IsAudio(i) PROVE PriorityBalanced'
      <3>1. Urgent' = Urgent
        BY <2>2, <2>5 DEF Urgent
      <3>2. QED
        BY <1>1, <2>5, <3>1
    <2>6. CASE ThreadTakesPriority(i)
      <3>1. threads[i].pc = "prio" /\ rec.pc = "lock"
        BY <2>2, <2>3, <2>6 DEF ThreadRec, ThreadTakesPriority, At, Goto
      <3>2. CASE IsAudio(i)
        <4>1. pending' = pending + 1
          BY <2>6, <3>2 DEF ThreadTakesPriority
        <4>2. Urgent' = Urgent \cup {i} /\ i \notin Urgent
          BY <2>2, <3>1, <3>2 DEF Urgent
        <4>3. Cardinality(Urgent') = Cardinality(Urgent) + 1
          BY <4>2, UrgentFinite, FS_AddElement
        <4>4. QED
          BY <1>1, <4>1, <4>3 DEF PriorityBalanced, Urgent
      <3>3. CASE ~IsAudio(i)
        BY <2>5, <2>6, <3>3 DEF ThreadTakesPriority
      <3>4. QED
        BY <3>2, <3>3
    <2>7. CASE ThreadGivesBack(i)
      <3>1. threads[i].pc \in {"sent", "failed"} /\ rec.pc \in {"prio", "test"}
        BY <2>2, <2>3, <2>7 DEF ThreadRec, ThreadGivesBack, At
      <3>2. CASE IsAudio(i)
        <4>1. Urgent' = Urgent \ {i} /\ i \in Urgent
          BY <2>2, <3>1, <3>2 DEF Urgent
        <4>2. Cardinality(Urgent') = Cardinality(Urgent) - 1 /\ Cardinality(Urgent) > 0
          BY <4>1, UrgentFinite, FS_RemoveElement, FS_EmptySet
        <4>3. pending' = pending - 1
          BY <1>1, <2>7, <3>2, <4>2 DEF ThreadGivesBack
        <4>4. QED
          BY <1>1, <4>2, <4>3 DEF PriorityBalanced, Urgent
      <3>3. CASE ~IsAudio(i)
        BY <2>5, <2>7, <3>3 DEF ThreadGivesBack
      <3>4. QED
        BY <3>2, <3>3
    <2>8. CASE ThreadLocks(i)
      <3>1. threads[i].pc = "lock" /\ rec.pc \in {"send", "failed"} /\ pending' = pending
        BY <2>2, <2>3, <2>8 DEF ThreadRec, ThreadLocks, At, Goto
      <3>2. QED
        BY <2>4, <3>1
    <2>9. CASE ThreadSends(i)
      <3>1. threads[i].pc = "send" /\ rec.pc \in {"sent", "failed"} /\ pending' = pending
        BY <2>2, <2>3, <2>9 DEF ThreadRec, ThreadSends, At, Goto
      <3>2. QED
        BY <2>4, <3>1
    <2>10. CASE ThreadStarts(i) \/ ThreadTests(i) \/ ThreadLoads(i) \/ ThreadStores(i)
      <3>1. pending' = pending
        BY <2>10 DEF ThreadStarts, ThreadTests, ThreadLoads, ThreadStores, link
      <3>2. ~under(threads[i].pc)
        BY <2>10 DEF ThreadStarts, ThreadTests, ThreadLoads, ThreadStores, At
      <3>3. ~under(rec.pc)
        BY <2>2, <2>10, ThreadMoves DEF Moves, Types
      <3>4. QED
        BY <2>4, <3>1, <3>2, <3>3
    <2>11. QED
      BY <1>4, <2>6, <2>7, <2>8, <2>9, <2>10 DEF ThreadNext
  <1>5. QED
    BY <1>2, <1>3, <1>4 DEF Next, Ended

-----------------------------------------------------------------------------
(* Who holds tx_lock is about to send, and has sent crypto_init.           *)
LockHeld ==
  /\ \A i \in Thread : threads[i].pc = "send" <=> txLock = i
  /\ txLock # 0 => cryptoSent

(* crypto_init_sent tells whether anything but answers is on the wire.     *)
InitSent ==
  /\ cryptoSent => \E k \in DOMAIN wire : wire[k].kind # "reply"
  /\ ~cryptoSent => \A k \in DOMAIN wire : wire[k].kind = "reply"

(* All the packets sent have lower numbers than the ones to come.          *)
Above(n) == \A k \in DOMAIN wire : IsMedia(k) => wire[k].seq < n

Numbered ==
  /\ Above(mediaSeq)
  /\ \A i \in Thread : threads[i].pc = "send" => threads[i].seq < mediaSeq /\ Above(threads[i].seq)

Ordered == LockHeld /\ InitSent /\ Numbered /\ CryptoInitFirst /\ SeqOrder

(* A frame at the end of the wire. *)
LEMMA Appended ==
  ASSUME wire \in Seq(Packet), NEW p \in Packet, wire' = Append(wire, p)
  PROVE  /\ DOMAIN wire = 1 .. Len(wire) /\ DOMAIN wire' = 1 .. Len(wire) + 1 /\ Len(wire) \in Nat
         /\ \A k \in 1 .. Len(wire) : wire'[k] = wire[k]
         /\ wire'[Len(wire) + 1] = p
  OBVIOUS

(* An answer disturbs nothing. *)
LEMMA ReplyAppended ==
  ASSUME wire \in Seq(Packet), NEW p \in Packet, p.kind = "reply", wire' = Append(wire, p),
         InitSent, CryptoInitFirst, SeqOrder, cryptoSent' = cryptoSent
  PROVE  /\ InitSent' /\ CryptoInitFirst' /\ SeqOrder'
         /\ \A n \in Nat : Above(n) => \A k \in DOMAIN wire' : IsMedia(k)' => wire'[k].seq < n
  <1> DEFINE len == Len(wire)
  <1>1. /\ DOMAIN wire = 1 .. len /\ DOMAIN wire' = 1 .. len + 1 /\ len \in Nat
        /\ \A k \in 1 .. len : wire'[k] = wire[k]
        /\ wire'[len + 1].kind = "reply"
    BY Appended
  <1> HIDE DEF len
  <1>2. InitSent'
    BY <1>1 DEF InitSent
  <1>3. CryptoInitFirst'
    BY <1>1 DEF CryptoInitFirst
  <1>4. SeqOrder'
    BY <1>1 DEF SeqOrder, IsMedia
  <1>5. \A n \in Nat : Above(n) => \A k \in DOMAIN wire' : IsMedia(k)' => wire'[k].seq < n
    BY <1>1 DEF Above, IsMedia
  <1>6. QED
    BY <1>2, <1>3, <1>4, <1>5

(* crypto_init is the first frame that is not an answer.                   *)
LEMMA InitAppended ==
  ASSUME wire \in Seq(Packet), NEW p \in Packet, p.kind = "init", wire' = Append(wire, p),
         InitSent, CryptoInitFirst, SeqOrder, ~cryptoSent, cryptoSent' = TRUE
  PROVE  /\ InitSent' /\ CryptoInitFirst' /\ SeqOrder'
         /\ \A k \in DOMAIN wire' : ~IsMedia(k)'
  <1> DEFINE len == Len(wire)
  <1>1. /\ DOMAIN wire = 1 .. len /\ DOMAIN wire' = 1 .. len + 1 /\ len \in Nat
        /\ \A k \in 1 .. len : wire'[k] = wire[k]
        /\ wire'[len + 1].kind = "init"
    BY Appended
  <1> HIDE DEF len
  <1>2. \A k \in 1 .. len : wire'[k].kind = "reply"
    BY <1>1 DEF InitSent
  <1>3. InitSent'
    BY <1>1 DEF InitSent
  <1>4. CryptoInitFirst'
    BY <1>1, <1>2 DEF CryptoInitFirst
  <1>5. SeqOrder' /\ \A k \in DOMAIN wire' : ~IsMedia(k)'
    BY <1>1, <1>2 DEF SeqOrder, IsMedia
  <1>6. QED
    BY <1>3, <1>4, <1>5

(* A packet comes after crypto_init and has the highest number.            *)
LEMMA MediaAppended ==
  ASSUME wire \in Seq(Packet), NEW p \in Packet, p.kind \in {"video", "audio"},
         wire' = Append(wire, p), p.seq \in Nat, mediaSeq \in Nat, p.seq < mediaSeq,
         Above(p.seq), Above(mediaSeq),
         InitSent, CryptoInitFirst, SeqOrder, cryptoSent, cryptoSent' = TRUE
  PROVE  /\ InitSent' /\ CryptoInitFirst' /\ SeqOrder'
         /\ \A k \in DOMAIN wire' : IsMedia(k)' => wire'[k].seq < mediaSeq
  <1> DEFINE len == Len(wire)
  <1>1. /\ DOMAIN wire = 1 .. len /\ DOMAIN wire' = 1 .. len + 1 /\ len \in Nat
        /\ \A k \in 1 .. len : wire'[k] = wire[k]
        /\ wire'[len + 1] = p
    BY Appended
  <1> HIDE DEF len
  <1>2. PICK k0 \in 1 .. len : wire[k0].kind # "reply"
    BY <1>1 DEF InitSent
  <1>3. InitSent'
    BY <1>1 DEF InitSent
  <1>4. CryptoInitFirst'
    <2>1. ASSUME NEW k \in 1 .. len
          PROVE  wire'[k].kind = "init" <=> /\ wire'[k].kind # "reply"
                                            /\ \A j \in 1 .. k - 1 : wire'[j].kind = "reply"
      BY <1>1, SMTT(30) DEF CryptoInitFirst
    <2>2. wire'[len + 1].kind # "init" /\ k0 \in 1 .. (len + 1) - 1 /\ wire'[k0].kind # "reply"
      BY <1>1, <1>2
    <2>3. ASSUME NEW k \in 1 .. len + 1
          PROVE  wire'[k].kind = "init" <=> /\ wire'[k].kind # "reply"
                                            /\ \A j \in 1 .. k - 1 : wire'[j].kind = "reply"
      <3>1. CASE k = len + 1
        BY <2>2, <3>1
      <3>2. CASE k # len + 1
        <4>1. k \in 1 .. len
          BY <1>1, <3>2
        <4>2. QED
          BY <2>1, <4>1
      <3>3. QED
        BY <3>1, <3>2
    <2>4. QED
      BY <1>1, <2>3 DEF CryptoInitFirst
  <1>5. SeqOrder'
    BY <1>1 DEF SeqOrder, IsMedia, Above
  <1>6. \A k \in DOMAIN wire' : IsMedia(k)' => wire'[k].seq < mediaSeq
    BY <1>1 DEF IsMedia, Above
  <1>7. QED
    BY <1>3, <1>4, <1>5, <1>6

(* A step that sends nothing and numbers nothing. *)
LEMMA QuietKept ==
  ASSUME Ordered, wire' = wire, cryptoSent' = cryptoSent, mediaSeq' = mediaSeq, txLock' = txLock,
         \A i \in Thread : threads'[i].pc = "send" <=> threads[i].pc = "send",
         \A i \in Thread : threads[i].pc = "send" => threads'[i].seq = threads[i].seq
  PROVE  Ordered'
  <1>1. LockHeld' /\ InitSent'
    BY DEF Ordered, LockHeld, InitSent
  <1>2. Numbered'
    BY DEF Ordered, Numbered, Above, IsMedia
  <1>3. CryptoInitFirst' /\ SeqOrder'
    BY DEF Ordered, CryptoInitFirst, SeqOrder, IsMedia
  <1>4. QED
    BY <1>1, <1>2, <1>3 DEF Ordered

(* The callback thread only adds answers. *)
LEMMA ControlOrdered ==
  ASSUME Types, Created, Ordered, ControlReceives \/ ControlNext
  PROVE  Ordered'
  <1>1. CASE threads' = threads /\ wire' = wire
    <2>1. cryptoSent' = cryptoSent /\ mediaSeq' = mediaSeq /\ txLock' = txLock
      BY <1>1 DEF ControlReceives, ControlNext, ControlLoads, ControlStores, ControlCreates,
                  ControlWaits, ControlReplies, ControlFrees, link
    <2>2. QED
      BY <1>1, <2>1, QuietKept
  <1>2. CASE threads' # threads
    <2>1. ControlCreates
      BY <1>2 DEF ControlReceives, ControlNext, ControlLoads, ControlStores, ControlWaits,
                  ControlReplies, ControlFrees
    <2>2. PICK n \in Thread : /\ threads[n].pc = "none" /\ threads'[n].pc = "start"
                              /\ \A j \in Thread \ {n} : threads'[j] = threads[j]
      BY <1>2, <2>1, CreatesThread DEF Types
    <2>3. wire' = wire /\ cryptoSent' = cryptoSent /\ mediaSeq' = mediaSeq /\ txLock' = txLock
      BY <2>1 DEF ControlCreates, link
    <2>4. QED
      BY <2>2, <2>3, QuietKept
  <1>3. CASE wire' # wire
    <2>1. /\ threads' = threads /\ cryptoSent' = cryptoSent /\ mediaSeq' = mediaSeq
          /\ txLock' = txLock /\ wire' = Append(wire, [kind |-> "reply"])
      BY <1>3 DEF ControlReceives, ControlNext, ControlLoads, ControlStores, ControlCreates,
                  ControlWaits, ControlReplies, ControlFrees, link
    <2>2. /\ InitSent' /\ CryptoInitFirst' /\ SeqOrder'
          /\ \A n \in Nat : Above(n) => \A k \in DOMAIN wire' : IsMedia(k)' => wire'[k].seq < n
      BY <2>1, Packets, ReplyAppended DEF Ordered, Types, Numbers
    <2>3. LockHeld'
      BY <2>1 DEF Ordered, LockHeld
    <2>4. Numbered'
      <3>1. mediaSeq \in Nat /\ \A i \in Thread : threads[i].seq \in Nat
        BY DEF Types, Numbers, Threads, ThreadRec
      <3>2. QED
        BY <2>1, <2>2, <3>1 DEF Ordered, Numbered, Above
    <2>5. QED
      BY <2>2, <2>3, <2>4 DEF Ordered
  <1>4. QED
    BY <1>1, <1>2, <1>3

(* Every packet on the wire has a number. *)
LEMMA MediaNumbers ==
  ASSUME wire \in Seq(Packet)
  PROVE  \A k \in DOMAIN wire : IsMedia(k) => wire[k].seq \in Nat
  <1>1. \A k \in DOMAIN wire : wire[k] \in Packet
    OBVIOUS
  <1>2. QED
    BY <1>1 DEF IsMedia, Packet, Plain, Coded

(* Taking the lock numbers the packet; crypto_init goes out first.         *)
LEMMA LocksOrdered ==
  ASSUME Types, Ordered, NEW i \in Thread, ThreadLocks(i)
  PROVE  Ordered'
  <1>1. /\ threads \in [Thread -> ThreadRec] /\ threads[i] \in ThreadRec /\ threads[i].pc = "lock"
        /\ mediaSeq \in Nat /\ wire \in Seq(Packet) /\ 0 \notin Thread
    BY DEF Types, Threads, Numbers, ThreadLocks, At, Thread
  <1>2. CASE Goto(i, "failed")
    <2>1. /\ threads'[i].pc = "failed" /\ \A j \in Thread \ {i} : threads'[j] = threads[j]
          /\ wire' = wire /\ cryptoSent' = cryptoSent /\ txLock' = txLock
          /\ mediaSeq' \in {mediaSeq, mediaSeq + 1}
      <3>1. threads'[i].pc = "failed" /\ \A j \in Thread \ {i} : threads'[j] = threads[j]
        BY <1>1, <1>2 DEF Goto, ThreadRec
      <3>2. QED
        BY <1>1, <3>1 DEF ThreadLocks, ThreadRec
    <2>2. LockHeld' /\ InitSent'
      BY <1>1, <2>1 DEF Ordered, LockHeld, InitSent
    <2>3. Numbered'
      <3>1. \A j \in Thread : threads[j].seq \in Nat
        BY DEF Types, Threads, ThreadRec
      <3>2. \A k \in DOMAIN wire : IsMedia(k) => wire[k].seq \in Nat
        BY <1>1, MediaNumbers
      <3>3. QED
        BY <1>1, <2>1, <3>1, <3>2 DEF Ordered, Numbered, Above, IsMedia
    <2>4. CryptoInitFirst' /\ SeqOrder'
      BY <2>1 DEF Ordered, CryptoInitFirst, SeqOrder, IsMedia
    <2>5. QED
      BY <2>2, <2>3, <2>4 DEF Ordered
  <1>3. CASE ~Goto(i, "failed")
    <2>1. /\ txLock = 0 /\ txLock' = i /\ cryptoSent' = TRUE /\ mediaSeq' = mediaSeq + 1
          /\ wire' = (IF cryptoSent THEN wire ELSE Append(wire, [kind |-> "init"]))
          /\ threads' = [threads EXCEPT ![i].pc = "send", ![i].seq = mediaSeq]
      BY <1>3 DEF ThreadLocks
    <2>2. /\ threads'[i].pc = "send" /\ threads'[i].seq = mediaSeq
          /\ \A j \in Thread \ {i} : threads'[j] = threads[j] /\ threads[j].pc # "send"
      <3>1. threads'[i].pc = "send" /\ threads'[i].seq = mediaSeq
        BY <1>1, <2>1 DEF ThreadRec
      <3>2. \A j \in Thread \ {i} : threads'[j] = threads[j]
        BY <1>1, <2>1
      <3>3. QED
        BY <1>1, <2>1, <3>1, <3>2 DEF Ordered, LockHeld
    <2>3. LockHeld'
      BY <1>1, <2>1, <2>2 DEF LockHeld
    <2>4. \A k \in DOMAIN wire' : IsMedia(k)' => wire'[k].seq < mediaSeq /\ wire'[k].seq < mediaSeq + 1
      <3>1. CASE cryptoSent
        <4>1. \A k \in DOMAIN wire : IsMedia(k) => wire[k].seq \in Nat /\ wire[k].seq < mediaSeq
          BY <1>1, MediaNumbers DEF Ordered, Numbered, Above
        <4>2. QED
          BY <1>1, <2>1, <3>1, <4>1 DEF IsMedia
      <3>2. CASE ~cryptoSent
        BY <1>1, <2>1, <3>2, Packets, InitAppended DEF Ordered
      <3>3. QED
        BY <3>1, <3>2
    <2>5. InitSent' /\ CryptoInitFirst' /\ SeqOrder'
      <3>1. CASE cryptoSent
        BY <2>1, <3>1 DEF Ordered, InitSent, CryptoInitFirst, SeqOrder, IsMedia
      <3>2. CASE ~cryptoSent
        BY <1>1, <2>1, <3>2, Packets, InitAppended DEF Ordered
      <3>3. QED
        BY <3>1, <3>2
    <2>6. Numbered'
      BY <1>1, <2>1, <2>2, <2>4 DEF Numbered, Above
    <2>7. QED
      BY <2>3, <2>5, <2>6 DEF Ordered
  <1>4. QED
    BY <1>2, <1>3

(* The holder of the lock sends its packet, or fails to, and releases it.  *)
LEMMA SendsOrdered ==
  ASSUME Types, Ordered, NEW i \in Thread, ThreadSends(i)
  PROVE  Ordered'
  <1> DEFINE p == [kind |-> threads[i].stream, seq |-> threads[i].seq, id |-> threads[i].id,
                   index |-> threads[i].index, count |-> threads[i].count]
  <1>1. /\ threads \in [Thread -> ThreadRec] /\ threads[i] \in ThreadRec /\ threads[i].pc = "send"
        /\ mediaSeq \in Nat /\ wire \in Seq(Packet) /\ 0 \notin Thread
    BY DEF Types, Threads, Numbers, ThreadSends, At, Thread
  <1>2. /\ txLock = i /\ cryptoSent /\ threads[i].seq < mediaSeq /\ Above(threads[i].seq)
        /\ Above(mediaSeq) /\ \A j \in Thread \ {i} : threads[j].pc # "send"
    BY <1>1 DEF Ordered, LockHeld, Numbered
  <1>3. txLock' = 0 /\ cryptoSent' = cryptoSent /\ mediaSeq' = mediaSeq
    BY DEF ThreadSends
  <1>4. /\ threads'[i].pc \in {"sent", "failed"}
        /\ \A j \in Thread \ {i} : threads'[j] = threads[j]
    <2>1. Goto(i, "sent") \/ Goto(i, "failed")
      BY DEF ThreadSends
    <2>2. QED
      BY <1>1, <2>1 DEF Goto, ThreadRec
  <1>5. LockHeld'
    BY <1>1, <1>2, <1>3, <1>4 DEF LockHeld
  <1>6. \A j \in Thread : threads'[j].pc # "send"
    BY <1>2, <1>4
  <1>7. CASE wire' = wire
    <2>1. InitSent' /\ CryptoInitFirst' /\ SeqOrder'
      BY <1>3, <1>7 DEF Ordered, InitSent, CryptoInitFirst, SeqOrder, IsMedia
    <2>2. Numbered'
      BY <1>2, <1>3, <1>6, <1>7 DEF Numbered, Above, IsMedia
    <2>3. QED
      BY <1>5, <2>1, <2>2 DEF Ordered
  <1>8. CASE wire' # wire
    <2>1. wire' = Append(wire, p)
      BY <1>8 DEF ThreadSends
    <2>2. p \in Packet /\ p.kind \in {"video", "audio"} /\ p.seq \in Nat /\ p.seq = threads[i].seq
      BY <1>1, Packets DEF ThreadRec
    <2> HIDE DEF p
    <2>3. /\ InitSent' /\ CryptoInitFirst' /\ SeqOrder'
          /\ \A k \in DOMAIN wire' : IsMedia(k)' => wire'[k].seq < mediaSeq
      BY <1>1, <1>2, <1>3, <2>1, <2>2, MediaAppended DEF Ordered
    <2>4. Numbered'
      BY <1>3, <1>6, <2>3 DEF Numbered, Above
    <2>5. QED
      BY <1>5, <2>3, <2>4 DEF Ordered
  <1>9. QED
    BY <1>7, <1>8

(* The other steps of a thread send nothing. *)
LEMMA ThreadOrdered ==
  ASSUME Types, Ordered, NEW i \in Thread, ThreadNext(i)
  PROVE  Ordered'
  <1>1. CASE ThreadLocks(i)
    BY <1>1, LocksOrdered
  <1>2. CASE ThreadSends(i)
    BY <1>2, SendsOrdered
  <1>3. CASE ~ThreadLocks(i) /\ ~ThreadSends(i)
    <2>1. PICK rec \in ThreadRec : Changes(i, rec)
      BY ThreadChanges DEF Types
    <2>2. threads'[i] = rec /\ \A j \in Thread \ {i} : threads'[j] = threads[j]
      BY <2>1, ChangesKept DEF Types
    <2>3. /\ wire' = wire /\ cryptoSent' = cryptoSent /\ mediaSeq' = mediaSeq /\ txLock' = txLock
          /\ threads[i].pc # "send"
      BY <1>3 DEF ThreadNext, ThreadStarts, ThreadTests, ThreadTakesPriority, ThreadGivesBack,
                  ThreadLoads, ThreadStores, At, link
    <2>4. rec.pc # "send"
      BY <1>3, <2>2, ThreadMoves DEF ThreadNext, Moves, Types
    <2>5. QED
      BY <2>2, <2>3, <2>4, QuietKept
  <1>4. QED
    BY <1>1, <1>2, <1>3

-----------------------------------------------------------------------------
(* The inductive invariant. *)
SourceInv == Types /\ Created /\ PriorityBalanced /\ Ordered

(* A connection that has just been opened. *)
LEMMA InitInv == Init => SourceInv
  <1>1. SUFFICES ASSUME Init PROVE SourceInv
    OBVIOUS
  <1>2. threads \in [Thread -> ThreadRec] /\ \A i \in Thread : threads[i] = NoThread
    BY <1>1 DEF Init, NoThread, ThreadRec, ThreadPc
  <1>3. Threads
    BY <1>2 DEF Threads, NoThread
  <1>4. Flags
    BY <1>1, Zenon DEF Init, Flags
  <1>5. Control
    BY <1>1 DEF Init, Control, ControlRec
  <1>6. Numbers
    BY <1>1, SourceAssumption DEF Init, Numbers
  <1>7. Created
    <2>1. Used = {}
      BY <1>2 DEF Used, NoThread
    <2>2. Used = 1 .. 0 /\ 0 \in 0 .. MaxThreads
      BY <2>1, SourceAssumption
    <2>3. QED
      BY <2>2 DEF Created
  <1>8. PriorityBalanced
    <2>1. Urgent = {} /\ pending = 0
      BY <1>1, <1>2 DEF Init, Urgent, NoThread
    <2>2. QED
      BY <2>1, FS_EmptySet DEF PriorityBalanced, Urgent
  <1>9. Ordered
    <2>1. txLock = 0 /\ wire = <<>> /\ 0 \notin Thread /\ \A i \in Thread : threads[i].pc # "send"
      BY <1>1, <1>2 DEF Init, Thread, NoThread
    <2>2. LockHeld /\ InitSent
      BY <1>1, <2>1 DEF Init, LockHeld, InitSent
    <2>3. Numbered /\ CryptoInitFirst /\ SeqOrder
      BY <2>1 DEF Numbered, Above, CryptoInitFirst, SeqOrder
    <2>4. QED
      BY <2>2, <2>3 DEF Ordered
  <1>10. QED
    BY <1>3, <1>4, <1>5, <1>6, <1>7, <1>8, <1>9 DEF SourceInv, Types

(* Every step keeps SourceInv. *)
LEMMA SourceStays ==
  ASSUME SourceInv, [Next]_vars
  PROVE  SourceInv'
  <1>1. Types' /\ Created' /\ PriorityBalanced'
    BY TypesStay, BalanceKept DEF SourceInv
  <1>2. CASE UNCHANGED vars
    <2>1. Ordered'
      BY <1>2, QuietKept DEF SourceInv, vars, link
    <2>2. QED
      BY <1>1, <2>1 DEF SourceInv
  <1>3. CASE ControlReceives \/ ControlNext
    BY <1>1, <1>3, ControlOrdered DEF SourceInv
  <1>4. ASSUME NEW i \in Thread, ThreadNext(i) PROVE SourceInv'
    BY <1>1, <1>4, ThreadOrdered DEF SourceInv
  <1>5. QED
    BY <1>2, <1>3, <1>4 DEF Next, Ended

(* SourceInv holds in every state of a connection. *)
THEOREM SourceInvariant == Spec => []SourceInv
  BY InitInv, SourceStays, PTL DEF Spec

(* For any number of threads and failures, video gives way to exactly the  *)
(* audio packets that are under way (begin_ and end_audio_priority).       *)
THEOREM PriorityBalancedAlways == Spec => []PriorityBalanced
  <1>1. SourceInv => PriorityBalanced
    BY DEF SourceInv
  <1>2. QED
    BY SourceInvariant, <1>1, PTL

(* However the threads, the answers and the failures interleave, the       *)
(* receiver gets crypto_init before any packet, only once, and the packets *)
(* in the order of their numbers (send_encrypted_media).                   *)
THEOREM WireOrderAlways == Spec => []WireOrder
  <1>1. ASSUME SourceInv PROVE WireOrder
    <2>1. state \subseteq Flag /\ freed \in BOOLEAN /\ cryptoSent \in BOOLEAN
      BY <1>1, Zenon DEF SourceInv, Types, Flags, Control
    <2>2. /\ control.pc \in {"idle", "store", "create", "wait"} /\ control.loaded \subseteq Flag
          /\ control.todo \in Seq(Job)
      <3>1. control.todo \in Seq(FitJob) /\ control \in ControlRec
        BY <1>1 DEF SourceInv, Types, Control, ControlRec
      <3>2. FitJob \subseteq Job
        BY JobParts
      <3>3. control.todo \in Seq(Job)
        BY <3>1, <3>2
      <3>4. QED
        BY <3>1, <3>3 DEF ControlRec
    <2>3. \A i \in Thread : /\ threads[i].stream \in {"video", "audio"} /\ threads[i].loaded \subseteq Flag
                            /\ threads[i].pc \in ThreadPc /\ threads[i].index \in 1 .. threads[i].count
      BY <1>1 DEF SourceInv, Types, Threads, ThreadRec
    <2>4. /\ pending \in 0 .. MaxThreads /\ txLock \in {0} \cup Thread /\ mediaSeq \in Nat
          /\ frameId \in 0 .. MaxUnits
      <3>1. pending \in 0 .. MaxThreads
        BY <1>1, UrgentFinite DEF SourceInv, PriorityBalanced, Urgent
      <3>2. QED
        BY <1>1, <3>1, SourceAssumption DEF SourceInv, Types, Numbers
    <2>5. TypeOK
      BY <2>1, <2>2, <2>3, <2>4, Zenon DEF TypeOK, ThreadPc
    <2>6. QED
      BY <1>1, <2>5 DEF SourceInv, Ordered, WireOrder
  <1>2. QED
    BY SourceInvariant, <1>1, PTL

-----------------------------------------------------------------------------
(* A peer that asks for video only.  The callback thread is then the only  *)
(* one that changes app->state while a thread streams, and it waits, and   *)
(* changes nothing, while the thread clears its flags at its end: no       *)
(* change can be overtaken by an older one.                                *)
VideoOnly == Streams \subseteq {"video"}

Live    == {i \in Thread : threads[i].pc \notin {"none", "done"}}
Working == {"start", "test", "prio", "lock", "send", "sent", "failed"}
On      == Streaming("video")
Off     == Closing("video")
On2     == Streaming("video2")

(* What the callback thread may have to do, and what is left after the     *)
(* first and the second job of onclose.                                    *)
Command  == {<<"start", "video">>, <<"stop", "video">>, <<"flag", "video2">>, <<"reply", "video">>}
AfterOne == << <<"stop", "audio">>, <<"free", "video">> >>
AfterTwo == << <<"free", "video">> >>
TodoFits ==
  /\ \/ control.todo \in {<<>>, CloseJobs, AfterOne, AfterTwo}
     \/ \E c \in Command : control.todo = <<c>>
  /\ control.todo = << <<"start", "video">> >> => Used # Thread
  /\ freed => control.todo = <<>>
  /\ freed \/ control.todo \in {AfterOne, AfterTwo} =>
       control.pc = "idle" /\ On \notin state /\ Live = {}

(* A thread that streams, and one that clears its flags.                   *)
Streams1 == On \in state <=> Live # {}
Steady   == Streams1 /\ Off \notin state /\ \A i \in Live : threads[i].pc \in Working
Nobody   == Live = {} /\ Off \notin state

Clearing ==
  /\ On \in state /\ Live # {}
  /\ \A i \in Live :
       /\ Off \in state <=> threads[i].pc \in Working \cup {"load1", "store1"}
       /\ threads[i].pc = "store1" => threads[i].loaded = state \ {Off}
       /\ threads[i].pc = "store2" => threads[i].loaded = state \ {On}

(* Where the callback thread is tells what the streaming thread may do.    *)
Handed ==
  /\ control.pc = "idle" => Steady
  /\ control.pc = "store" =>
       \/ Work = <<"start", "video">> /\ Nobody /\ On \notin state /\ control.loaded = state \cup {On}
       \/ Work = <<"flag", "video2">> /\ Steady /\ control.loaded = state \cup {On2}
       \/ Work = <<"stop", "video">> /\ Steady /\ On \in state /\ control.loaded = state \cup {Off}
  /\ control.pc = "create" => Work = <<"start", "video">> /\ Nobody /\ On \in state
  /\ control.pc = "wait" => /\ Work = <<"stop", "video">>
                            /\ (Nobody /\ On \notin state) \/ Clearing

OneStreams ==
  /\ \A i \in Thread : threads[i].stream = "video"
  /\ \A i, j \in Live : i = j
  /\ state \subseteq {On, Off, On2}
  /\ TodoFits /\ Handed

(* The flags of app->state differ. *)
LEMMA FlagsDiffer == On # Off /\ On # On2 /\ Off # On2 /\ Streaming("audio") \notin {On, Off, On2}
  BY DEF On, Off, On2, Streaming, Closing

(* What is left of the lists. *)
LEMMA Lists ==
  /\ \A c \in Command : Head(<<c>>) = c /\ Tail(<<c>>) = <<>> /\ <<c>> # <<>>
  /\ Head(CloseJobs) = <<"stop", "video">> /\ Tail(CloseJobs) = AfterOne /\ CloseJobs # <<>>
  /\ Head(AfterOne) = <<"stop", "audio">> /\ Tail(AfterOne) = AfterTwo /\ AfterOne # <<>>
  /\ Head(AfterTwo) = <<"free", "video">> /\ Tail(AfterTwo) = <<>> /\ AfterTwo # <<>>
  BY DEF CloseJobs, AfterOne, AfterTwo

(* What a command starts with. *)
LEMMA CommandsFit == ASSUME VideoOnly, NEW c \in Commands PROVE c \in Command
  <1>1. CASE c \in {"start", "stop"} \X Streams
    <2>1. PICK f \in {"start", "stop"}, st \in Streams : c = <<f, st>>
      BY <1>1
    <2>2. st = "video"
      BY DEF VideoOnly
    <2>3. QED
      BY <2>1, <2>2 DEF Command
  <1>2. CASE c \in {<<"flag", "video2">>, <<"reply", "video">>}
    BY <1>2 DEF Command
  <1>3. QED
    BY <1>1, <1>2 DEF Commands

(* The lists of the callback thread differ. *)
LEMMA ListsDiffer ==
  /\ CloseJobs \notin {AfterOne, AfterTwo} /\ AfterOne # AfterTwo
  /\ \A c \in Command : <<c>> \notin {AfterOne, AfterTwo, CloseJobs}
  /\ << <<"start", "video">> >> \notin {<<>>, CloseJobs, AfterOne, AfterTwo}
  <1>1. /\ Len(CloseJobs) = 3 /\ Len(AfterOne) = 2 /\ Len(AfterTwo) = 1
        /\ \A c \in Command : Len(<<c>>) = 1 /\ Head(<<c>>) = c
        /\ <<"free", "video">> \notin Command /\ <<"start", "video">> \in Command
    BY DEF CloseJobs, AfterOne, AfterTwo, Command
  <1>2. QED
    BY <1>1, Lists

(* A list of one start is that of the command. *)
LEMMA StartList ==
  ASSUME NEW c \in Command, <<c>> = << <<"start", "video">> >>
  PROVE  c = <<"start", "video">>
  OBVIOUS

(* The job in hand, and what comes after it. *)
LEMMA JobInHand ==
  ASSUME TodoFits, control.todo # <<>>
  PROVE  \/ Work \in Command /\ control.todo = <<Work>> /\ Tail(control.todo) = <<>>
         \/ Work = <<"stop", "video">> /\ control.todo = CloseJobs /\ Tail(control.todo) = AfterOne
         \/ Work = <<"stop", "audio">> /\ control.todo = AfterOne /\ Tail(control.todo) = AfterTwo
         \/ Work = <<"free", "video">> /\ control.todo = AfterTwo /\ Tail(control.todo) = <<>>
  BY Lists DEF TodoFits, Work

(* What the callback thread receives. *)
LEMMA ReceivesAlone ==
  ASSUME VideoOnly, Types, OneStreams, ControlReceives
  PROVE  OneStreams'
  <1>1. /\ control.pc = "idle" /\ ~freed /\ freed' = freed /\ state' = state /\ threads' = threads
        /\ control \in ControlRec
    BY DEF ControlReceives, Types, Control
  <1>2. \/ \E c \in Command : /\ control' = [control EXCEPT !.todo = <<c>>]
                              /\ c[1] = "start" => Used # Thread
        \/ control' = [control EXCEPT !.todo = CloseJobs]
    <2>1. \/ \E c \in Commands : /\ control' = [control EXCEPT !.todo = <<c>>]
                                 /\ c[1] = "start" => Used # Thread
          \/ control' = [control EXCEPT !.todo = CloseJobs]
      BY DEF ControlReceives
    <2>2. QED
      BY <2>1, CommandsFit
  <1>3. /\ control'.pc = "idle"
        /\ control'.todo = CloseJobs \/ \E c \in Command : control'.todo = <<c>>
        /\ control'.todo = << <<"start", "video">> >> => Used # Thread
    <2>1. CASE \E c \in Command : /\ control' = [control EXCEPT !.todo = <<c>>]
                                  /\ c[1] = "start" => Used # Thread
      <3>1. PICK c \in Command : /\ control' = [control EXCEPT !.todo = <<c>>]
                                 /\ c[1] = "start" => Used # Thread
        BY <2>1
      <3>2. control'.pc = "idle" /\ control'.todo = <<c>>
        BY <1>1, <3>1 DEF ControlRec
      <3>3. ASSUME control'.todo = << <<"start", "video">> >> PROVE Used # Thread
        <4>1. c = <<"start", "video">>
          BY <3>2, <3>3, StartList
        <4>2. QED
          BY <3>1, <4>1
      <3>4. QED
        BY <3>2, <3>3
    <2>2. CASE control' = [control EXCEPT !.todo = CloseJobs]
      BY <1>1, <2>2, ListsDiffer DEF ControlRec
    <2>3. QED
      BY <1>2, <2>1, <2>2
  <1>4. Live' = Live /\ Used' = Used
    BY <1>1 DEF Live, Used
  <1>5. TodoFits'
    BY <1>1, <1>3, <1>4, ListsDiffer DEF TodoFits
  <1>6. Handed'
    BY <1>1, <1>3, <1>4 DEF OneStreams, Handed, Steady, Streams1
  <1>7. QED
    BY <1>1, <1>4, <1>5, <1>6 DEF OneStreams

(* A finished job leaves what is left of its list. *)
LEMMA FinishedJob ==
  ASSUME Types, TodoFits, control.todo # <<>>, Finished
  PROVE  /\ control'.pc = "idle" /\ control'.todo \in {<<>>, AfterOne, AfterTwo}
         /\ control'.todo = AfterOne <=> Work = <<"stop", "video">> /\ control.todo = CloseJobs
         /\ control'.todo = AfterTwo <=> Work = <<"stop", "audio">>
  <1>1. control'.pc = "idle" /\ control'.todo = Tail(control.todo)
    BY TodoParts DEF Types
  <1>2. /\ <<"stop", "audio">> \notin Command /\ CloseJobs # AfterOne /\ CloseJobs # AfterTwo
        /\ AfterOne # AfterTwo /\ \A c \in Command : <<c>> \notin {AfterOne, AfterTwo, CloseJobs}
        /\ AfterOne # <<>> /\ AfterTwo # <<>>
    BY Lists, ListsDiffer DEF Command
  <1>3. CASE Work \in Command /\ control.todo = <<Work>> /\ Tail(control.todo) = <<>>
    BY <1>1, <1>2, <1>3
  <1>4. CASE Work = <<"stop", "video">> /\ control.todo = CloseJobs /\ Tail(control.todo) = AfterOne
    BY <1>1, <1>2, <1>4
  <1>5. CASE Work = <<"stop", "audio">> /\ control.todo = AfterOne /\ Tail(control.todo) = AfterTwo
    BY <1>1, <1>2, <1>5
  <1>6. CASE Work = <<"free", "video">> /\ control.todo = AfterTwo /\ Tail(control.todo) = <<>>
    BY <1>1, <1>2, <1>6
  <1>7. QED
    BY <1>3, <1>4, <1>5, <1>6, JobInHand

(* A job that is finished while nothing changes. *)
LEMMA FinishAlone ==
  ASSUME Types, OneStreams, control.todo # <<>>, Finished, ~freed,
         state' = state, threads' = threads, freed' = freed, Steady,
         Work[1] # "free", Work = <<"stop", "video">> => On \notin state
  PROVE  OneStreams'
  <1>1. /\ control'.pc = "idle" /\ control'.todo \in {<<>>, AfterOne, AfterTwo}
        /\ control'.todo = AfterOne <=> Work = <<"stop", "video">> /\ control.todo = CloseJobs
        /\ control'.todo = AfterTwo <=> Work = <<"stop", "audio">>
    BY FinishedJob DEF OneStreams
  <1>2. Live' = Live /\ Used' = Used
    BY DEF Live, Used
  <1>3. TodoFits'
    <2>1. control'.todo \in {AfterOne, AfterTwo} => On \notin state /\ Live = {}
      <3>1. Work = <<"stop", "audio">> => On \notin state
        BY JobInHand DEF OneStreams, TodoFits, Command
      <3>2. QED
        BY <1>1, <3>1 DEF Steady, Streams1
    <2>2. QED
      BY <1>1, <1>2, <2>1, ListsDiffer DEF TodoFits
  <1>4. Handed'
    BY <1>1, <1>2 DEF Handed, Steady, Streams1
  <1>5. QED
    BY <1>2, <1>3, <1>4 DEF OneStreams

(* The first half of a job: the flags are read. *)
LEMMA LoadsAlone ==
  ASSUME Types, OneStreams, ControlLoads
  PROVE  OneStreams'
  <1>1. /\ control.pc = "idle" /\ control.todo # <<>> /\ Work[1] \notin {"free", "reply"}
        /\ state' = state /\ threads' = threads /\ freed' = freed /\ Steady /\ TodoFits /\ ~freed
        /\ control \in ControlRec
    BY DEF ControlLoads, OneStreams, Handed, TodoFits, Types, Control
  <1>2. Live' = Live /\ Used' = Used
    BY <1>1 DEF Live, Used
  <1>3. Work \in {<<"start", "video">>, <<"stop", "video">>, <<"flag", "video2">>, <<"stop", "audio">>}
    BY <1>1, JobInHand DEF Command
  <1>4. CASE ~Wanted
    <2>1. Finished
      BY <1>4 DEF ControlLoads, Next1, Finished
    <2>2. Work = <<"stop", "video">> => On \notin state
      BY <1>4 DEF Wanted, Stream, On
    <2>3. QED
      BY <1>1, <2>1, <2>2, FinishAlone
  <1>5. CASE Wanted
    <2>1. Work # <<"stop", "audio">>
      BY <1>5, FlagsDiffer DEF Wanted, Stream, OneStreams
    <2>2. control' = [control EXCEPT !.pc = "store", !.loaded = Changed(state)]
      BY <1>5 DEF ControlLoads
    <2>3. control'.pc = "store" /\ control'.todo = control.todo /\ control'.loaded = Changed(state)
      BY <1>1, <2>2 DEF ControlRec
    <2>4. \/ Work = <<"start", "video">> /\ On \notin state /\ Changed(state) = state \cup {On}
          \/ Work = <<"flag", "video2">> /\ Changed(state) = state \cup {On2}
          \/ Work = <<"stop", "video">> /\ On \in state /\ Changed(state) = state \cup {Off}
      BY <1>3, <1>5, <2>1 DEF Wanted, Stream, Changed, On, On2, Off
    <2>5. Work' = Work
      BY <2>3 DEF Work
    <2>6. Handed'
      BY <1>1, <1>2, <2>3, <2>4, <2>5 DEF Handed, Steady, Streams1, Nobody
    <2>7. TodoFits'
      <3>1. control.todo \notin {AfterOne, AfterTwo}
        BY <2>4, Lists DEF Work
      <3>2. QED
        BY <1>1, <1>2, <2>3, <3>1 DEF TodoFits
    <2>8. QED
      BY <1>1, <1>2, <2>6, <2>7 DEF OneStreams
  <1>6. QED
    BY <1>4, <1>5

(* The second half: the flags are written, as they were read. *)
LEMMA StoresAlone ==
  ASSUME Types, OneStreams, ControlStores
  PROVE  OneStreams'
  <1>1. /\ control.pc = "store" /\ control.todo # <<>> /\ state' = control.loaded
        /\ threads' = threads /\ freed' = freed /\ TodoFits /\ ~freed
        /\ control.todo \notin {AfterOne, AfterTwo} /\ control \in ControlRec
    BY DEF ControlStores, OneStreams, TodoFits, Types, Control
  <1>2. Live' = Live /\ Used' = Used
    BY <1>1 DEF Live, Used
  <1>3. CASE Work = <<"start", "video">>
    <2>1. /\ Nobody /\ On \notin state /\ state' = state \cup {On}
          /\ control' = [control EXCEPT !.pc = "create"]
      BY <1>1, <1>3 DEF OneStreams, Handed, ControlStores
    <2>2. control'.pc = "create" /\ control'.todo = control.todo
      BY <1>1, <2>1 DEF ControlRec
    <2>3. Work' = Work
      BY <2>2 DEF Work
    <2>4. Handed'
      BY <1>2, <1>3, <2>1, <2>2, <2>3, FlagsDiffer DEF Handed, Nobody
    <2>5. TodoFits'
      BY <1>1, <1>2, <2>2 DEF TodoFits
    <2>6. QED
      BY <1>1, <1>2, <2>1, <2>4, <2>5 DEF OneStreams
  <1>4. CASE Work = <<"flag", "video2">>
    <2>1. Steady /\ state' = state \cup {On2} /\ Finished
      BY <1>1, <1>4 DEF OneStreams, Handed, ControlStores, Finished, Next1
    <2>2. control'.pc = "idle" /\ control'.todo = <<>>
      BY <1>1, <1>4, <2>1, FinishedJob
    <2>3. Handed'
      BY <1>1, <1>2, <2>1, <2>2, FlagsDiffer DEF Handed, Steady, Streams1
    <2>4. TodoFits'
      BY <1>1, <2>2, Lists, ListsDiffer DEF TodoFits
    <2>5. QED
      BY <1>1, <1>2, <2>1, <2>3, <2>4 DEF OneStreams
  <1>5. CASE Work = <<"stop", "video">>
    <2>1. /\ Steady /\ On \in state /\ state' = state \cup {Off}
          /\ control' = [control EXCEPT !.pc = "wait"]
      BY <1>1, <1>5 DEF OneStreams, Handed, ControlStores
    <2>2. control'.pc = "wait" /\ control'.todo = control.todo
      BY <1>1, <2>1 DEF ControlRec
    <2>3. Work' = Work
      BY <2>2 DEF Work
    <2>4. Clearing'
      BY <1>1, <1>2, <2>1 DEF Clearing, Steady, Streams1, Working
    <2>5. Handed'
      BY <1>5, <2>2, <2>3, <2>4 DEF Handed
    <2>6. TodoFits'
      BY <1>1, <1>2, <2>2 DEF TodoFits
    <2>7. QED
      BY <1>1, <1>2, <2>1, <2>5, <2>6 DEF OneStreams
  <1>6. QED
    BY <1>1, <1>3, <1>4, <1>5 DEF OneStreams, Handed

(* pthread_create, when there is no thread. *)
LEMMA CreatesAlone ==
  ASSUME Types, Created, OneStreams, ControlCreates
  PROVE  OneStreams'
  <1>1. /\ control.pc = "create" /\ Work = <<"start", "video">> /\ Nobody /\ On \in state
        /\ control.todo # <<>> /\ state' = state /\ freed' = freed /\ ~freed /\ TodoFits
    BY DEF ControlCreates, OneStreams, Handed, Types, Control, TodoFits
  <1>2. Finished
    BY DEF ControlCreates, Finished, Next1
  <1>3. control'.pc = "idle" /\ control'.todo = <<>>
    BY <1>1, <1>2, FinishedJob
  <1>4. Used # Thread
    BY <1>1, JobInHand DEF TodoFits
  <1>5. PICK n \in Thread : /\ threads'[n].pc = "start" /\ threads'[n].stream = Stream
                            /\ \A j \in Thread \ {n} : threads'[j] = threads[j]
    BY <1>4, CreatesThread DEF Types
  <1>6. Live' = {n}
    BY <1>1, <1>5 DEF Nobody, Live
  <1>7. \A i \in Thread : threads'[i].stream = "video"
    BY <1>1, <1>5 DEF Stream, OneStreams
  <1>8. TodoFits'
    BY <1>1, <1>3, Lists, ListsDiffer DEF TodoFits
  <1>9. Handed'
    BY <1>1, <1>3, <1>5, <1>6 DEF Handed, Steady, Streams1, Nobody, Working
  <1>10. QED
    BY <1>1, <1>6, <1>7, <1>8, <1>9 DEF OneStreams

(* The polling loop ends, an answer goes out, onclose frees the app.       *)
LEMMA EndsAlone ==
  ASSUME Types, OneStreams, ControlWaits \/ ControlReplies \/ ControlFrees
  PROVE  OneStreams'
  <1>1. /\ control.todo # <<>> /\ TodoFits /\ ~freed /\ state' = state /\ threads' = threads /\ Finished
    BY DEF ControlWaits, ControlReplies, ControlFrees, OneStreams, Types, Control, TodoFits,
           Finished, Next1
  <1>2. CASE ControlWaits
    <2>1. Work = <<"stop", "video">> /\ On \notin state /\ Nobody /\ freed' = freed
      BY <1>2 DEF ControlWaits, OneStreams, Handed, Clearing, Stream, On
    <2>2. Steady
      BY <2>1 DEF Nobody, Steady, Streams1
    <2>3. QED
      BY <1>1, <2>1, <2>2, FinishAlone
  <1>3. CASE ControlReplies
    <2>1. control.pc = "idle" /\ Work[1] = "reply" /\ freed' = freed
      BY <1>3 DEF ControlReplies
    <2>2. Steady /\ Work # <<"stop", "video">>
      BY <2>1 DEF OneStreams, Handed
    <2>3. QED
      BY <1>1, <2>1, <2>2, FinishAlone
  <1>4. CASE ControlFrees
    <2>1. control.pc = "idle" /\ Work[1] = "free" /\ freed' = TRUE
      BY <1>4 DEF ControlFrees
    <2>2. control.todo = AfterTwo /\ Work = <<"free", "video">>
      BY <1>1, <2>1, JobInHand DEF Command
    <2>3. On \notin state /\ Live = {} /\ Steady
      BY <2>1, <2>2 DEF OneStreams, TodoFits, Handed
    <2>4. control'.pc = "idle" /\ control'.todo = <<>>
      BY <1>1, <2>2, FinishedJob
    <2>5. Live' = Live
      BY <1>1 DEF Live
    <2>6. TodoFits'
      BY <1>1, <2>3, <2>4, <2>5, Lists, ListsDiffer DEF TodoFits
    <2>7. Handed'
      BY <1>1, <2>3, <2>4, <2>5 DEF Handed, Steady, Streams1
    <2>8. QED
      BY <1>1, <2>5, <2>6, <2>7 DEF OneStreams
  <1>5. QED
    BY <1>2, <1>3, <1>4

(* A step of the thread that streams or clears its flags.  It only leaves  *)
(* its loop when it was asked to, and the callback thread waits for it.    *)
LEMMA ThreadAlone ==
  ASSUME Types, Created, OneStreams, NEW i \in Thread, ThreadNext(i)
  PROVE  OneStreams'
  <1> DEFINE t == threads[i]
             u == threads'[i]
  <1>1. PICK rec \in ThreadRec : Changes(i, rec)
    BY ThreadChanges DEF Types
  <1>2. /\ u = rec /\ \A j \in Thread \ {i} : threads'[j] = threads[j]
        /\ Used' = Used /\ control' = control /\ freed' = freed /\ u.stream = "video"
    BY <1>1, ChangesKept, ZenonT(30) DEF Types, Changes, OneStreams
  <1>3. Live = {i} /\ Live' = {i} \cap {j \in Thread : threads'[j].pc # "done"}
    <2>1. t.pc \notin {"none", "done"}
      BY DEF ThreadNext, ThreadStarts, ThreadTests, ThreadTakesPriority, ThreadLocks, ThreadSends,
             ThreadGivesBack, ThreadLoads, ThreadStores, At
    <2>2. Live = {i}
      BY <2>1 DEF OneStreams, Live
    <2>3. u.pc # "none"
      BY <1>1, <1>2 DEF Changes
    <2>4. QED
      BY <1>2, <2>2, <2>3 DEF Live
  <1>4. Moves(i, t, u)
    BY ThreadMoves DEF Types
  <1>5. ~freed /\ control.todo \notin {AfterOne, AfterTwo} /\ Work' = Work
    BY <1>2, <1>3 DEF OneStreams, TodoFits, Work
  <1>6. TodoFits'
    BY <1>2, <1>5 DEF OneStreams, TodoFits
  <1>7. /\ \A j \in Thread : threads'[j].stream = "video"
        /\ \A j, k \in Live' : j = k
    BY <1>2, <1>3 DEF OneStreams
  <1>8. ~IsAudio(i) /\ t.stream = "video" /\ state \subseteq {On, Off, On2}
    BY DEF IsAudio, OneStreams
  <1>9. CASE state' = state /\ t.pc \in Working /\ u.pc \in Working
    <2>1. Live' = {i}
      BY <1>2, <1>3, <1>9 DEF Working
    <2>2. Handed'
      <3>1. ~Nobody /\ (Steady => Steady')
        BY <1>2, <1>3, <1>9, <2>1 DEF Nobody, Steady, Streams1
      <3>2. Clearing => Clearing'
        BY <1>2, <1>3, <1>9, <2>1 DEF Clearing, Working
      <3>3. Handed /\ control' = control /\ Work' = Work /\ state' = state
        BY <1>2, <1>5, <1>9 DEF OneStreams
      <3>4. control.pc \notin {"idle", "store", "wait"} => Handed'
        BY <3>1, <3>3 DEF Handed
      <3>5. control.pc \in {"idle", "wait"} => Handed'
        BY <3>1, <3>2, <3>3 DEF Handed
      <3>6. ASSUME control.pc = "store" PROVE Handed'
        <4>1. \/ Work = <<"flag", "video2">> /\ Steady /\ control.loaded = state \cup {On2}
              \/ Work = <<"stop", "video">> /\ Steady /\ On \in state /\ control.loaded = state \cup {Off}
          BY <3>1, <3>3, <3>6 DEF Handed
        <4>2. \/ Work' = <<"flag", "video2">> /\ Steady' /\ control'.loaded = state' \cup {On2}
              \/ /\ Work' = <<"stop", "video">> /\ Steady' /\ On \in state'
                 /\ control'.loaded = state' \cup {Off}
          BY <3>1, <3>3, <4>1
        <4>3. QED
          BY <3>3, <3>6, <4>2 DEF Handed
      <3>7. QED
        BY <3>4, <3>5, <3>6
    <2>3. QED
      BY <1>6, <1>7, <1>8, <1>9, <2>2 DEF OneStreams
  <1>10. CASE state' = state /\ u.pc = "load1" /\ t.pc = "test" /\ Off \in state
    <2>1. Live' = {i} /\ control.pc = "wait" /\ Clearing
      BY <1>2, <1>3, <1>10 DEF OneStreams, Types, Control, ControlRec, Handed, Steady, Nobody
    <2>2. Clearing'
      BY <1>2, <1>3, <1>10, <2>1 DEF Clearing, Working
    <2>3. Handed'
      BY <1>2, <1>5, <2>1, <2>2 DEF OneStreams, Handed
    <2>4. QED
      BY <1>6, <1>7, <1>8, <1>10, <2>3 DEF OneStreams
  <1>11. CASE t.pc \notin Working
    <2>1. control.pc = "wait" /\ Clearing
      BY <1>3, <1>11 DEF OneStreams, Types, Control, ControlRec, Handed, Steady, Nobody
    <2>2. Cleared(i, "load1") = Off /\ Cleared(i, "load2") = On
      BY <1>8 DEF Cleared, IsAudio, On, Off
    <2>3. CASE ThreadLoads(i)
      <3>1. state' = state /\ Live' = {i}
        BY <1>2, <1>3, <1>4, <2>3 DEF ThreadLoads, Moves
      <3>2. Clearing'
        BY <1>2, <1>3, <1>4, <2>1, <2>2, <2>3, <3>1 DEF Clearing, Moves, Working
      <3>3. Handed'
        BY <1>2, <1>5, <2>1, <3>2 DEF OneStreams, Handed
      <3>4. QED
        BY <1>6, <1>7, <1>8, <3>1, <3>3 DEF OneStreams
    <2>4. CASE ThreadStores(i)
      <3>1. state' = t.loaded
        BY <2>4 DEF ThreadStores
      <3>2. CASE t.pc = "store1"
        <4>1. u.pc = "load2" /\ state' = state \ {Off} /\ Live' = {i}
          BY <1>2, <1>3, <1>4, <2>1, <2>4, <3>1, <3>2 DEF Moves, Clearing
        <4>2. Clearing'
          BY <1>2, <2>1, <4>1, FlagsDiffer DEF Clearing, Working
        <4>3. Handed'
          BY <1>2, <1>5, <2>1, <4>2 DEF OneStreams, Handed
        <4>4. QED
          BY <1>6, <1>7, <1>8, <4>1, <4>3 DEF OneStreams
      <3>3. CASE t.pc = "store2"
        <4>1. u.pc = "done" /\ state' = state \ {On} /\ Off \notin state /\ Live' = {}
          BY <1>2, <1>3, <1>4, <2>1, <2>4, <3>1, <3>3 DEF Moves, Clearing, Working
        <4>2. Handed'
          BY <1>2, <1>5, <2>1, <4>1 DEF OneStreams, Handed, Nobody
        <4>3. QED
          BY <1>6, <1>7, <1>8, <4>1, <4>2 DEF OneStreams
      <3>4. QED
        BY <1>4, <2>4, <3>2, <3>3 DEF Moves
    <2>5. QED
      BY <1>4, <1>11, <2>3, <2>4 DEF ThreadNext, Moves, Working
  <1>12. QED
    <2>1. CASE ThreadTests(i)
      <3>1. CASE Off \in state
        <4>1. Goto(i, "load1")
          BY <1>8, <2>1, <3>1 DEF ThreadTests, Off
        <4>2. u.pc = "load1"
          BY <4>1 DEF Goto, Types, Threads, ThreadRec
        <4>3. QED
          BY <1>4, <1>10, <2>1, <3>1, <4>2 DEF Moves, ThreadTests
      <3>2. CASE Off \notin state
        <4>1. PICK count \in {1} \cup FragCounts :
                threads' = [threads EXCEPT ![i].pc = "prio", ![i].index = 1,
                                           ![i].count = count, ![i].id = frameId]
          BY <1>8, <2>1, <3>2 DEF ThreadTests, Off
        <4>2. u.pc = "prio"
          BY <4>1 DEF Types, Threads, ThreadRec
        <4>3. QED
          BY <1>4, <1>9, <2>1, <3>2, <4>2 DEF Moves, ThreadTests, Working
      <3>3. QED
        BY <3>1, <3>2
    <2>2. CASE ThreadStarts(i)
      <3>1. Goto(i, "test") /\ state' = state
        BY <1>8, <2>2 DEF ThreadStarts
      <3>2. u.pc = "test"
        BY <3>1 DEF Goto, Types, Threads, ThreadRec
      <3>3. QED
        BY <1>4, <1>9, <2>2, <3>1, <3>2 DEF Moves, Working
    <2>3. CASE ThreadTakesPriority(i) \/ ThreadLocks(i) \/ ThreadSends(i) \/ ThreadGivesBack(i)
      <3>1. state' = state
        BY <2>3 DEF ThreadTakesPriority, ThreadLocks, ThreadSends, ThreadGivesBack
      <3>2. QED
        BY <1>4, <1>9, <2>3, <3>1 DEF Moves, Working
    <2>4. CASE ThreadLoads(i) \/ ThreadStores(i)
      BY <1>4, <1>11, <2>4 DEF Moves, Working
    <2>5. QED
      BY <2>1, <2>2, <2>3, <2>4 DEF ThreadNext

(* A connection that has just been opened. *)
LEMMA InitAlone == Init => OneStreams
  <1>1. SUFFICES ASSUME Init PROVE OneStreams
    OBVIOUS
  <1>2. \A i \in Thread : threads[i].pc = "none" /\ threads[i].stream = "video"
    BY <1>1 DEF Init, NoThread
  <1>3. Live = {} /\ state = {} /\ freed = FALSE /\ control.pc = "idle" /\ control.todo = <<>>
    BY <1>1, <1>2 DEF Init, Live
  <1>4. TodoFits /\ Handed
    BY <1>3, Lists, ListsDiffer DEF TodoFits, Handed, Steady, Streams1
  <1>5. QED
    BY <1>2, <1>3, <1>4 DEF OneStreams

(* Nothing of it changes when the variables do not. *)
LEMMA StillAlone ==
  ASSUME OneStreams, UNCHANGED vars
  PROVE  OneStreams'
  <1>1. Live' = Live /\ Used' = Used /\ control' = control /\ state' = state /\ freed' = freed
        /\ threads' = threads
    BY DEF vars, Live, Used
  <1>2. TodoFits' /\ Handed'
    BY <1>1 DEF OneStreams, TodoFits, Handed, Steady, Streams1, Nobody, Clearing, Work
  <1>3. QED
    BY <1>1, <1>2 DEF OneStreams

(* Every step keeps it. *)
LEMMA AloneStays ==
  ASSUME VideoOnly, SourceInv, OneStreams, [Next]_vars
  PROVE  OneStreams'
  <1>1. Types /\ Created
    BY DEF SourceInv
  <1>2. CASE UNCHANGED vars
    BY <1>2, StillAlone
  <1>3. CASE ControlReceives
    BY <1>1, <1>3, ReceivesAlone
  <1>4. CASE ControlNext
    BY <1>1, <1>4, LoadsAlone, StoresAlone, CreatesAlone, EndsAlone DEF ControlNext
  <1>5. ASSUME NEW i \in Thread, ThreadNext(i) PROVE OneStreams'
    BY <1>1, <1>5, ThreadAlone
  <1>6. QED
    BY <1>2, <1>3, <1>4, <1>5 DEF Next, Ended

-----------------------------------------------------------------------------
(* The last video packet of the frames w is fragment n of c of the frame   *)
(* id.                                                                     *)
LastIs(w, id, n, c) ==
  \E j \in DOMAIN w : /\ w[j].kind = "video" /\ w[j].id = id /\ w[j].index = n /\ w[j].count = c
                      /\ \A m \in j + 1 .. Len(w) : w[m].kind # "video"

(* A thread that is about to send a later fragment has sent the one before *)
(* it, and nobody has sent video since.                                    *)
Continued ==
  \A i \in Thread :
    LET t == threads[i] IN
    /\ t.pc \in {"prio", "lock", "send"} /\ t.index > 1 => LastIs(wire, t.id, t.index - 1, t.count)
    /\ t.pc = "sent" => LastIs(wire, t.id, t.index, t.count)

(* Frames that are not video leave the last video packet where it is.      *)
LEMMA OtherAppended ==
  ASSUME wire \in Seq(Packet), NEW p \in Packet, p.kind # "video", wire' = Append(wire, p)
  PROVE  /\ FragmentsFollow => FragmentsFollow'
         /\ \A id, n, c : LastIs(wire, id, n, c) => LastIs(wire', id, n, c)
  <1> DEFINE len == Len(wire)
  <1>1. /\ DOMAIN wire = 1 .. len /\ DOMAIN wire' = 1 .. len + 1 /\ len \in Nat
        /\ \A k \in 1 .. len : wire'[k] = wire[k]
        /\ wire'[len + 1].kind # "video" /\ Len(wire') = len + 1
    BY Appended
  <1> HIDE DEF len
  <1>2. ASSUME NEW id, NEW n, NEW c, LastIs(wire, id, n, c) PROVE LastIs(wire', id, n, c)
    <2>1. PICK j \in 1 .. len : /\ wire[j].kind = "video" /\ wire[j].id = id
                                /\ wire[j].index = n /\ wire[j].count = c
                                /\ \A m \in j + 1 .. len : wire[m].kind # "video"
      BY <1>1, <1>2 DEF LastIs, len
    <2>2. \A m \in j + 1 .. len + 1 : wire'[m].kind # "video"
      BY <1>1, <2>1
    <2>3. j \in DOMAIN wire' /\ wire'[j] = wire[j]
      BY <1>1
    <2>4. QED
      BY <1>1, <2>1, <2>2, <2>3 DEF LastIs
  <1>3. ASSUME FragmentsFollow, NEW k \in DOMAIN wire', wire'[k].kind = "video", wire'[k].index > 1
        PROVE  \E j \in 1 .. k - 1 : /\ LastVideo(j, k)' /\ wire'[j].id = wire'[k].id
                                     /\ wire'[j].index = wire'[k].index - 1
                                     /\ wire'[j].count = wire'[k].count
    <2>1. k \in 1 .. len /\ wire'[k] = wire[k]
      BY <1>1, <1>3
    <2>2. PICK j \in 1 .. k - 1 : /\ LastVideo(j, k) /\ wire[j].id = wire[k].id
                                  /\ wire[j].index = wire[k].index - 1 /\ wire[j].count = wire[k].count
      BY <1>1, <1>3, <2>1 DEF FragmentsFollow
    <2>3. \A m \in 1 .. k - 1 : wire'[m] = wire[m]
      BY <1>1, <2>1
    <2>4. QED
      BY <2>1, <2>2, <2>3 DEF LastVideo
  <1>4. QED
    BY <1>2, <1>3 DEF FragmentsFollow

(* A video packet is the last one, and follows the one before it.          *)
LEMMA VideoAppended ==
  ASSUME wire \in Seq(Packet), NEW p \in Packet, p.kind = "video", wire' = Append(wire, p),
         FragmentsFollow, p.index > 1 => LastIs(wire, p.id, p.index - 1, p.count)
  PROVE  FragmentsFollow' /\ LastIs(wire', p.id, p.index, p.count)
  <1> DEFINE len == Len(wire)
  <1>1. /\ DOMAIN wire = 1 .. len /\ DOMAIN wire' = 1 .. len + 1 /\ len \in Nat
        /\ \A k \in 1 .. len : wire'[k] = wire[k]
        /\ wire'[len + 1] = p /\ Len(wire') = len + 1
    BY Appended
  <1> HIDE DEF len
  <1>2. LastIs(wire', p.id, p.index, p.count)
    <2>1. len + 1 \in DOMAIN wire' /\ \A m \in (len + 1) + 1 .. len + 1 : wire'[m].kind # "video"
      BY <1>1
    <2>2. QED
      BY <1>1, <2>1 DEF LastIs
  <1>3. ASSUME NEW k \in DOMAIN wire', wire'[k].kind = "video", wire'[k].index > 1
        PROVE  \E j \in 1 .. k - 1 : /\ LastVideo(j, k)' /\ wire'[j].id = wire'[k].id
                                     /\ wire'[j].index = wire'[k].index - 1
                                     /\ wire'[j].count = wire'[k].count
    <2>1. k \in 1 .. len + 1 /\ \A m \in 1 .. k - 1 : wire'[m] = wire[m] /\ m \in 1 .. len
      BY <1>1
    <2>2. CASE k = len + 1
      <3>1. PICK j \in 1 .. len : /\ wire[j].kind = "video" /\ wire[j].id = p.id
                                  /\ wire[j].index = p.index - 1 /\ wire[j].count = p.count
                                  /\ \A m \in j + 1 .. len : wire[m].kind # "video"
        BY <1>1, <1>3, <2>2 DEF LastIs, len
      <3>2. wire'[k] = p /\ j \in 1 .. k - 1 /\ k - 1 = len
        BY <1>1, <2>2
      <3>3. /\ wire'[j] = wire[j] /\ \A m \in j + 1 .. k - 1 : wire'[m] = wire[m] /\ m \in j + 1 .. len
        BY <1>1, <2>1, <3>1, <3>2
      <3>4. LastVideo(j, k)'
        BY <3>1, <3>2, <3>3 DEF LastVideo
      <3>5. QED
        BY <3>1, <3>2, <3>3, <3>4
    <2>3. CASE k # len + 1
      <3>1. k \in 1 .. len /\ wire'[k] = wire[k]
        BY <1>1, <2>1, <2>3
      <3>2. PICK j \in 1 .. k - 1 : /\ LastVideo(j, k) /\ wire[j].id = wire[k].id
                                    /\ wire[j].index = wire[k].index - 1
                                    /\ wire[j].count = wire[k].count
        BY <1>1, <1>3, <3>1 DEF FragmentsFollow
      <3>3. QED
        BY <2>1, <3>1, <3>2 DEF LastVideo
    <2>4. QED
      BY <2>2, <2>3
  <1>4. QED
    BY <1>2, <1>3 DEF FragmentsFollow

(* The callback thread sends answers and creates threads that have nothing *)
(* to send yet.                                                            *)
LEMMA ControlContinued ==
  ASSUME Types, Created, Continued, FragmentsFollow, ControlReceives \/ ControlNext
  PROVE  Continued' /\ FragmentsFollow'
  <1>1. CASE ControlReplies /\ wire' # wire
    <2>1. /\ wire' = Append(wire, [kind |-> "reply"]) /\ threads' = threads
          /\ wire \in Seq(Packet) /\ [kind |-> "reply"] \in Packet
      BY <1>1, Packets DEF ControlReplies, Types, Numbers
    <2>2. /\ FragmentsFollow'
          /\ \A id, n, c : LastIs(wire, id, n, c) => LastIs(wire', id, n, c)
      BY <2>1, OtherAppended
    <2>3. QED
      BY <2>1, <2>2 DEF Continued
  <1>2. CASE ~(ControlReplies /\ wire' # wire)
    <2>1. wire' = wire
      BY <1>2 DEF ControlReceives, ControlNext, ControlLoads, ControlStores, ControlCreates,
                  ControlWaits, ControlReplies, ControlFrees, link
    <2>2. FragmentsFollow'
      BY <2>1 DEF FragmentsFollow, LastVideo
    <2>3. \A i \in Thread : threads'[i] = threads[i] \/ threads'[i].pc = "start"
      <3>1. CASE ControlCreates /\ Used # Thread
        <4>1. PICK n \in Thread : /\ threads'[n].pc = "start"
                                  /\ \A j \in Thread \ {n} : threads'[j] = threads[j]
          BY <3>1, CreatesThread DEF Types
        <4>2. QED
          BY <4>1
      <3>2. CASE ControlCreates /\ Used = Thread
        <4>1. Cardinality(Used) + 1 \notin Thread
          BY <3>2, NextThread
        <4>2. QED
          BY <3>2, <4>1 DEF ControlCreates, Types, Threads
      <3>3. CASE ~ControlCreates
        <4>1. threads' = threads
          BY <3>3 DEF ControlReceives, ControlNext, ControlLoads, ControlStores,
                      ControlWaits, ControlReplies, ControlFrees
        <4>2. QED
          BY <4>1
      <3>4. QED
        BY <3>1, <3>2, <3>3
    <2>4. QED
      BY <2>1, <2>2, <2>3 DEF Continued
  <1>3. QED
    BY <1>1, <1>2

(* The one thread that streams. *)
LEMMA ThreadContinued ==
  ASSUME Types, Created, OneStreams, Continued, FragmentsFollow, NEW i \in Thread, ThreadNext(i)
  PROVE  Continued' /\ FragmentsFollow'
  <1> DEFINE t == threads[i]
             u == threads'[i]
             p == [kind |-> t.stream, seq |-> t.seq, id |-> t.id, index |-> t.index, count |-> t.count]
  <1>1. \A j \in Thread \ {i} : threads'[j].pc \in {"none", "done"}
    <2>1. t.pc \notin {"none", "done"}
      BY DEF ThreadNext, ThreadStarts, ThreadTests, ThreadTakesPriority, ThreadLocks, ThreadSends,
             ThreadGivesBack, ThreadLoads, ThreadStores, At
    <2>2. \A j \in Thread \ {i} : threads[j].pc \in {"none", "done"}
      BY <2>1 DEF OneStreams, Live
    <2>3. \A j \in Thread \ {i} : threads'[j] = threads[j]
      BY ThreadChanges, ChangesKept DEF Types
    <2>4. QED
      BY <2>2, <2>3
  <1>2. Moves(i, t, u)
    BY ThreadMoves DEF Types
  <1>3. /\ t \in ThreadRec /\ u \in ThreadRec /\ t.stream = "video" /\ wire \in Seq(Packet)
        /\ t.index \in Nat
    BY TypesStay DEF Types, Threads, Numbers, OneStreams, Next, ThreadRec
  <1>4. SUFFICES FragmentsFollow'
                 /\ (u.pc \in {"prio", "lock", "send"} /\ u.index > 1 => LastIs(wire', u.id, u.index - 1, u.count))
                 /\ (u.pc = "sent" => LastIs(wire', u.id, u.index, u.count))
    BY <1>1 DEF Continued
  <1>5. /\ t.pc \in {"prio", "lock", "send"} /\ t.index > 1 => LastIs(wire, t.id, t.index - 1, t.count)
        /\ t.pc = "sent" => LastIs(wire, t.id, t.index, t.count)
    BY DEF Continued
  <1> HIDE DEF t, u
  <1>6. CASE ThreadSends(i)
    <2>1. t.pc = "send" /\ u.pc \in {"sent", "failed"} /\ SamePacket(t, u)
      BY <1>2, <1>6 DEF Moves
    <2>2. CASE wire' = wire
      <3>1. FragmentsFollow'
        BY <2>2 DEF FragmentsFollow, LastVideo
      <3>2. u.pc = "failed"
        <4>1. Goto(i, "failed")
          BY <1>3, <1>6, <2>2 DEF ThreadSends
        <4>2. QED
          BY <4>1 DEF Goto, Types, Threads, ThreadRec, u
      <3>3. QED
        BY <3>1, <3>2
    <2>3. CASE wire' # wire
      <3>1. wire' = Append(wire, p)
        BY <1>6, <2>3 DEF ThreadSends, t
      <3>2. p \in Packet /\ p.kind = "video" /\ p.id = t.id /\ p.index = t.index /\ p.count = t.count
        BY <1>3, Packets
      <3> HIDE DEF p
      <3>3. FragmentsFollow' /\ LastIs(wire', t.id, t.index, t.count)
        BY <1>3, <1>5, <2>1, <3>1, <3>2, VideoAppended
      <3>4. QED
        BY <2>1, <3>3 DEF SamePacket
    <2>4. QED
      BY <2>2, <2>3
  <1>7. CASE ~ThreadSends(i)
    <2>1. /\ FragmentsFollow'
          /\ \A id, n, c : LastIs(wire, id, n, c) => LastIs(wire', id, n, c)
      <3>1. CASE wire' = wire
        BY <3>1 DEF FragmentsFollow, LastVideo
      <3>2. CASE wire' # wire
        <4>1. wire' = Append(wire, [kind |-> "init"])
          BY <1>7, <3>2 DEF ThreadNext, ThreadStarts, ThreadTests, ThreadTakesPriority, ThreadLocks,
                            ThreadGivesBack, ThreadLoads, ThreadStores, link
        <4>2. [kind |-> "init"] \in Packet
          BY Packets
        <4>3. QED
          BY <1>3, <4>1, <4>2, OtherAppended
      <3>3. QED
        BY <3>1, <3>2
    <2>2. CASE ThreadTakesPriority(i) \/ ThreadLocks(i)
      BY <1>2, <1>5, <2>1, <2>2 DEF Moves, SamePacket
    <2>3. CASE ThreadGivesBack(i)
      <3>1. CASE u.pc = "test"
        BY <2>1, <3>1
      <3>2. CASE u.pc # "test"
        <4>1. t.pc = "sent" /\ u.pc = "prio" /\ u.id = t.id /\ u.index = t.index + 1 /\ u.count = t.count
          BY <1>2, <2>3, <3>2 DEF Moves
        <4>2. LastIs(wire', t.id, t.index, t.count) /\ u.index - 1 = t.index
          BY <1>3, <1>5, <2>1, <4>1
        <4>3. QED
          BY <2>1, <4>1, <4>2
      <3>3. QED
        BY <3>1, <3>2
    <2>4. CASE ThreadStarts(i) \/ ThreadTests(i) \/ ThreadLoads(i) \/ ThreadStores(i)
      BY <1>2, <2>1, <2>4 DEF Moves
    <2>5. QED
      BY <1>7, <2>2, <2>3, <2>4 DEF ThreadNext
  <1>8. QED
    BY <1>6, <1>7

-----------------------------------------------------------------------------
(* The inductive invariant of a peer that asks for video only.             *)
VideoInv == SourceInv /\ OneStreams /\ Continued /\ FragmentsFollow

(* It holds in every state of such a connection. *)
THEOREM VideoInvariant == ASSUME VideoOnly PROVE Spec => []VideoInv
  <1>1. Init => VideoInv
    <2>1. ASSUME Init PROVE Continued /\ FragmentsFollow
      <3>1. wire = <<>> /\ \A i \in Thread : threads[i].pc = "none"
        BY <2>1 DEF Init, NoThread
      <3>2. QED
        BY <3>1 DEF Continued, FragmentsFollow
    <2>2. QED
      BY <2>1, InitInv, InitAlone DEF VideoInv
  <1>2. ASSUME VideoInv, [Next]_vars PROVE VideoInv'
    <2>1. SourceInv /\ Types /\ Created /\ OneStreams /\ Continued /\ FragmentsFollow
      BY <1>2 DEF VideoInv, SourceInv
    <2>2. SourceInv' /\ OneStreams'
      BY <1>2, <2>1, SourceStays, AloneStays
    <2>3. Continued' /\ FragmentsFollow'
      <3>1. CASE UNCHANGED vars
        BY <2>1, <3>1 DEF vars, link, Continued, FragmentsFollow, LastVideo
      <3>2. CASE ControlReceives \/ ControlNext
        BY <2>1, <3>2, ControlContinued
      <3>3. ASSUME NEW i \in Thread, ThreadNext(i) PROVE Continued' /\ FragmentsFollow'
        BY <2>1, <3>3, ThreadContinued
      <3>4. QED
        BY <1>2, <3>1, <3>2, <3>3 DEF Next, Ended
    <2>4. QED
      BY <2>2, <2>3 DEF VideoInv
  <1>3. QED
    BY <1>1, <1>2, PTL DEF Spec

(* onclose frees the app only when no streaming thread will use it again,  *)
(* when only video was asked for: the polling loop of stop_video_stream    *)
(* waits for the store that is the last access of h264_streaming.          *)
THEOREM AppAliveAlways == ASSUME VideoOnly PROVE Spec => []AppAlive
  <1>1. VideoInv => AppAlive
    BY DEF VideoInv, OneStreams, TodoFits, AppAlive, Live
  <1>2. QED
    BY VideoInvariant, <1>1, PTL

(* However many fragments a frame is cut into, they follow each other on   *)
(* the wire, whatever answers and failed sends come between them, when     *)
(* only video was asked for (send_video_media): there is never a second    *)
(* video thread.                                                           *)
THEOREM FragmentsFollowAlways == ASSUME VideoOnly PROVE Spec => []FragmentsFollow
  <1>1. VideoInv => FragmentsFollow
    BY DEF VideoInv
  <1>2. QED
    BY VideoInvariant, <1>1, PTL
=============================================================================
