------------------------- MODULE ClientVideoProofs -------------------------
(***************************************************************************)
(* The client's queue and decoder for every queue limit, threshold, burst  *)
(* and number of units: what overflow, trimming and recovery leave is an   *)
(* uninterrupted run, and the decoder never meets a gap.                   *)
(***************************************************************************)
EXTENDS ClientVideo, WellFoundedInduction, TLAPS

(* q is the run of the frames that end with number n. *)
Run(q, wait, n) ==
  /\ \A i \in DOMAIN q : q[i].n = n - (Len(q) - i)
  /\ wait => q = <<>>

(* The queue starts with a keyframe. *)
LedByKey(q) == q # <<>> /\ q[1].key

(* What can follow in the decoder: nothing before a keyframe, or the       *)
(* queue's first frame, which comes right after frame number last.         *)
Linked(q, wait, n, ok, last) == wait \/ LedByKey(q) \/ (ok /\ last = n - Len(q))

Short(q) == Len(q) <= MaxQueued /\ (Len(q) > CatchUp => Keys(q) \subseteq {1})

(* The newest frame of the queue is f. *)
EndsWith(q, f) == q # <<>> /\ q[Len(q)] = f

-----------------------------------------------------------------------------
(* Every set of positions in a sequence has a greatest one. *)
LEMMA LeastNat ==
  ASSUME NEW T, T \subseteq Nat, T # {}
  PROVE  \E x \in T : \A y \in T : x <= y
  <1>1. PICK x \in T : \A y \in T : ~(<<y, x>> \in OpToRel(<, Nat))
    BY NatLessThanWellFounded, WFMin
  <1>2. \A y \in T : ~(y < x)
    <2>1. SUFFICES ASSUME NEW y \in T, y < x PROVE FALSE
      OBVIOUS
    <2>2. <<y, x>> \in OpToRel(<, Nat)
      BY <2>1 DEF OpToRel
    <2>3. QED
      BY <1>1, <2>2
  <1>3. QED
    BY <1>2

(* A set of positions, such as those of the keyframes, has a greatest element. *)
LEMMA Greatest ==
  ASSUME NEW m \in Nat, NEW K, K \subseteq 1 .. m, K # {}
  PROVE  \E i \in K : \A j \in K : j <= i
  <1> DEFINE T == {m - i : i \in K}
  <1>1. T \subseteq Nat /\ T # {}
    <2>1. \A i \in K : m - i \in Nat
      OBVIOUS
    <2>2. PICK i \in K : TRUE
      OBVIOUS
    <2>3. m - i \in T
      OBVIOUS
    <2>4. QED
      BY <2>1, <2>3
  <1> HIDE DEF T
  <1>2. PICK x \in T : \A y \in T : x <= y
    BY <1>1, LeastNat
  <1>3. PICK i \in K : x = m - i
    BY <1>2 DEF T
  <1>4. \A j \in K : m - j \in T
    BY DEF T
  <1>5. \A j \in K : j <= i
    BY <1>2, <1>3, <1>4
  <1>6. QED
    BY <1>5

(* enqueue_video_packet keeps the run and its link to the decoder, and     *)
(* never drops a keyframe that arrives.                                    *)
LEMMA EnqueueKeeps ==
  ASSUME NEW q \in Seq(Frame), NEW wait \in BOOLEAN, NEW n \in Nat, NEW f \in Frame,
         f.n = n + 1, NEW ok \in BOOLEAN, NEW last \in Nat,
         Run(q, wait, n), Len(q) <= MaxQueued,
         NEW e, e = Enqueue(q, wait, f)
  PROVE  /\ e.q \in Seq(Frame) /\ e.wait \in BOOLEAN
         /\ Len(e.q) <= MaxQueued
         /\ Run(e.q, e.wait, n + 1)
         /\ Linked(q, wait, n, ok, last) => Linked(e.q, e.wait, n + 1, ok, last)
         /\ f.key => EndsWith(e.q, f)
  <1>0. f.key \in BOOLEAN /\ MaxQueued \in Nat \ {0}
    BY VideoAssumption DEF Frame
  <1>1. CASE wait /\ ~f.key
    <2>1. e.q = q /\ e.wait = wait
      BY <1>1 DEF Enqueue
    <2>2. q = <<>> /\ wait
      BY <1>1 DEF Run
    <2>3. Run(q, wait, n + 1)
      BY <2>2 DEF Run
    <2>4. Linked(q, wait, n + 1, ok, last)
      BY <2>2 DEF Linked
    <2>5. QED
      BY <1>1, <2>1, <2>3, <2>4
  <1>2. CASE ~(wait /\ ~f.key) /\ Len(q) < MaxQueued
    <2>1. e.q = Append(q, f) /\ e.wait = FALSE
      BY <1>2 DEF Enqueue
    <2>2. /\ Append(q, f) \in Seq(Frame) /\ Len(Append(q, f)) = Len(q) + 1
          /\ \A i \in 1 .. Len(q) : Append(q, f)[i] = q[i]
          /\ Append(q, f)[Len(q) + 1] = f
      OBVIOUS
    <2>3. \A i \in 1 .. Len(q) + 1 : Append(q, f)[i].n = (n + 1) - ((Len(q) + 1) - i)
      BY <2>2 DEF Run
    <2>4. Run(e.q, e.wait, n + 1)
      BY <2>1, <2>2, <2>3 DEF Run
    <2>5. ASSUME Linked(q, wait, n, ok, last)
          PROVE  Linked(e.q, e.wait, n + 1, ok, last)
      <3>1. CASE wait
        <4>1. q = <<>> /\ f.key
          BY <1>0, <1>2, <3>1 DEF Run
        <4>2. QED
          BY <2>1, <2>2, <4>1 DEF Linked, LedByKey
      <3>2. CASE LedByKey(q)
        BY <2>1, <2>2, <3>2 DEF Linked, LedByKey
      <3>3. CASE ok /\ last = n - Len(q)
        BY <2>1, <2>2, <3>3 DEF Linked
      <3>4. QED
        BY <2>5, <3>1, <3>2, <3>3 DEF Linked
    <2>6. EndsWith(e.q, f)
      <3>1. e.q[Len(e.q)] = f
        BY <2>1, <2>2
      <3>2. e.q # <<>>
        BY <2>1
      <3>3. QED
        BY <3>1, <3>2 DEF EndsWith
    <2>7. Len(e.q) <= MaxQueued
      BY <1>0, <1>2, <2>1, <2>2
    <2>8. QED
      BY <2>1, <2>2, <2>4, <2>5, <2>6, <2>7
  <1>3. CASE ~(wait /\ ~f.key) /\ ~(Len(q) < MaxQueued) /\ f.key
    <2>1. e.q = <<f>> /\ e.wait = FALSE
      BY <1>3 DEF Enqueue
    <2>2. /\ <<f>> \in Seq(Frame) /\ <<f>> # <<>> /\ Len(<<f>>) = 1 /\ <<f>>[1] = f
          /\ DOMAIN <<f>> = 1 .. 1
      OBVIOUS
    <2>3. Run(e.q, e.wait, n + 1)
      BY <2>1, <2>2 DEF Run
    <2>4. Linked(e.q, e.wait, n + 1, ok, last)
      BY <1>3, <2>1, <2>2 DEF Linked, LedByKey
    <2>5. EndsWith(e.q, f)
      BY <2>1, <2>2 DEF EndsWith
    <2>6. Len(e.q) <= MaxQueued
      BY <1>0, <2>1, <2>2
    <2>7. QED
      BY <2>1, <2>2, <2>3, <2>4, <2>5, <2>6
  <1>4. CASE ~(wait /\ ~f.key) /\ ~(Len(q) < MaxQueued) /\ ~f.key
    <2>1. e.q = <<>> /\ e.wait = TRUE
      BY <1>4 DEF Enqueue
    <2>2. Run(e.q, e.wait, n + 1)
      BY <2>1 DEF Run
    <2>3. Linked(e.q, e.wait, n + 1, ok, last)
      BY <2>1 DEF Linked
    <2>4. e.q \in Seq(Frame) /\ Len(e.q) <= MaxQueued
      BY <1>0, <2>1
    <2>5. QED
      BY <1>4, <2>1, <2>2, <2>3, <2>4
  <1>5. QED
    BY <1>0, <1>1, <1>2, <1>3, <1>4

(* trim_video_queue_for_latency keeps them as well, and leaves a backlog   *)
(* beyond the threshold only behind its latest keyframe.                   *)
LEMMA TrimKeeps ==
  ASSUME NEW q \in Seq(Frame), NEW wait \in BOOLEAN, NEW n \in Nat, NEW f \in Frame,
         NEW ok \in BOOLEAN, NEW last \in Nat,
         Run(q, wait, n), Len(q) <= MaxQueued,
         NEW t, t = Trim(q, wait)
  PROVE  /\ t.q \in Seq(Frame) /\ t.wait \in BOOLEAN
         /\ Short(t.q)
         /\ Run(t.q, t.wait, n)
         /\ Linked(q, wait, n, ok, last) => Linked(t.q, t.wait, n, ok, last)
         /\ f.key /\ EndsWith(q, f) => EndsWith(t.q, f)
  <1>0. MaxQueued \in Nat \ {0} /\ CatchUp \in Nat \ {0}
    BY VideoAssumption
  <1>1. CASE Len(q) <= CatchUp
    <2>1. t.q = q /\ t.wait = wait
      BY <1>1 DEF Trim
    <2>2. QED
      BY <1>0, <1>1, <2>1 DEF Short
  <1>2. CASE ~(Len(q) <= CatchUp) /\ Keys(q) = {}
    <2>1. t.q = <<>> /\ t.wait = TRUE
      BY <1>2 DEF Trim
    <2>2. ~(f.key /\ EndsWith(q, f))
      BY <1>0, <1>2 DEF Keys, EndsWith
    <2>3. Run(t.q, t.wait, n)
      BY <2>1 DEF Run
    <2>4. Linked(t.q, t.wait, n, ok, last)
      BY <2>1 DEF Linked
    <2>5. t.q \in Seq(Frame) /\ Short(t.q)
      BY <1>0, <2>1 DEF Short
    <2>6. QED
      BY <2>1, <2>2, <2>3, <2>4, <2>5
  <1>3. CASE ~(Len(q) <= CatchUp) /\ Keys(q) # {}
    <2> DEFINE k == CHOOSE i \in Keys(q) : \A j \in Keys(q) : j <= i
    <2>1. k \in Keys(q) /\ \A j \in Keys(q) : j <= k
      <3>1. Keys(q) \subseteq 1 .. Len(q)
        BY DEF Keys
      <3>2. \E i \in Keys(q) : \A j \in Keys(q) : j <= i
        BY <1>3, <3>1, Greatest
      <3>3. QED
        BY <3>2
    <2>2. t.q = SubSeq(q, k, Len(q)) /\ t.wait = wait
      BY <1>3 DEF Trim
    <2> HIDE DEF k
    <2>3. k \in 1 .. Len(q) /\ q[k].key
      BY <2>1 DEF Keys
    <2>4. /\ t.q \in Seq(Frame) /\ Len(t.q) = Len(q) - k + 1
          /\ \A i \in 1 .. Len(q) - k + 1 : t.q[i] = q[k + i - 1]
      BY <2>2, <2>3
    <2>5. Keys(t.q) \subseteq {1}
      <3>1. SUFFICES ASSUME NEW i \in Keys(t.q) PROVE i = 1
        OBVIOUS
      <3>2. i \in 1 .. Len(q) - k + 1 /\ q[k + i - 1].key
        BY <2>4 DEF Keys
      <3>3. k + i - 1 \in Keys(q)
        BY <2>3, <3>2 DEF Keys
      <3>4. QED
        BY <2>1, <2>3, <3>2, <3>3
    <2>6. ~wait
      BY <1>0, <1>3 DEF Run
    <2>7. Run(t.q, t.wait, n)
      <3>1. \A i \in 1 .. Len(q) - k + 1 : q[k + i - 1].n = n - (Len(q) - (k + i - 1))
        BY <2>3 DEF Run
      <3>2. QED
        BY <2>2, <2>3, <2>4, <2>6, <3>1 DEF Run
    <2>8. LedByKey(t.q)
      BY <2>3, <2>4 DEF LedByKey
    <2>9. ASSUME f.key, EndsWith(q, f) PROVE EndsWith(t.q, f)
      <3>1. Len(q) \in Keys(q)
        BY <2>9, <1>0, <1>3 DEF EndsWith, Keys
      <3>2. k = Len(q)
        BY <2>1, <2>3, <3>1
      <3>3. QED
        BY <2>9, <2>4, <3>2 DEF EndsWith
    <2>10. Short(t.q)
      BY <1>0, <2>3, <2>4, <2>5 DEF Short
    <2>11. Linked(t.q, t.wait, n, ok, last)
      BY <2>8 DEF Linked
    <2>12. QED
      BY <2>2, <2>4, <2>7, <2>9, <2>10, <2>11
  <1>4. QED
    BY <1>1, <1>2, <1>3
-----------------------------------------------------------------------------
(* The main thread has a packet in hand exactly while it decodes. *)
Ok == main = "decode" \/ sync
Last == IF main = "decode" THEN hand.n ELSE fed

(* The inductive invariant. *)
VideoInv ==
  /\ queue \in Seq(Frame) /\ hand \in Frame /\ waiting \in BOOLEAN /\ sync \in BOOLEAN
  /\ arrived \in Nat /\ fed \in Nat
  /\ QueueIsRun
  /\ Backlog
  /\ main # "recover" => Linked(queue, waiting, arrived, Ok, Last)
  /\ DecoderContinuity

(* The queue is empty and the decoder waits for a keyframe.                *)
LEMMA InitInv == Init => VideoInv
  <1>1. SUFFICES ASSUME Init PROVE VideoInv
    OBVIOUS
  <1>2. MaxQueued \in Nat \ {0} /\ CatchUp \in Nat \ {0}
    BY VideoAssumption
  <1>3. QueueIsRun /\ Linked(queue, waiting, arrived, Ok, Last)
    BY <1>1 DEF Init, QueueIsRun, Linked
  <1>4. Backlog
    BY <1>1, <1>2 DEF Init, Backlog
  <1>5. /\ queue \in Seq(Frame) /\ waiting \in BOOLEAN /\ sync \in BOOLEAN
        /\ arrived \in Nat /\ fed \in Nat
    <2>1. queue = <<>> /\ waiting = TRUE /\ sync = FALSE /\ arrived = 0 /\ fed = 0
      BY <1>1 DEF Init
    <2>2. <<>> \in Seq(Frame)
      OBVIOUS
    <2>3. waiting \in BOOLEAN /\ sync \in BOOLEAN
      BY <2>1, Zenon
    <2>4. QED
      BY <2>1, <2>2, <2>3
  <1>6. hand \in Frame /\ DecoderContinuity
    BY <1>1 DEF Init, Frame, DecoderContinuity
  <1>7. QED
    BY <1>3, <1>4, <1>5, <1>6 DEF VideoInv

(* A unit that the reader hands over, whatever the main thread is doing. *)
LEMMA TakeUnitInv ==
  ASSUME VideoInv, NEW kind, TakeUnit(kind), UNCHANGED player
  PROVE  /\ VideoInv'
         /\ arrived' > arrived /\ kind = "key" =>
              EndsWith(queue', [n |-> arrived', key |-> TRUE])
  <1>1. CASE kind = "config"
    <2>1. UNCHANGED <<queue, waiting, arrived>>
      BY <1>1 DEF TakeUnit
    <2>2. VideoInv'
      BY <2>1 DEF VideoInv, QueueIsRun, Backlog, Keys, Linked, LedByKey, Ok, Last,
                  DecoderContinuity, player
    <2>3. QED
      BY <1>1, <2>2
  <1>2. CASE kind # "config"
    <2> DEFINE f == [n |-> arrived + 1, key |-> kind = "key"]
               e == Enqueue(queue, waiting, f)
               t == Trim(e.q, e.wait)
    <2>1. queue' = t.q /\ waiting' = t.wait /\ arrived' = arrived + 1
      BY <1>2 DEF TakeUnit
    <2>2. /\ f \in Frame /\ f.n = arrived + 1 /\ f.key = (kind = "key")
          /\ Ok \in BOOLEAN /\ Last \in Nat
      BY DEF VideoInv, Frame, Ok, Last
    <2>3. /\ queue \in Seq(Frame) /\ waiting \in BOOLEAN /\ arrived \in Nat
          /\ Run(queue, waiting, arrived) /\ Len(queue) <= MaxQueued
      BY DEF VideoInv, QueueIsRun, Run, Backlog
    <2> HIDE DEF f, e, t
    <2>4. /\ e.q \in Seq(Frame) /\ e.wait \in BOOLEAN
          /\ Len(e.q) <= MaxQueued
          /\ Run(e.q, e.wait, arrived + 1)
          /\ Linked(queue, waiting, arrived, Ok, Last)
               => Linked(e.q, e.wait, arrived + 1, Ok, Last)
          /\ f.key => EndsWith(e.q, f)
      BY <2>2, <2>3, EnqueueKeeps DEF e
    <2>5. /\ t.q \in Seq(Frame) /\ t.wait \in BOOLEAN
          /\ Short(t.q)
          /\ Run(t.q, t.wait, arrived + 1)
          /\ Linked(e.q, e.wait, arrived + 1, Ok, Last)
               => Linked(t.q, t.wait, arrived + 1, Ok, Last)
          /\ f.key /\ EndsWith(e.q, f) => EndsWith(t.q, f)
      <3>1. arrived + 1 \in Nat
        BY <2>3
      <3>2. QED
        BY <2>2, <2>4, <3>1, TrimKeeps DEF t
    <2>6. Ok' = Ok /\ Last' = Last /\ (DecoderContinuity' <=> DecoderContinuity)
          /\ main' = main /\ hand' = hand /\ sync' = sync /\ fed' = fed
      BY DEF player, Ok, Last, DecoderContinuity
    <2>7. QueueIsRun'
      BY <2>1, <2>5 DEF QueueIsRun, Run
    <2>8. Backlog'
      BY <2>1, <2>5 DEF Backlog, Short, Keys
    <2>9. main' # "recover" => Linked(queue', waiting', arrived', Ok', Last')
      BY <2>1, <2>4, <2>5, <2>6 DEF VideoInv
    <2>10. VideoInv'
      <3>1. queue' \in Seq(Frame) /\ waiting' \in BOOLEAN /\ arrived' \in Nat
        BY <2>1, <2>3, <2>5
      <3>2. hand' \in Frame /\ sync' \in BOOLEAN /\ fed' \in Nat /\ DecoderContinuity'
        BY <2>6 DEF VideoInv
      <3>3. QED
        BY <2>7, <2>8, <2>9, <3>1, <3>2 DEF VideoInv, Linked, LedByKey, Ok, Last
    <2>11. kind = "key" => EndsWith(queue', [n |-> arrived', key |-> TRUE])
      BY <2>1, <2>2, <2>4, <2>5 DEF f
    <2>12. QED
      BY <2>10, <2>11
  <1>3. QED
    BY <1>1, <1>2

(* The front packet is popped: it starts a run, or follows what the        *)
(* decoder took last.                                                      *)
LEMMA MainPopInv ==
  ASSUME VideoInv, MainPop
  PROVE  VideoInv'
  <1>1. CASE running /\ round < Burst /\ queue # <<>>
    <2>1. /\ hand' = Head(queue) /\ queue' = Tail(queue) /\ main = "pop" /\ main' = "decode"
          /\ waiting' = waiting /\ arrived' = arrived /\ sync' = sync /\ fed' = fed
      BY <1>1 DEF MainPop, input
    <2>2. /\ queue \in Seq(Frame) /\ arrived \in Nat /\ Len(queue) \in Nat \ {0}
          /\ MaxQueued \in Nat /\ CatchUp \in Nat \ {0}
      BY <1>1, VideoAssumption DEF VideoInv
    <2>3. /\ Head(queue) = queue[1] /\ queue[1] \in Frame
          /\ Tail(queue) \in Seq(Frame) /\ Len(Tail(queue)) = Len(queue) - 1
          /\ \A i \in 1 .. Len(queue) - 1 : Tail(queue)[i] = queue[i + 1]
      BY <1>1, <2>2
    <2>4. ~waiting /\ \A i \in 1 .. Len(queue) : queue[i].n = arrived - (Len(queue) - i)
      BY <1>1, <2>2 DEF VideoInv, QueueIsRun
    <2>5. hand'.n = arrived' - Len(queue')
      BY <2>1, <2>2, <2>3, <2>4
    <2>6. QueueIsRun'
      <3>1. \A i \in 1 .. Len(queue) - 1 : Tail(queue)[i].n = arrived - ((Len(queue) - 1) - i)
        BY <2>2, <2>3, <2>4
      <3>2. QED
        BY <2>1, <2>2, <2>3, <2>4, <3>1 DEF QueueIsRun
    <2>7. Backlog'
      <3>1. Len(queue) <= MaxQueued /\ (Len(queue) > CatchUp => Keys(queue) \subseteq {1})
        BY DEF VideoInv, Backlog
      <3>2. ASSUME Len(queue) > CatchUp PROVE Keys(queue') = {}
        <4>1. SUFFICES ASSUME NEW i \in Keys(queue') PROVE FALSE
          OBVIOUS
        <4>2. i \in 1 .. Len(queue) - 1 /\ queue[i + 1].key
          BY <2>1, <2>2, <2>3 DEF Keys
        <4>3. i + 1 \in Keys(queue)
          BY <2>2, <4>2 DEF Keys
        <4>4. QED
          BY <3>1, <3>2, <4>2, <4>3
      <3>3. Len(queue') = Len(queue) - 1
        BY <2>1, <2>3
      <3>4. QED
        BY <2>2, <3>1, <3>2, <3>3 DEF Backlog
    <2>8. Linked(queue', waiting', arrived', Ok', Last')
      BY <2>1, <2>5 DEF Linked, Ok, Last
    <2>9. DecoderContinuity'
      <3>1. CASE LedByKey(queue)
        BY <2>1, <2>3, <3>1 DEF LedByKey, DecoderContinuity
      <3>2. CASE sync /\ fed = arrived - Len(queue)
        <4>1. fed = hand'.n - 1
          BY <2>1, <2>2, <2>3, <2>5, <3>2
        <4>2. QED
          BY <2>1, <3>2, <4>1 DEF DecoderContinuity
      <3>3. QED
        BY <2>1, <2>4, <3>1, <3>2 DEF VideoInv, Linked, Ok, Last
    <2>10. /\ queue' \in Seq(Frame) /\ hand' \in Frame /\ waiting' \in BOOLEAN
           /\ sync' \in BOOLEAN /\ arrived' \in Nat /\ fed' \in Nat
      BY <2>1, <2>3 DEF VideoInv
    <2>11. QED
      BY <2>6, <2>7, <2>8, <2>9, <2>10 DEF VideoInv, Linked, LedByKey, Ok, Last
  <1>2. CASE ~(running /\ round < Burst /\ queue # <<>>)
    <2>1. /\ hand' = hand /\ queue' = queue /\ main = "pop" /\ main' = "events"
          /\ waiting' = waiting /\ arrived' = arrived /\ sync' = sync /\ fed' = fed
      BY <1>2 DEF MainPop, input
    <2>2. QED
      BY <2>1 DEF VideoInv, QueueIsRun, Backlog, Keys, Linked, LedByKey, Ok, Last, DecoderContinuity
  <1>3. QED
    BY <1>1, <1>2

(* The decoder takes the packet, so the queue now follows it. *)
LEMMA MainDecodeInv ==
  ASSUME VideoInv, MainDecode
  PROVE  VideoInv'
  <1>1. /\ main = "decode" /\ main' = "pop" /\ queue' = queue /\ waiting' = waiting
        /\ arrived' = arrived /\ hand' = hand
    BY DEF MainDecode, input, shared
  <1>2. sync' = TRUE /\ fed' = hand.n
    BY DEF MainDecode, VideoInv, DecoderContinuity
  <1>3. hand.n \in Nat
    BY DEF VideoInv, Frame
  <1>4. Linked(queue', waiting', arrived', Ok', Last')
    BY <1>1, <1>2 DEF VideoInv, Linked, LedByKey, Ok, Last
  <1>5. QED
    BY <1>1, <1>2, <1>3, <1>4
    DEF VideoInv, QueueIsRun, Backlog, Keys, Linked, LedByKey, Ok, Last, DecoderContinuity

(* A failure leaves the link to the recovery, which clears the queue and   *)
(* makes the reader wait.                                                  *)
LEMMA MainDecodeFailsInv ==
  ASSUME VideoInv, MainDecodeFails
  PROVE  VideoInv'
  <1>1. /\ main' = "recover" /\ queue' = queue /\ waiting' = waiting /\ arrived' = arrived
        /\ hand' = hand /\ sync' = FALSE /\ fed' = 0
    BY DEF MainDecodeFails, input, shared
  <1>2. QED
    BY <1>1 DEF VideoInv, QueueIsRun, Backlog, Keys, DecoderContinuity

(* recover_video_decoder: the queue is cleared and a keyframe waited for.  *)
LEMMA MainRecoverInv ==
  ASSUME VideoInv, MainRecover
  PROVE  VideoInv'
  <1>1. /\ main' = "events" /\ queue' = <<>> /\ waiting' = TRUE /\ arrived' = arrived
        /\ hand' = hand /\ sync' = sync /\ fed' = fed
    BY DEF MainRecover, input
  <1>2. QueueIsRun'
    BY <1>1 DEF QueueIsRun
  <1>3. Backlog'
    BY <1>1, VideoAssumption DEF Backlog
  <1>4. Linked(queue', waiting', arrived', Ok', Last')
    BY <1>1 DEF Linked
  <1>5. DecoderContinuity'
    BY <1>1 DEF DecoderContinuity
  <1>6. /\ queue' \in Seq(Frame) /\ hand' \in Frame /\ waiting' \in BOOLEAN
        /\ sync' \in BOOLEAN /\ arrived' \in Nat /\ fed' \in Nat
    BY <1>1 DEF VideoInv
  <1>7. QED
    BY <1>2, <1>3, <1>4, <1>5, <1>6 DEF VideoInv, Linked, LedByKey, Ok, Last

(* A packet that is lost or completes nothing changes no shared state. *)
LEMMA Unshared ==
  ASSUME VideoInv, UNCHANGED <<queue, waiting, arrived, hand, sync, fed>>,
         \/ main' = main
         \/ main # "recover" /\ main # "decode" /\ main' # "decode"
  PROVE  VideoInv'
  BY DEF VideoInv, QueueIsRun, Backlog, Keys, Linked, LedByKey, Ok, Last, DecoderContinuity

(* A packet from the network: a frame enqueued and the queue trimmed, or not. *)
LEMMA ReaderPacketInv ==
  ASSUME VideoInv, ReaderPacket
  PROVE  /\ VideoInv'
         /\ arrived' > arrived /\ sender'.kind = "key" /\ sender'.count = 1 =>
              EndsWith(queue', [n |-> arrived', key |-> TRUE])
  <1> DEFINE f == Collect(frag, Packet)
  <1>1. UNCHANGED player
    BY DEF ReaderPacket
  <1>2. Packet.kind = sender'.kind /\ Packet.count = sender'.count
    BY DEF Packet
  <1>3. \/ Packet.count = 1 /\ TakeUnit(Packet.kind)
        \/ Packet.count # 1 /\ TakeUnit(f.kind)
        \/ UNCHANGED <<queue, waiting, arrived>>
    BY DEF ReaderPacket
  <1> HIDE DEF f
  <1>4. CASE Packet.count = 1 /\ TakeUnit(Packet.kind)
    BY <1>1, <1>2, <1>4, TakeUnitInv
  <1>5. CASE Packet.count # 1 /\ TakeUnit(f.kind)
    BY <1>1, <1>2, <1>5, TakeUnitInv
  <1>6. CASE UNCHANGED <<queue, waiting, arrived>>
    <2>1. VideoInv'
      BY <1>1, <1>6, Unshared DEF player
    <2>2. ~(arrived' > arrived)
      BY <1>6 DEF VideoInv
    <2>3. QED
      BY <2>1, <2>2
  <1>7. QED
    BY <1>3, <1>4, <1>5, <1>6

(* What one step does to the invariant, and to a keyframe that arrives. *)
KeyAccepted ==
  arrived' > arrived /\ (sender'.kind = "key" /\ sender'.count = 1) =>
    queue' # <<>> /\ queue'[Len(queue')] = [n |-> arrived', key |-> TRUE]

(* Every step of either thread keeps VideoInv and accepts the keyframes.   *)
LEMMA NextInv ==
  ASSUME VideoInv, [Next]_vars
  PROVE  VideoInv' /\ KeyAccepted
  <1> USE DEF KeyAccepted
  <1>0. ~(arrived > arrived)
    BY DEF VideoInv
  <1>1. CASE MainEvents
    <2>1. UNCHANGED <<queue, waiting, arrived, hand, sync, fed>>
      BY <1>1 DEF MainEvents, input, shared
    <2>2. main # "recover" /\ main # "decode" /\ main' # "decode"
      BY <1>1 DEF MainEvents
    <2>3. QED
      BY <1>0, <2>1, <2>2, Unshared
  <1>2. CASE MainPop
    BY <1>0, <1>2, MainPopInv DEF MainPop, input
  <1>3. CASE MainDecode
    BY <1>0, <1>3, MainDecodeInv DEF MainDecode, input
  <1>4. CASE MainDecodeFails
    BY <1>0, <1>4, MainDecodeFailsInv DEF MainDecodeFails, input
  <1>5. CASE MainRecover
    BY <1>0, <1>5, MainRecoverInv DEF MainRecover, input
  <1>6. CASE MainJoin
    <2>1. UNCHANGED <<queue, waiting, arrived, hand, sync, fed>>
      BY <1>6 DEF MainJoin, input, shared
    <2>2. main # "recover" /\ main # "decode" /\ main' # "decode"
      BY <1>6 DEF MainJoin
    <2>3. QED
      BY <1>0, <2>1, <2>2, Unshared
  <1>7. CASE ReaderPacket
    BY <1>7, ReaderPacketInv DEF EndsWith
  <1>8. CASE ReaderTest \/ ReaderBadPacket \/ ReaderEnds \/ Lose \/ Restart \/ Ended
             \/ UNCHANGED vars
    <2>1. UNCHANGED <<queue, waiting, arrived, hand, sync, fed, main>>
      BY <1>8 DEF ReaderTest, ReaderBadPacket, ReaderEnds, Lose, Restart, Ended,
                  vars, input, shared, player
    <2>2. QED
      BY <1>0, <2>1, Unshared
  <1>9. QED
    BY <1>1, <1>2, <1>3, <1>4, <1>5, <1>6, <1>7, <1>8 DEF Next, MainNext, ReaderNext

(* VideoInv holds in every state of the client.                            *)
THEOREM VideoInvariant == Spec => []VideoInv
  <1>1. VideoInv /\ [Next]_vars => VideoInv'
    BY NextInv
  <1>2. QED
    BY InitInv, <1>1, PTL DEF Spec

-----------------------------------------------------------------------------
(* The decoder never meets a gap (trim_video_queue_for_latency,            *)
(* enqueue_video_packet and the recovery of main), whatever the limits.    *)
THEOREM DecoderContinuityAlways == Spec => []DecoderContinuity
  <1>1. VideoInv => DecoderContinuity
    BY DEF VideoInv
  <1>2. QED
    BY VideoInvariant, <1>1, PTL

(* The queue is an uninterrupted run that ends with the newest frame, and  *)
(* empty while the reader waits for a keyframe (enqueue_video_packet).     *)
THEOREM QueueIsRunAlways == Spec => []QueueIsRun
  <1>1. VideoInv => QueueIsRun
    BY DEF VideoInv
  <1>2. QED
    BY VideoInvariant, <1>1, PTL

(* The backlog is bounded, and beyond the threshold only behind its one    *)
(* keyframe (trim_video_queue_for_latency).                                *)
THEOREM BacklogAlways == Spec => []Backlog
  <1>1. VideoInv => Backlog
    BY DEF VideoInv
  <1>2. QED
    BY VideoInvariant, <1>1, PTL

(* An unfragmented keyframe that arrives is the newest frame of the queue  *)
(* afterwards (enqueue_video_packet, trim_video_queue_for_latency).        *)
THEOREM KeyframeAcceptedAlways == Spec => KeyframeAccepted
  <1>1. VideoInv /\ [Next]_vars => [KeyAccepted]_vars
    BY NextInv
  <1>2. Spec => [][KeyAccepted]_vars
    BY VideoInvariant, <1>1, PTL DEF Spec
  <1>3. QED
    BY <1>2 DEF KeyframeAccepted, KeyAccepted
-----------------------------------------------------------------------------
(* Reassembly.  The invariant of the sender and the fragments says what a  *)
(* frame id can mean while the upstream session lasts, and that the reader *)
(* is never ahead of the sender.                                           *)
SenderOK ==
  /\ sender \in [unit : 0 .. MaxUnits, kind : Kind, count : {1} \cup FragCounts,
                 sent : Nat, id : Nat, nextId : Nat, restarts : Nat]
  /\ sender.sent \in 1 .. sender.count

FragOK ==
  /\ frag \in [active : BOOLEAN, id : Nat, kind : Kind, parts : Seq(0 .. MaxUnits)]
  /\ Len(frag.parts) \in {0} \cup FragCounts

(* In the first session an id is used once: fragments under the id of the  *)
(* unit being sent are fragments of that unit.                             *)
OneUnit ==
  sender.restarts = 0 =>
    /\ ~mixed
    /\ sender.count > 1 => sender.nextId = sender.id + 1
    /\ frag.active => frag.id < sender.nextId
    /\ (frag.active /\ sender.count > 1 /\ frag.id = sender.id) =>
         \A i \in 1 .. Len(frag.parts) : frag.parts[i] \in {0, sender.unit}

(* No more frames arrive than units are sent: once a unit under way has    *)
(* been counted, with the help of older fragments, it cannot complete      *)
(* again, for one of its fragments is gone.                                *)
Counted ==
  /\ arrived <= sender.unit
  /\ (arrived = sender.unit /\ sender.sent < sender.count /\ frag.active) =>
       \E i \in 1 .. Len(frag.parts) : i <= sender.sent /\ frag.parts[i] = 0

Taken == hand.n <= arrived /\ fed <= arrived /\ (main = "decode" => round < Burst)

Control ==
  /\ mixed \in BOOLEAN /\ running \in BOOLEAN /\ round \in 0 .. Burst
  /\ reader \in {"test", "read", "done"}
  /\ main \in {"events", "pop", "decode", "recover", "join", "done"}
  /\ faults \in 0 .. MaxFaults

FrameInv == SenderOK /\ FragOK /\ OneUnit /\ Counted /\ Taken /\ Control

(* Every unit is sent in one packet or more. *)
LEMMA CountIsNat ==
  ASSUME NEW c \in {1} \cup FragCounts
  PROVE  c \in Nat \ {0}
  BY VideoAssumption

(* The next packet is the next fragment of the same unit, or the first of  *)
(* a new one, which has an id of its own when it is cut.                   *)
LEMMA SendsStep ==
  ASSUME SenderOK, Sends
  PROVE  /\ SenderOK'
         /\ sender'.restarts = sender.restarts
         /\ \/ /\ sender.sent < sender.count /\ sender'.sent = sender.sent + 1
               /\ sender'.unit = sender.unit /\ sender'.count = sender.count
               /\ sender'.id = sender.id /\ sender'.nextId = sender.nextId
            \/ /\ sender'.unit = sender.unit + 1 /\ sender'.sent = 1
               /\ sender'.id = sender.nextId
               /\ sender'.count > 1 => sender'.nextId = sender.nextId + 1
               /\ ~(sender'.count > 1) => sender'.nextId = sender.nextId
  <1>0. FragCounts \subseteq Nat \ {0, 1} /\ MaxUnits \in Nat
    BY VideoAssumption
  <1>1. CASE sender.sent < sender.count /\ sender' = [sender EXCEPT !.sent = @ + 1]
    BY <1>0, <1>1 DEF SenderOK
  <1>2. CASE /\ sender.unit < MaxUnits
             /\ \E kind \in Kind, count \in {1} \cup FragCounts : sender' = NextUnit(kind, count)
    <2>1. PICK kind \in Kind, count \in {1} \cup FragCounts : sender' = NextUnit(kind, count)
      BY <1>2
    <2>2. count \in Nat \ {0} /\ sender.unit + 1 \in 0 .. MaxUnits
      BY <1>0, <1>2 DEF SenderOK
    <2>3. QED
      BY <1>0, <2>1, <2>2 DEF SenderOK, NextUnit
  <1>3. QED
    BY <1>1, <1>2 DEF Sends

(* What the fragments are once a fragment is taken. *)
LEMMA Collected ==
  ASSUME NEW f \in [active : BOOLEAN, id : Nat, kind : Kind, parts : Seq(0 .. MaxUnits)],
         NEW pkt \in [unit : 0 .. MaxUnits, kind : Kind, count : FragCounts, index : Nat, id : Nat],
         pkt.index \in 1 .. pkt.count,
         NEW g, g = Collect(f, pkt)
  PROVE  /\ g \in [active : BOOLEAN, id : Nat, kind : Kind, parts : Seq(0 .. MaxUnits)]
         /\ g.active /\ g.id = pkt.id /\ Len(g.parts) = pkt.count
         /\ \/ /\ f.active /\ f.id = pkt.id /\ Len(f.parts) = pkt.count
               /\ \A i \in 1 .. pkt.count :
                    g.parts[i] = IF i = pkt.index /\ f.parts[i] = 0 THEN pkt.unit ELSE f.parts[i]
            \/ /\ ~(f.active /\ f.id = pkt.id /\ Len(f.parts) = pkt.count)
               /\ \A i \in 1 .. pkt.count :
                    g.parts[i] = IF i = pkt.index THEN pkt.unit ELSE 0
  <1> DEFINE b == Begin(f, pkt)
  <1>0. pkt.count \in Nat /\ MaxUnits \in Nat
    BY VideoAssumption
  <1>1. /\ b.id = pkt.id /\ b.kind \in Kind /\ DOMAIN b.parts = 1 .. pkt.count
        /\ \A i \in 1 .. pkt.count : b.parts[i] \in 0 .. MaxUnits
        /\ \/ /\ f.active /\ f.id = pkt.id /\ Len(f.parts) = pkt.count
              /\ \A i \in 1 .. pkt.count : b.parts[i] = f.parts[i]
           \/ /\ ~(f.active /\ f.id = pkt.id /\ Len(f.parts) = pkt.count)
              /\ \A i \in 1 .. pkt.count : b.parts[i] = 0
    <2>1. CASE f.active /\ f.id = pkt.id /\ Len(f.parts) = pkt.count
      BY <2>1, <1>0 DEF Begin
    <2>2. CASE ~(f.active /\ f.id = pkt.id /\ Len(f.parts) = pkt.count)
      BY <2>2, <1>0 DEF Begin
    <2>3. QED
      BY <2>1, <2>2
  <1>2. g = [active |-> TRUE, id |-> b.id, kind |-> b.kind,
             parts |-> [i \in DOMAIN b.parts |->
                          IF i = pkt.index /\ b.parts[i] = 0 THEN pkt.unit ELSE b.parts[i]]]
    BY DEF Collect
  <1> HIDE DEF b
  <1>3. /\ g.active /\ g.id = pkt.id /\ g.kind \in Kind
        /\ g.parts = [i \in 1 .. pkt.count |->
                        IF i = pkt.index /\ b.parts[i] = 0 THEN pkt.unit ELSE b.parts[i]]
    BY <1>1, <1>2
  <1>4. g.parts \in Seq(0 .. MaxUnits) /\ Len(g.parts) = pkt.count
    <2>1. \A i \in 1 .. pkt.count :
            (IF i = pkt.index /\ b.parts[i] = 0 THEN pkt.unit ELSE b.parts[i]) \in 0 .. MaxUnits
      BY <1>1
    <2>2. QED
      BY <1>0, <1>3, <2>1
  <1>5. g \in [active : BOOLEAN, id : Nat, kind : Kind, parts : Seq(0 .. MaxUnits)]
    <2>1. g = [active |-> TRUE, id |-> pkt.id, kind |-> g.kind, parts |-> g.parts]
      BY <1>1, <1>2
    <2>2. QED
      BY <2>1, <1>3, <1>4
  <1>6. \/ /\ f.active /\ f.id = pkt.id /\ Len(f.parts) = pkt.count
           /\ \A i \in 1 .. pkt.count :
                g.parts[i] = IF i = pkt.index /\ f.parts[i] = 0 THEN pkt.unit ELSE f.parts[i]
        \/ /\ ~(f.active /\ f.id = pkt.id /\ Len(f.parts) = pkt.count)
           /\ \A i \in 1 .. pkt.count :
                g.parts[i] = IF i = pkt.index THEN pkt.unit ELSE 0
    <2>1. \A i \in 1 .. pkt.count :
            g.parts[i] = IF i = pkt.index /\ b.parts[i] = 0 THEN pkt.unit ELSE b.parts[i]
      BY <1>3
    <2>2. CASE /\ f.active /\ f.id = pkt.id /\ Len(f.parts) = pkt.count
               /\ \A i \in 1 .. pkt.count : b.parts[i] = f.parts[i]
      BY <2>1, <2>2
    <2>3. CASE /\ ~(f.active /\ f.id = pkt.id /\ Len(f.parts) = pkt.count)
               /\ \A i \in 1 .. pkt.count : b.parts[i] = 0
      BY <2>1, <2>3
    <2>4. QED
      BY <1>1, <2>2, <2>3
  <1>7. QED
    BY <1>3, <1>4, <1>5, <1>6

(* A packet that the reader does not see, and the sender's step with one   *)
(* it sees but does not keep.                                              *)
LEMMA SendsKeeps ==
  ASSUME SenderOK, FragOK, OneUnit, Counted, arrived \in Nat, Sends,
         UNCHANGED <<frag, mixed>>,
         arrived' = arrived \/ (arrived' = arrived + 1 /\ sender'.count = 1)
  PROVE  SenderOK' /\ FragOK' /\ OneUnit' /\ Counted'
  <1>0. FragCounts \subseteq Nat \ {0, 1} /\ MaxUnits \in Nat
    BY VideoAssumption
  <1>1. SenderOK'
    BY SendsStep
  <1>2. FragOK'
    BY DEF FragOK
  <1>3. OneUnit'
    <2>1. SUFFICES ASSUME sender'.restarts = 0 PROVE OneUnit'
      BY DEF OneUnit
    <2>2. /\ sender.restarts = 0 /\ ~mixed /\ mixed' = mixed /\ frag' = frag
          /\ sender.count > 1 => sender.nextId = sender.id + 1
          /\ frag.active => frag.id < sender.nextId
      BY <2>1, SendsStep DEF OneUnit
    <2>3. sender.id \in Nat /\ sender.nextId \in Nat /\ frag.id \in Nat
      BY DEF SenderOK, FragOK
    <2>4. CASE /\ sender'.unit = sender.unit /\ sender'.count = sender.count
               /\ sender'.id = sender.id /\ sender'.nextId = sender.nextId
      <3>1. (frag.active /\ sender.count > 1 /\ frag.id = sender.id) =>
               \A i \in 1 .. Len(frag.parts) : frag.parts[i] \in {0, sender.unit}
        BY <2>2 DEF OneUnit
      <3>2. (frag'.active /\ sender'.count > 1 /\ frag'.id = sender'.id) =>
               \A i \in 1 .. Len(frag'.parts) : frag'.parts[i] \in {0, sender'.unit}
        BY <3>1, <2>2, <2>4
      <3>3. frag'.active => frag'.id < sender'.nextId
        BY <2>2, <2>4
      <3>4. sender'.count > 1 => sender'.nextId = sender'.id + 1
        BY <2>2, <2>4
      <3>5. ~mixed'
        BY <2>2
      <3>6. QED
        BY <3>2, <3>3, <3>4, <3>5 DEF OneUnit
    <2>5. CASE /\ sender'.id = sender.nextId
               /\ sender'.count > 1 => sender'.nextId = sender.nextId + 1
               /\ ~(sender'.count > 1) => sender'.nextId = sender.nextId
      <3>1. frag.active => frag.id < sender'.nextId /\ frag.id # sender'.id
        BY <2>2, <2>3, <2>5
      <3>2. QED
        BY <2>2, <2>5, <3>1 DEF OneUnit
    <2>6. QED
      BY <2>4, <2>5, SendsStep
  <1>4. Counted'
    BY SendsStep, <1>0, SMTT(30) DEF Counted, SenderOK, FragOK
  <1>5. QED
    BY <1>1, <1>2, <1>3, <1>4
(* A unit handed over: one more frame at most, and none of a config unit.  *)
LEMMA TakeUnitCounts ==
  ASSUME NEW kind, TakeUnit(kind)
  PROVE  arrived' = arrived \/ arrived' = arrived + 1
  BY DEF TakeUnit

(* A fragment is kept: a frame that completes is one whole unit while the  *)
(* session lasts, and it is not counted twice.                             *)
LEMMA FragmentKeeps ==
  ASSUME SenderOK, FragOK, OneUnit, Counted, mixed \in BOOLEAN, arrived \in Nat, Sends,
         sender'.count # 1,
         NEW g, g = Collect(frag, Packet),
         \/ /\ Complete(g) /\ frag' = NoFrag
            /\ mixed' = (mixed \/ \E i \in DOMAIN g.parts : g.parts[i] # Packet.unit)
            /\ arrived' = arrived \/ arrived' = arrived + 1
         \/ ~Complete(g) /\ frag' = g /\ mixed' = mixed /\ arrived' = arrived
  PROVE  SenderOK' /\ FragOK' /\ OneUnit' /\ Counted'
  <1> DEFINE pkt == Packet
  <1>0. FragCounts \subseteq Nat \ {0, 1} /\ MaxUnits \in Nat
    BY VideoAssumption
  <1>1. /\ SenderOK' /\ sender'.count \in FragCounts
        /\ sender'.count \in Nat /\ sender'.count > 1
    <2>1. SenderOK'
      BY SendsStep
    <2>2. sender'.count \in FragCounts
      BY <2>1 DEF SenderOK
    <2>3. sender'.count \in Nat \ {0, 1}
      BY <2>2, <1>0
    <2>4. QED
      BY <2>1, <2>2, <2>3
  <1>2. /\ pkt \in [unit : 0 .. MaxUnits, kind : Kind, count : FragCounts, index : Nat, id : Nat]
        /\ pkt.index \in 1 .. pkt.count
        /\ pkt.index = sender'.sent /\ pkt.count = sender'.count
        /\ pkt.id = sender'.id /\ pkt.unit = sender'.unit
    BY <1>1 DEF Packet, SenderOK
  <1> HIDE DEF pkt
  <1>3. g = Collect(frag, pkt)
    BY DEF pkt
  <1>4. /\ g \in [active : BOOLEAN, id : Nat, kind : Kind, parts : Seq(0 .. MaxUnits)]
        /\ g.active /\ g.id = pkt.id /\ Len(g.parts) = pkt.count
        /\ \/ /\ frag.active /\ frag.id = pkt.id /\ Len(frag.parts) = pkt.count
              /\ \A i \in 1 .. pkt.count :
                   g.parts[i] = IF i = pkt.index /\ frag.parts[i] = 0 THEN pkt.unit ELSE frag.parts[i]
           \/ /\ ~(frag.active /\ frag.id = pkt.id /\ Len(frag.parts) = pkt.count)
              /\ \A i \in 1 .. pkt.count :
                   g.parts[i] = IF i = pkt.index THEN pkt.unit ELSE 0
    BY <1>2, <1>3, Collected DEF FragOK
  <1>5. DOMAIN g.parts = 1 .. pkt.count
    BY <1>4
  <1>6. NoFrag \in [active : BOOLEAN, id : Nat, kind : Kind, parts : Seq(0 .. MaxUnits)]
        /\ Len(NoFrag.parts) = 0 /\ ~NoFrag.active
    <2>1. ~NoFrag.active /\ NoFrag.active \in BOOLEAN
      BY Zenon DEF NoFrag
    <2>2. QED
      BY <2>1 DEF NoFrag, Kind
  <1>7. FragOK'
    BY <1>1, <1>2, <1>4, <1>6 DEF FragOK
  <1>8. sender.restarts = 0 => \A i \in 1 .. pkt.count : g.parts[i] \in {0, pkt.unit}
    <2>1. SUFFICES ASSUME sender.restarts = 0, NEW i \in 1 .. pkt.count
                   PROVE  g.parts[i] \in {0, pkt.unit}
      OBVIOUS
    <2>2. CASE frag.active /\ frag.id = pkt.id /\ Len(frag.parts) = pkt.count
      <3>1. frag.id < sender.nextId /\ frag.id = sender'.id
        BY <2>1, <2>2, <1>2 DEF OneUnit
      <3>2. sender'.id = sender.id /\ sender'.count = sender.count /\ sender'.unit = sender.unit
        BY <3>1, SendsStep DEF SenderOK, FragOK
      <3>3. frag.parts[i] \in {0, pkt.unit}
        BY <2>1, <2>2, <3>1, <3>2, <1>1, <1>2 DEF OneUnit
      <3>4. QED
        BY <3>3, <2>2, <1>4
    <2>3. CASE ~(frag.active /\ frag.id = pkt.id /\ Len(frag.parts) = pkt.count)
      BY <2>3, <1>4
    <2>4. QED
      BY <2>2, <2>3
  <1>9. OneUnit'
    <2>1. SUFFICES ASSUME sender'.restarts = 0 PROVE OneUnit'
      BY DEF OneUnit
    <2>2. sender.restarts = 0 /\ ~mixed
      BY <2>1, SendsStep DEF OneUnit
    <2>3. ~mixed'
      BY <2>2, <1>2, <1>5, <1>8 DEF Complete, pkt
    <2>4. sender'.nextId = sender'.id + 1 /\ sender'.id \in Nat
      BY <2>2, <1>1, SendsStep DEF OneUnit, SenderOK
    <2>5. frag' = NoFrag \/ frag' = g
      OBVIOUS
    <2>6. CASE frag' = NoFrag
      BY <2>3, <2>4, <2>6, <1>6 DEF OneUnit
    <2>7. CASE frag' = g
      BY <2>2, <2>3, <2>4, <2>7, <1>2, <1>4, <1>8 DEF OneUnit
    <2>8. QED
      BY <2>5, <2>6, <2>7
  <1>10. Counted'
    <2>1. CASE Complete(g)
      <3>1. ~frag'.active
        BY <2>1, <1>6
      <3>2. arrived < sender.unit \/ sender'.unit = sender.unit + 1
               \/ (arrived = sender.unit /\ sender'.unit = sender.unit)
        BY SendsStep DEF Counted, SenderOK
      <3>3. ASSUME arrived = sender.unit, sender'.unit = sender.unit PROVE FALSE
        <4>1. /\ sender.sent < sender.count /\ sender'.sent = sender.sent + 1
              /\ sender.sent \in Nat \ {0}
          BY <3>3, SendsStep DEF SenderOK
        <4>2. CASE frag.active /\ frag.id = pkt.id /\ Len(frag.parts) = pkt.count
          <5>1. PICK i \in 1 .. Len(frag.parts) : i <= sender.sent /\ frag.parts[i] = 0
            BY <3>3, <4>1, <4>2 DEF Counted
          <5>2. i \in 1 .. pkt.count /\ i # pkt.index
            BY <5>1, <4>1, <4>2, <1>2
          <5>3. g.parts[i] = 0
            BY <5>1, <5>2, <4>2, <1>4
          <5>4. QED
            BY <5>2, <5>3, <2>1, <1>5 DEF Complete
        <4>3. CASE ~(frag.active /\ frag.id = pkt.id /\ Len(frag.parts) = pkt.count)
          <5>1. 1 \in 1 .. pkt.count /\ 1 # pkt.index
            BY <4>1, <1>0, <1>1, <1>2
          <5>2. g.parts[1] = 0
            BY <5>1, <4>3, <1>4
          <5>3. QED
            BY <5>1, <5>2, <2>1, <1>5 DEF Complete
        <4>4. QED
          BY <4>2, <4>3
      <3>4. arrived' <= sender'.unit
        <4>1. arrived' = arrived \/ arrived' = arrived + 1
          BY <2>1
        <4>2. sender.unit \in Nat /\ sender'.unit \in Nat
          BY <1>0, <1>1 DEF SenderOK
        <4>3. arrived <= sender.unit
          BY DEF Counted
        <4>4. sender'.unit = sender.unit \/ sender'.unit = sender.unit + 1
          BY SendsStep
        <4>5. QED
          BY <4>1, <4>2, <4>3, <4>4, <3>2, <3>3
      <3>5. QED
        BY <3>1, <3>4 DEF Counted
    <2>2. CASE ~Complete(g)
      <3>1. frag' = g /\ arrived' = arrived
        BY <2>2
      <3>2. arrived' <= sender'.unit
        BY <3>1, SendsStep DEF Counted, SenderOK
      <3>3. ASSUME arrived' = sender'.unit
            PROVE  \E i \in 1 .. Len(g.parts) : i <= sender'.sent /\ g.parts[i] = 0
        <4>1. /\ sender'.unit = sender.unit /\ arrived = sender.unit
              /\ sender.sent < sender.count /\ sender'.sent = sender.sent + 1
              /\ sender.sent \in Nat \ {0}
          BY <3>1, <3>3, SendsStep DEF SenderOK, Counted
        <4>2. CASE frag.active /\ frag.id = pkt.id /\ Len(frag.parts) = pkt.count
          <5>1. PICK i \in 1 .. Len(frag.parts) : i <= sender.sent /\ frag.parts[i] = 0
            BY <4>1, <4>2 DEF Counted
          <5>2. i \in 1 .. pkt.count /\ i # pkt.index /\ i <= sender'.sent
            BY <5>1, <4>1, <4>2, <1>2
          <5>3. g.parts[i] = 0
            BY <5>1, <5>2, <4>2, <1>4
          <5>4. QED
            BY <5>2, <5>3, <1>4
        <4>3. CASE ~(frag.active /\ frag.id = pkt.id /\ Len(frag.parts) = pkt.count)
          <5>1. 1 \in 1 .. pkt.count /\ 1 # pkt.index /\ 1 <= sender'.sent
            BY <4>1, <1>0, <1>1, <1>2
          <5>2. g.parts[1] = 0
            BY <5>1, <4>3, <1>4
          <5>3. QED
            BY <5>1, <5>2, <1>4
        <4>4. QED
          BY <4>2, <4>3
      <3>4. QED
        BY <3>1, <3>2, <3>3 DEF Counted
    <2>3. QED
      BY <2>1, <2>2
  <1>11. QED
    BY <1>1, <1>7, <1>9, <1>10
(* Nothing has been sent. *)
LEMMA FrameInit == Init => FrameInv
  <1>1. SUFFICES ASSUME Init PROVE FrameInv
    OBVIOUS
  <1>0. /\ FragCounts \subseteq Nat \ {0, 1} /\ MaxUnits \in Nat /\ Burst \in Nat
        /\ MaxFaults \in Nat
    BY VideoAssumption
  <1>2. /\ sender = [unit |-> 0, kind |-> "config", count |-> 1, sent |-> 1, id |-> 0,
                     nextId |-> 0, restarts |-> 0]
        /\ frag = NoFrag /\ arrived = 0 /\ hand.n = 0 /\ fed = 0 /\ main = "events"
    BY <1>1 DEF Init
  <1>3. SenderOK
    BY <1>0, <1>2 DEF SenderOK, Kind
  <1>4. ~NoFrag.active /\ NoFrag.active \in BOOLEAN
    BY Zenon DEF NoFrag
  <1>5. FragOK
    BY <1>2, <1>4 DEF FragOK, NoFrag, Kind
  <1>6. OneUnit /\ Counted /\ Taken
    <2>1. ~mixed
      BY <1>1, Zenon DEF Init
    <2>2. QED
      BY <2>1, <1>2, <1>4 DEF OneUnit, Counted, Taken
  <1>7. Control
    <2>1. mixed \in BOOLEAN /\ running \in BOOLEAN
      BY <1>1, Zenon DEF Init
    <2>2. QED
      BY <2>1, <1>0, <1>1 DEF Init, Control
  <1>8. QED
    BY <1>3, <1>5, <1>6, <1>7 DEF FrameInv

(* A packet that is handled. *)
LEMMA FramePacket ==
  ASSUME FrameInv, arrived \in Nat, hand.n \in Nat, fed \in Nat, ReaderPacket
  PROVE  FrameInv'
  <1> DEFINE g == Collect(frag, Packet)
  <1>1. /\ Sends /\ reader' = "test"
        /\ UNCHANGED <<main, hand, round, sync, fed, running, faults>>
    BY DEF ReaderPacket, player
  <1>2. Packet.count = sender'.count /\ Packet.kind = sender'.kind
    BY DEF Packet
  <1>3. /\ sender'.count = 1 => TakeUnit(sender'.kind) /\ UNCHANGED <<frag, mixed>>
        /\ (sender'.count # 1 /\ Complete(g)) =>
             /\ TakeUnit(g.kind) /\ frag' = NoFrag
             /\ mixed' = (mixed \/ \E i \in DOMAIN g.parts : g.parts[i] # Packet.unit)
        /\ (sender'.count # 1 /\ ~Complete(g)) =>
             frag' = g /\ UNCHANGED <<mixed, queue, waiting, arrived>>
    BY <1>2 DEF ReaderPacket
  <1> HIDE DEF g
  <1>4. mixed' \in BOOLEAN
    <2>1. mixed \in BOOLEAN
      BY DEF FrameInv, Control
    <2>2. CASE mixed' = mixed
      BY <2>1, <2>2
    <2>3. CASE mixed' = (mixed \/ \E i \in DOMAIN g.parts : g.parts[i] # Packet.unit)
      BY <2>3, Zenon
    <2>4. QED
      BY <2>2, <2>3, <1>3
  <1>5. SenderOK' /\ FragOK' /\ OneUnit' /\ Counted'
    <2>1. CASE sender'.count = 1
      <3>1. arrived' = arrived \/ arrived' = arrived + 1
        BY <2>1, <1>3, TakeUnitCounts
      <3>2. QED
        BY <2>1, <3>1, <1>1, <1>3, SendsKeeps DEF FrameInv
    <2>2. CASE sender'.count # 1
      <3>1. Complete(g) => arrived' = arrived \/ arrived' = arrived + 1
        BY <2>2, <1>3, TakeUnitCounts
      <3>2. mixed \in BOOLEAN
        BY DEF FrameInv, Control
      <3>3. g = Collect(frag, Packet)
        BY DEF g
      <3>4. \/ /\ Complete(g) /\ frag' = NoFrag
               /\ mixed' = (mixed \/ \E i \in DOMAIN g.parts : g.parts[i] # Packet.unit)
               /\ arrived' = arrived \/ arrived' = arrived + 1
            \/ ~Complete(g) /\ frag' = g /\ mixed' = mixed /\ arrived' = arrived
        BY <2>2, <3>1, <1>3
      <3>5. QED
        BY <2>2, <3>2, <3>3, <3>4, <1>1, FragmentKeeps DEF FrameInv
    <2>3. QED
      BY <2>1, <2>2
  <1>6. arrived' \in Nat /\ arrived <= arrived'
    <2>1. arrived' = arrived \/ arrived' = arrived + 1
      BY <1>3, TakeUnitCounts
    <2>2. QED
      BY <2>1
  <1>7. Taken'
    <2>1. hand' = hand /\ fed' = fed /\ main' = main /\ round' = round
      BY <1>1
    <2>2. hand.n <= arrived /\ fed <= arrived /\ (main = "decode" => round < Burst)
      BY DEF FrameInv, Taken
    <2>3. QED
      BY <2>1, <2>2, <1>6 DEF Taken
  <1>8. Control'
    BY <1>1, <1>4 DEF FrameInv, Control
  <1>9. QED
    BY <1>5, <1>7, <1>8 DEF FrameInv
(* The main thread: it takes what has arrived, Burst packets a round.      *)
LEMMA FrameMain ==
  ASSUME FrameInv, VideoInv, MainNext
  PROVE  FrameInv'
  <1>0. Burst \in Nat \ {0} /\ MaxFaults \in Nat
    BY VideoAssumption
  <1>1. /\ UNCHANGED <<sender, frag, arrived, mixed>>
        /\ reader' = reader
    BY DEF MainNext, MainEvents, MainPop, MainDecode, MainDecodeFails, MainRecover, MainJoin, input
  <1>2. SenderOK' /\ FragOK' /\ OneUnit' /\ Counted'
    BY <1>1 DEF FrameInv, SenderOK, FragOK, OneUnit, Counted
  <1>3. running' \in BOOLEAN
    <2>1. running \in BOOLEAN
      BY DEF FrameInv, Control
    <2>2. running' = FALSE \/ running' = running
      BY DEF MainNext, MainEvents, MainPop, MainDecode, MainDecodeFails, MainRecover, MainJoin
    <2>3. QED
      BY <2>1, <2>2, Zenon
  <1>4. faults' \in 0 .. MaxFaults
    BY <1>0 DEF MainNext, MainEvents, MainPop, MainDecode, MainDecodeFails, MainRecover, MainJoin,
                Fault, FrameInv, Control
  <1>5. /\ round' \in 0 .. Burst /\ (main' = "decode" => round' < Burst)
        /\ main' \in {"events", "pop", "decode", "recover", "join", "done"}
    BY <1>0 DEF MainNext, MainEvents, MainPop, MainDecode, MainDecodeFails, MainRecover, MainJoin,
                FrameInv, Taken, Control
  <1>6. hand'.n <= arrived'
    <2>1. CASE MainPop /\ queue # <<>> /\ hand' = Head(queue)
      <3>1. /\ queue \in Seq(Frame) /\ arrived \in Nat
            /\ queue[1].n = arrived - (Len(queue) - 1)
        BY <2>1 DEF VideoInv, QueueIsRun
      <3>2. hand'.n = arrived - (Len(queue) - 1) /\ Len(queue) >= 1
        BY <2>1, <3>1
      <3>3. QED
        BY <3>1, <3>2, <1>1
    <2>2. CASE hand' = hand
      BY <2>2, <1>1 DEF FrameInv, Taken
    <2>3. QED
      BY <2>1, <2>2
      DEF MainNext, MainEvents, MainPop, MainDecode, MainDecodeFails, MainRecover, MainJoin
  <1>7. fed' <= arrived'
    <2>1. fed' \in {fed, hand.n, 0}
      BY DEF MainNext, MainEvents, MainPop, MainDecode, MainDecodeFails, MainRecover, MainJoin
    <2>2. QED
      BY <2>1, <1>1 DEF FrameInv, Taken, VideoInv
  <1>8. QED
    BY <1>1, <1>2, <1>3, <1>4, <1>5, <1>6, <1>7 DEF FrameInv, Taken, Control

(* Losses, bad packets, a new session and the end of the reader. *)
LEMMA FrameRest ==
  ASSUME FrameInv, arrived \in Nat,
         ReaderTest \/ ReaderBadPacket \/ ReaderEnds \/ Lose \/ Restart
  PROVE  FrameInv'
  <1>0. /\ FragCounts \subseteq Nat \ {0, 1} /\ MaxUnits \in Nat
        /\ MaxFaults \in Nat
    BY VideoAssumption
  <1>1. /\ UNCHANGED <<main, hand, round, fed, arrived, mixed>>
        /\ reader' \in {reader, "test", "read", "done"}
        /\ running' = running \/ running' = FALSE
        /\ faults' = faults \/ Fault
    BY DEF ReaderTest, ReaderBadPacket, ReaderEnds, Lose, Restart, input, player
  <1>2. running' \in BOOLEAN
    BY <1>1, Zenon DEF FrameInv, Control
  <1>3. faults' \in 0 .. MaxFaults
    BY <1>0, <1>1 DEF Fault, FrameInv, Control
  <1>4. Taken' /\ Control'
    BY <1>1, <1>2, <1>3 DEF FrameInv, Taken, Control
  <1>5. SenderOK' /\ FragOK' /\ OneUnit' /\ Counted'
    <2>1. CASE ReaderTest \/ ReaderEnds
      <3>1. UNCHANGED <<sender, frag>>
        BY <2>1 DEF ReaderTest, ReaderEnds, input
      <3>2. QED
        BY <3>1, <1>1 DEF FrameInv, SenderOK, FragOK, OneUnit, Counted
    <2>2. CASE ReaderBadPacket
      <3>1. sender' = sender /\ frag' \in {frag, NoFrag}
        BY <2>2 DEF ReaderBadPacket
      <3>2. ~NoFrag.active /\ NoFrag.active \in BOOLEAN
        BY Zenon DEF NoFrag
      <3>3. CASE frag' = frag
        BY <3>1, <3>3, <1>1 DEF FrameInv, SenderOK, FragOK, OneUnit, Counted
      <3>4. CASE frag' = NoFrag
        <4>1. ~frag'.active /\ frag'.active \in BOOLEAN
          BY <3>2, <3>4
        <4>2. FragOK'
          BY <3>4, <4>1 DEF FragOK, NoFrag, Kind
        <4>3. SenderOK' /\ OneUnit' /\ Counted'
          BY <3>1, <4>1, <1>1 DEF FrameInv, SenderOK, OneUnit, Counted
        <4>4. QED
          BY <4>2, <4>3
      <3>5. QED
        BY <3>1, <3>3, <3>4
    <2>3. CASE Lose
      BY <2>3, SendsKeeps DEF FrameInv, Lose
    <2>4. CASE Restart
      <3>1. /\ frag' = frag
            /\ sender' = [sender EXCEPT !.restarts = @ + 1, !.nextId = 0, !.sent = sender.count]
        BY <2>4 DEF Restart
      <3>2. /\ SenderOK' /\ sender'.restarts # 0 /\ sender'.unit = sender.unit
            /\ sender'.sent = sender'.count /\ sender'.count \in Nat
        <4>1. SenderOK
          BY DEF FrameInv
        <4>2. sender \in [unit : 0 .. MaxUnits, kind : Kind, count : {1} \cup FragCounts,
                          sent : Nat, id : Nat, nextId : Nat, restarts : Nat]
          BY <4>1 DEF SenderOK
        <4>3. sender.count \in Nat \ {0}
          BY <4>2, CountIsNat
        <4>4. /\ sender'.restarts = sender.restarts + 1 /\ sender'.unit = sender.unit
              /\ sender'.sent = sender.count /\ sender'.count = sender.count
              /\ sender' \in [unit : 0 .. MaxUnits, kind : Kind, count : {1} \cup FragCounts,
                               sent : Nat, id : Nat, nextId : Nat, restarts : Nat]
          <5> DEFINE R == [unit : 0 .. MaxUnits, kind : Kind, count : {1} \cup FragCounts,
                           sent : Nat, id : Nat, nextId : Nat, restarts : Nat]
                     moved == [sender EXCEPT !.restarts = @ + 1, !.nextId = 0, !.sent = sender.count]
          <5>1. sender.restarts + 1 \in Nat /\ 0 \in Nat /\ sender.count \in Nat
            BY <4>2, <4>3
          <5>2. moved \in R
            BY <4>2, <5>1
          <5>3. /\ moved.restarts = sender.restarts + 1 /\ moved.unit = sender.unit
                /\ moved.sent = sender.count /\ moved.count = sender.count
            BY <4>2
          <5>4. QED
            BY <3>1, <5>2, <5>3
        <4>5. QED
          BY <4>2, <4>3, <4>4 DEF SenderOK
      <3>3. FragOK'
        BY <3>1 DEF FrameInv, FragOK
      <3>4. OneUnit'
        BY <3>2 DEF OneUnit
      <3>5. Counted'
        BY <3>2, <1>1 DEF FrameInv, Counted
      <3>6. QED
        BY <3>2, <3>3, <3>4, <3>5
    <2>5. QED
      BY <2>1, <2>2, <2>3, <2>4
  <1>6. QED
    BY <1>4, <1>5 DEF FrameInv

(* Every step of either thread and of the network keeps FrameInv. *)
LEMMA FrameNext ==
  ASSUME FrameInv, VideoInv, [Next]_vars
  PROVE  FrameInv'
  <1>0. arrived \in Nat /\ hand.n \in Nat /\ fed \in Nat
    BY DEF VideoInv, Frame
  <1>1. CASE MainNext
    BY <1>1, FrameMain
  <1>2. CASE ReaderPacket
    BY <1>0, <1>2, FramePacket
  <1>3. CASE ReaderTest \/ ReaderBadPacket \/ ReaderEnds \/ Lose \/ Restart
    BY <1>0, <1>3, FrameRest
  <1>4. CASE Ended \/ UNCHANGED vars
    <2>1. UNCHANGED <<sender, frag, arrived, mixed, reader, main, hand, round, fed, running, faults>>
      BY <1>4 DEF Ended, vars, input, player
    <2>2. QED
      BY <2>1 DEF FrameInv, SenderOK, FragOK, OneUnit, Counted, Taken, Control
  <1>5. QED
    BY <1>1, <1>2, <1>3, <1>4 DEF Next, ReaderNext

(* FrameInv holds in every state of the client.                            *)
THEOREM FrameInvariant == Spec => []FrameInv
  <1>1. FrameInv /\ VideoInv /\ [Next]_vars => FrameInv'
    BY FrameNext
  <1>2. QED
    BY FrameInit, VideoInvariant, <1>1, PTL DEF Spec

(* A frame put together from fragments is one whole unit while the         *)
(* upstream session lasts, and the state keeps its types                   *)
(* (reassemble_video_payload, reset_video_fragments).                      *)
THEOREM FramesWholeAlways == Spec => []FramesWhole
  <1>1. FrameInv /\ VideoInv => FramesWhole
    <2>1. SUFFICES ASSUME FrameInv, VideoInv PROVE FramesWhole
      OBVIOUS
    <2>2. MaxUnits \in Nat /\ Burst \in Nat
      BY VideoAssumption
    <2>3. arrived \in 0 .. MaxUnits /\ fed \in 0 .. MaxUnits
      BY <2>1, <2>2 DEF FrameInv, SenderOK, Counted, Taken, VideoInv
    <2>4. TypeOK
      BY <2>1, <2>3 DEF TypeOK, FrameInv, SenderOK, FragOK, Control, VideoInv
    <2>5. OneFrame
      BY <2>1 DEF FrameInv, OneUnit, OneFrame
    <2>6. QED
      BY <2>4, <2>5 DEF FramesWhole
  <1>2. QED
    BY FrameInvariant, VideoInvariant, <1>1, PTL
=============================================================================
