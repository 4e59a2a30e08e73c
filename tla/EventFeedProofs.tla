---------------------------- MODULE EventFeedProofs ----------------------------
(***************************************************************************)
(* Theorems about SessionBus and about EventFeed, for any number of        *)
(* sockets, events and threads, any backoff, any queue size and any        *)
(* division of the kinds.  The bus: what reaches the sockets, in which     *)
(* order, and what is dropped.  The feed: the bus inside it is the bus of  *)
(* SessionBus, the stream keeps trying and stops when the page leaves, and *)
(* a GET brings back nothing the page had, but for an event stamped in one *)
(* second and stored in the next.                                          *)
(***************************************************************************)
EXTENDS EventFeed, SequenceTheorems, TLAPS

-----------------------------------------------------------------------------
(* Sequences.                                                              *)

\* A part of a sequence, the empty ones at its ends included.
LEMMA Part ==
  ASSUME NEW S, NEW q \in Seq(S),
         NEW m \in 1 .. Len(q) + 1, NEW n \in 0 .. Len(q), m <= n + 1
  PROVE  /\ SubSeq(q, m, n) \in Seq(S)
         /\ Len(SubSeq(q, m, n)) = n + 1 - m
         /\ \A j \in 1 .. n + 1 - m : SubSeq(q, m, n)[j] = q[m + j - 1]
BY SubSeqProperties, ElementOfSeq, LenProperties, SMT

\* What _evict_one leaves of the queue.
LEMMA Evicted ==
  ASSUME NEW S, NEW q \in Seq(S), NEW i \in 1 .. Len(q)
  PROVE  /\ RemoveAt(q, i) \in Seq(S)
         /\ Len(RemoveAt(q, i)) = Len(q) - 1
         /\ \A j \in 1 .. Len(q) - 1 :
              RemoveAt(q, i)[j] = IF j < i THEN q[j] ELSE q[j + 1]
<1> DEFINE a == SubSeq(q, 1, i - 1)
           b == SubSeq(q, i + 1, Len(q))
<1>1. Len(q) \in Nat
  BY LenProperties
<1>2. /\ a \in Seq(S) /\ Len(a) = i - 1
      /\ \A j \in 1 .. i - 1 : a[j] = q[j]
  BY <1>1, Part
<1>3. /\ b \in Seq(S) /\ Len(b) = Len(q) - i
      /\ \A j \in 1 .. Len(q) - i : b[j] = q[i + j]
  BY <1>1, Part
<1>4. RemoveAt(q, i) = a \o b
  BY DEF RemoveAt
<1> HIDE DEF a, b
<1>5. /\ a \o b \in Seq(S)
      /\ Len(a \o b) = Len(a) + Len(b)
      /\ \A j \in 1 .. Len(a) + Len(b) :
           (a \o b)[j] = IF j <= Len(a) THEN a[j] ELSE b[j - Len(a)]
  BY <1>2, <1>3, ConcatProperties
<1>6. Len(q) - 1 = Len(a) + Len(b)
  BY <1>1, <1>2, <1>3
<1>7. ASSUME NEW j \in 1 .. Len(q) - 1
      PROVE  (a \o b)[j] = IF j < i THEN q[j] ELSE q[j + 1]
  <2>1. CASE j < i
    BY <1>1, <1>2, <1>5, <1>6, <2>1
  <2>2. CASE ~(j < i)
    <3>1. j - Len(a) \in 1 .. Len(q) - i /\ ~(j <= Len(a)) /\ i + (j - Len(a)) = j + 1
      BY <1>1, <1>2, <2>2
    <3>2. (a \o b)[j] = b[j - Len(a)]
      BY <1>5, <1>6, <3>1
    <3>3. b[j - Len(a)] = q[i + (j - Len(a))]
      BY <1>3, <3>1
    <3> QED
      BY <2>2, <3>1, <3>2, <3>3
  <2> QED
    BY <2>1, <2>2
<1> QED
  BY <1>4, <1>5, <1>6, <1>7

-----------------------------------------------------------------------------
(* Types.                                                                  *)

LEMMA FrameFacts ==
  /\ None \in Frame /\ Greeting \notin Events
  /\ \A e \in Events \cup {Greeting}, sec \in 0 .. MaxTime : [ev |-> e, sec |-> sec] \in Frame
  /\ \A e \in Events \cup {Greeting}, at \in 0 .. MaxTime : [ev |-> e, at |-> at] \in Row
BY BusAssumption DEF None, Frame, Row, Greeting, Events

LEMMA BusInitTyped == BusInit => BusTypeOK
<1> SUFFICES ASSUME BusInit PROVE BusTypeOK
  OBVIOUS
<1>1. 1 \in 1 .. MaxTime /\ 0 \in Nat /\ 0 <= MaxQueue
  BY BusAssumption
<1>2. {[ev |-> Greeting, at |-> 1]} \subseteq Row
  BY <1>1, FrameFacts
<1>3. <<>> \in Seq(Frame) /\ Len(<<>>) = 0
  BY EmptySeq
<1>4. [frame |-> None, to |-> {}] \in [frame : Frame, to : SUBSET Clients]
  BY FrameFacts
<1> QED
  BY <1>1, <1>2, <1>3, <1>4, FrameFacts DEF BusInit, BusTypeOK

\* append_event keeps the table a set of rows.
LEMMA StoreTyped ==
  ASSUME BusTypeOK, NEW e \in Events \cup {Greeting}, Store(e)
  PROVE  table' \subseteq Row
<1>1. clock \in 0 .. MaxTime
  BY DEF BusTypeOK
<1> QED
  BY <1>1, FrameFacts DEF BusTypeOK, Store

LEMMA ScheduleTyped ==
  ASSUME BusTypeOK, NEW f \in Frame, Schedule(f)
  PROVE  handed' \in Seq(Frame) /\ reached' \in Nat
BY AppendProperties DEF BusTypeOK, Schedule

LEMMA BusTypeStep == BusTypeOK /\ [BusNext]_busVars => BusTypeOK'
<1> SUFFICES ASSUME BusTypeOK, [BusNext]_busVars PROVE BusTypeOK'
  OBVIOUS
<1>1. CASE Tick
  <2>1. clock' \in 1 .. MaxTime
    BY <1>1, BusAssumption DEF Tick, BusTypeOK
  <2> QED
    BY <1>1, <2>1 DEF Tick, BusTypeOK, publishVars, handoffVars, fanoutVars
<1>2. ASSUME NEW p \in Publishers, Record(p) PROVE BusTypeOK'
  <2>1. PICK e \in Events \ issued, sec \in {clock} \cup (IF Straddles THEN {clock - 1} ELSE {}) :
          /\ issued' = issued \cup {e}
          /\ holding' = [holding EXCEPT ![p] = [ev |-> e, sec |-> sec]]
          /\ Store(e)
          /\ late' = IF sec < clock THEN late \cup {e} ELSE late
    BY <1>2 DEF Record
  <2>2. sec \in 0 .. MaxTime
    BY <2>1, BusAssumption DEF BusTypeOK
  <2>3. [ev |-> e, sec |-> sec] \in Frame
    BY <2>2, FrameFacts
  <2>4. holding' \in [Publishers -> Frame]
    BY <2>1, <2>3 DEF BusTypeOK
  <2>5. table' \subseteq Row
    BY <2>1, StoreTyped
  <2>6. issued' \subseteq Events /\ late' \subseteq issued'
    BY <2>1 DEF BusTypeOK
  <2> QED
    BY <1>2, <2>4, <2>5, <2>6 DEF Record, BusTypeOK, handoffVars, fanoutVars
<1>3. ASSUME NEW p \in Publishers, HandOver(p) PROVE BusTypeOK'
  <2>1. holding' \in [Publishers -> Frame] /\ holding[p] \in Frame
    BY <1>3, FrameFacts DEF HandOver, BusTypeOK
  <2>2. handed' \in Seq(Frame) /\ reached' \in Nat
    <3>1. CASE Schedule(holding[p])
      BY <2>1, <3>1, ScheduleTyped
    <3>2. CASE UNCHANGED handoffVars
      BY <3>2 DEF handoffVars, BusTypeOK
    <3> QED
      BY <1>3, <3>1, <3>2 DEF HandOver
  <2> QED
    BY <1>3, <2>1, <2>2 DEF HandOver, BusTypeOK, fanoutVars
<1>4. CASE Bind
  BY <1>4 DEF Bind, BusTypeOK, publishVars, handoffVars, fanoutVars
<1>5. CASE Enqueue
  <2>1. handed' \in Seq(Frame) /\ Head(handed) \in Frame
    BY <1>5, HeadTailProperties DEF Enqueue, BusTypeOK
  <2>2. Len(queue) \in Nat /\ MaxQueue \in Nat
    BY BusAssumption, LenProperties DEF BusTypeOK
  <2>3. queue' \in Seq(Frame) /\ Len(queue') <= MaxQueue /\ dropped' \in Nat
    <3>1. CASE Len(queue) < MaxQueue /\ queue' = Append(queue, Head(handed)) /\ UNCHANGED dropped
      BY <2>1, <2>2, <3>1, AppendProperties DEF BusTypeOK
    <3>2. CASE /\ \E i \in Evict(queue) : queue' = Append(RemoveAt(queue, i), Head(handed))
               /\ dropped' = dropped + 1
      <4>1. PICK i \in DOMAIN queue : queue' = Append(RemoveAt(queue, i), Head(handed))
        BY <3>2 DEF Evict
      <4>2. /\ RemoveAt(queue, i) \in Seq(Frame)
            /\ Len(RemoveAt(queue, i)) = Len(queue) - 1
        BY LenProperties, Evicted DEF BusTypeOK
      <4>3. queue' \in Seq(Frame) /\ Len(queue') = Len(queue) - 1 + 1
        BY <2>1, <4>1, <4>2, AppendProperties
      <4> QED
        BY <2>2, <3>2, <4>3 DEF BusTypeOK
    <3>3. CASE dropped' = dropped + 1 /\ UNCHANGED queue
      BY <3>3 DEF BusTypeOK
    <3> QED
      BY <1>5, <3>1, <3>2, <3>3 DEF Enqueue
  <2> QED
    BY <1>5, <2>1, <2>3 DEF Enqueue, BusTypeOK, publishVars, fanoutVars
<1>6. CASE FanoutTake
  <2>1. Head(queue) \in Frame /\ queue' \in Seq(Frame) /\ Len(queue') = Len(queue) - 1
    BY <1>6, HeadTailProperties DEF FanoutTake, BusTypeOK
  <2>2. Len(queue) \in Nat /\ MaxQueue \in Nat
    BY BusAssumption, LenProperties DEF BusTypeOK
  <2>3. Len(queue') <= MaxQueue
    BY <2>1, <2>2 DEF BusTypeOK
  <2>4. fanned' \in Seq(Frame)
    BY <1>6, <2>1, AppendProperties DEF FanoutTake, BusTypeOK
  <2>5. sending' \in [frame : Frame, to : SUBSET Clients]
    BY <1>6, <2>1 DEF FanoutTake, BusTypeOK
  <2> QED
    BY <1>6, <2>1, <2>3, <2>4, <2>5 DEF FanoutTake, BusTypeOK, publishVars, handoffVars
<1>7. ASSUME NEW s \in Clients, FanoutSend(s) PROVE BusTypeOK'
  <2>1. sending.frame \in Frame /\ got[s] \in Seq(Frame)
    BY DEF BusTypeOK
  <2>2. Append(got[s], sending.frame) \in Seq(Frame)
    BY <2>1, AppendProperties
  <2>3. got' \in [Clients -> Seq(Frame)]
    BY <1>7, <2>2 DEF FanoutSend, BusTypeOK
  <2>4. sending' \in [frame : Frame, to : SUBSET Clients]
    BY <1>7 DEF FanoutSend, BusTypeOK
  <2> QED
    BY <1>7, <2>3, <2>4 DEF FanoutSend, BusTypeOK, publishVars, handoffVars
<1>8. ASSUME NEW s \in Clients, FanoutFails(s) PROVE BusTypeOK'
  <2>1. sending' \in [frame : Frame, to : SUBSET Clients]
    BY <1>8 DEF FanoutFails, BusTypeOK
  <2> QED
    BY <1>8, <2>1 DEF FanoutFails, BusTypeOK, publishVars, handoffVars
<1>9. ASSUME NEW s \in Clients, Subscribe(s) PROVE BusTypeOK'
  <2>1. table' \subseteq Row
    BY <1>9, StoreTyped DEF Subscribe
  <2>2. [ev |-> Greeting, sec |-> clock] \in Frame
    <3>1. clock \in 0 .. MaxTime
      BY DEF BusTypeOK
    <3> QED
      BY <3>1, FrameFacts
  <2>3. handed' \in Seq(Frame) /\ reached' \in Nat
    BY <1>9, <2>2, ScheduleTyped DEF Subscribe
  <2>4. Len(fanned) \in Nat
    BY LenProperties DEF BusTypeOK
  <2>5. joined' \in [Clients -> Nat \cup {-1}]
    BY <1>9, <2>4 DEF Subscribe, BusTypeOK
  <2> QED
    BY <1>9, <2>1, <2>3, <2>5 DEF Subscribe, BusTypeOK, fanoutVars
<1>10. ASSUME NEW s \in Clients, Unsubscribe(s) PROVE BusTypeOK'
  BY <1>10 DEF Unsubscribe, BusTypeOK, publishVars, handoffVars, fanoutVars
<1>11. CASE UNCHANGED busVars
  BY <1>11 DEF busVars, BusTypeOK, publishVars, handoffVars, fanoutVars
<1> QED
  BY <1>1, <1>2, <1>3, <1>4, <1>5, <1>6, <1>7, <1>8, <1>9, <1>10, <1>11
  DEF BusNext, BusStep

\* Every variable of the bus keeps its type; the queue never holds more than
\* MAX_QUEUE frames.
THEOREM BusTypeCorrect == BusSpec => []BusTypeOK
<1>1. BusInit => BusTypeOK
  BY BusInitTyped
<1>2. BusTypeOK /\ [BusNext]_busVars => BusTypeOK'
  BY BusTypeStep
<1> QED
  BY <1>1, <1>2, PTL DEF BusSpec

-----------------------------------------------------------------------------
(* The count of dropped frames.                                            *)

LEMMA CountStep ==
  BusTypeOK /\ NoFrameUncounted /\ [BusNext]_busVars => NoFrameUncounted'
<1> SUFFICES ASSUME BusTypeOK, NoFrameUncounted, [BusNext]_busVars
             PROVE  NoFrameUncounted'
  OBVIOUS
<1>1. /\ Len(handed) \in Nat /\ Len(queue) \in Nat /\ Len(fanned) \in Nat
      /\ dropped \in Nat /\ reached \in Nat
      /\ handed \in Seq(Frame) /\ queue \in Seq(Frame) /\ fanned \in Seq(Frame)
  BY LenProperties DEF BusTypeOK
<1> DEFINE Same == UNCHANGED <<handed, queue, fanned, dropped, reached>>
<1>2. CASE Same
  BY <1>2 DEF NoFrameUncounted
<1>3. ASSUME NEW f \in Frame, Schedule(f), UNCHANGED <<queue, fanned, dropped>>
      PROVE  NoFrameUncounted'
  BY <1>1, <1>3, AppendProperties DEF Schedule, NoFrameUncounted
<1>4. ASSUME NEW p \in Publishers, HandOver(p) PROVE NoFrameUncounted'
  <2>1. holding[p] \in Frame
    BY DEF BusTypeOK
  <2> QED
    BY <1>2, <1>3, <1>4, <2>1 DEF HandOver, handoffVars, fanoutVars
<1>5. CASE Enqueue
  <2>1. Head(handed) \in Frame /\ Len(handed') = Len(handed) - 1
    BY <1>1, <1>5, HeadTailProperties DEF Enqueue
  <2>2. Len(queue') + dropped' = Len(queue) + dropped + 1
    <3>1. CASE queue' = Append(queue, Head(handed)) /\ UNCHANGED dropped
      BY <1>1, <2>1, <3>1, AppendProperties
    <3>2. CASE /\ \E i \in Evict(queue) : queue' = Append(RemoveAt(queue, i), Head(handed))
               /\ dropped' = dropped + 1
      <4>1. PICK i \in DOMAIN queue : queue' = Append(RemoveAt(queue, i), Head(handed))
        BY <3>2 DEF Evict
      <4>2. /\ RemoveAt(queue, i) \in Seq(Frame)
            /\ Len(RemoveAt(queue, i)) = Len(queue) - 1
        BY <1>1, LenProperties, Evicted
      <4>3. Len(queue') = Len(queue) - 1 + 1
        BY <2>1, <4>1, <4>2, AppendProperties
      <4>4. dropped' = dropped + 1
        BY <3>2
      <4> QED
        BY <1>1, <4>3, <4>4
    <3>3. CASE dropped' = dropped + 1 /\ UNCHANGED queue
      BY <1>1, <3>3
    <3> QED
      BY <1>5, <3>1, <3>2, <3>3 DEF Enqueue
  <2>3. fanned' = fanned /\ reached' = reached /\ Len(queue') \in Nat /\ dropped' \in Nat
    <3>1. BusTypeOK'
      BY BusTypeStep
    <3> QED
      BY <1>5, <3>1, LenProperties DEF Enqueue, fanoutVars, BusTypeOK
  <2>4. reached = Len(handed) + Len(queue) + Len(fanned) + dropped
    BY DEF NoFrameUncounted
  <2>5. reached = (Len(handed) - 1) + (Len(queue') + dropped') + Len(fanned)
    BY <1>1, <2>2, <2>4
  <2>6. reached' = Len(handed') + Len(queue') + Len(fanned') + dropped'
    BY <1>1, <2>1, <2>3, <2>5
  <2> QED
    BY <2>6 DEF NoFrameUncounted
<1>6. CASE FanoutTake
  <2>1. Head(queue) \in Frame /\ Len(queue') = Len(queue) - 1
    BY <1>1, <1>6, HeadTailProperties DEF FanoutTake
  <2>2. Len(fanned') = Len(fanned) + 1
    BY <1>1, <1>6, <2>1, AppendProperties DEF FanoutTake
  <2>3. UNCHANGED <<handed, dropped, reached>>
    BY <1>6 DEF FanoutTake, handoffVars
  <2> QED
    BY <1>1, <2>1, <2>2, <2>3 DEF NoFrameUncounted
<1>7. ASSUME NEW s \in Clients, Subscribe(s) PROVE NoFrameUncounted'
  <2>1. [ev |-> Greeting, sec |-> clock] \in Frame
    <3>1. clock \in 0 .. MaxTime
      BY DEF BusTypeOK
    <3> QED
      BY <3>1, FrameFacts
  <2> QED
    BY <1>3, <1>7, <2>1 DEF Subscribe, fanoutVars
<1>8. CASE \/ Tick \/ Bind \/ \E p \in Publishers : Record(p)
           \/ \E s \in Clients : FanoutSend(s) \/ FanoutFails(s) \/ Unsubscribe(s)
           \/ UNCHANGED busVars
  BY <1>2, <1>8
  DEF Tick, Bind, Record, FanoutSend, FanoutFails, Unsubscribe, busVars,
      publishVars, handoffVars, fanoutVars
<1> QED
  BY <1>4, <1>5, <1>6, <1>7, <1>8 DEF BusNext, BusStep

\* Whatever threads, callbacks and evictions do in between, a frame that reached
\* the loop is under way, was sent on its way or is in dropped_count.
THEOREM NothingUncounted == BusSpec => []NoFrameUncounted
<1>1. BusInit => NoFrameUncounted
  BY EmptySeq DEF BusInit, NoFrameUncounted
<1>2. BusTypeOK /\ NoFrameUncounted /\ [BusNext]_busVars => NoFrameUncounted'
  BY CountStep
<1> QED
  BY <1>1, <1>2, BusTypeCorrect, PTL DEF BusSpec

-----------------------------------------------------------------------------
(* Lifecycle frames.                                                       *)

\* How a lifecycle frame of the queue may fare in a step.
Kept(i) ==
  \/ \E j \in DOMAIN queue' : j <= i /\ queue'[j] = queue[i]
  \/ i = 1 /\ fanned' = Append(fanned, queue[1])

LEMMA LifecycleStep ==
  ASSUME BusTypeOK, [BusNext]_busVars, NEW i \in DOMAIN queue, ~Coalescable(queue[i])
  PROVE  Kept(i)
<1>1. /\ queue \in Seq(Frame) /\ handed \in Seq(Frame)
      /\ Len(queue) \in Nat /\ i \in 1 .. Len(queue)
  BY LenProperties DEF BusTypeOK
<1>2. CASE UNCHANGED queue
  BY <1>1, <1>2 DEF Kept
<1>3. CASE Enqueue
  <2>1. Head(handed) \in Frame
    BY <1>1, <1>3, HeadTailProperties DEF Enqueue
  <2>2. CASE queue' = Append(queue, Head(handed))
    <3>1. /\ Len(queue') = Len(queue) + 1 /\ DOMAIN queue' = 1 .. Len(queue')
          /\ \A k \in 1 .. Len(queue) : queue'[k] = queue[k]
      BY <1>1, <2>1, <2>2, AppendProperties, LenProperties
    <3> QED
      BY <1>1, <3>1 DEF Kept
  <2>3. CASE \E k \in Evict(queue) : queue' = Append(RemoveAt(queue, k), Head(handed))
    <3>1. PICK k \in 1 .. Len(queue) :
            Coalescable(queue[k]) /\ queue' = Append(RemoveAt(queue, k), Head(handed))
      BY <1>1, <2>3, LenProperties DEF Evict
    <3> DEFINE rest == RemoveAt(queue, k)
    <3>2. /\ rest \in Seq(Frame) /\ Len(rest) = Len(queue) - 1
          /\ \A j \in 1 .. Len(queue) - 1 :
               rest[j] = IF j < k THEN queue[j] ELSE queue[j + 1]
      BY <1>1, <3>1, Evicted
    <3> HIDE DEF rest
    <3>3. queue' = Append(rest, Head(handed))
      BY <3>1 DEF rest
    <3>4. /\ Len(queue') = Len(queue) /\ DOMAIN queue' = 1 .. Len(queue')
          /\ \A j \in 1 .. Len(queue) - 1 : queue'[j] = rest[j]
      BY <1>1, <2>1, <3>2, <3>3, AppendProperties, LenProperties
    <3>5. i # k
      BY <3>1
    <3>6. CASE i < k
      <4>1. i \in 1 .. Len(queue) - 1
        BY <1>1, <3>1, <3>6
      <4>2. queue'[i] = queue[i] /\ i \in DOMAIN queue' /\ i <= i
        BY <1>1, <3>2, <3>4, <3>6, <4>1
      <4> QED
        BY <4>2 DEF Kept
    <3>7. CASE k < i
      <4>1. i - 1 \in 1 .. Len(queue) - 1 /\ ~(i - 1 < k) /\ (i - 1) + 1 = i
        BY <1>1, <3>1, <3>7
      <4>2. queue'[i - 1] = queue[i] /\ i - 1 \in DOMAIN queue' /\ i - 1 <= i
        BY <1>1, <3>2, <3>4, <4>1
      <4> QED
        BY <4>2 DEF Kept
    <3> QED
      BY <1>1, <3>1, <3>5, <3>6, <3>7
  <2> QED
    BY <1>2, <1>3, <2>2, <2>3 DEF Enqueue
<1>4. CASE FanoutTake
  <2>1. queue # <<>> /\ queue' = Tail(queue) /\ fanned' = Append(fanned, Head(queue))
    BY <1>4 DEF FanoutTake
  <2>2. /\ queue' \in Seq(Frame) /\ Len(queue') = Len(queue) - 1
        /\ \A j \in 1 .. Len(queue') : queue'[j] = queue[j + 1]
    BY <1>1, <2>1, HeadTailProperties
  <2>3. CASE i = 1
    BY <1>1, <2>1, <2>3 DEF Kept
  <2>4. CASE i # 1
    <3>1. i - 1 \in 1 .. Len(queue') /\ (i - 1) + 1 = i /\ i - 1 <= i
      BY <1>1, <2>2, <2>4
    <3>2. i - 1 \in DOMAIN queue' /\ queue'[i - 1] = queue[i]
      BY <2>2, <3>1, LenProperties
    <3> QED
      BY <3>1, <3>2 DEF Kept
  <2> QED
    BY <2>3, <2>4
<1>5. CASE \/ Tick \/ Bind \/ \E p \in Publishers : Record(p) \/ HandOver(p)
           \/ \E s \in Clients :
                FanoutSend(s) \/ FanoutFails(s) \/ Subscribe(s) \/ Unsubscribe(s)
           \/ UNCHANGED busVars
  BY <1>2, <1>5
  DEF Tick, Bind, Record, HandOver, FanoutSend, FanoutFails, Subscribe,
      Unsubscribe, busVars
<1> QED
  BY <1>3, <1>4, <1>5 DEF BusNext, BusStep

\* For every size of the queue, _evict_one takes a coalescable frame: what is not
\* coalescable leaves by way of the fan-out, in its turn.
THEOREM LifecycleKept == BusSpec => KeepsLifecycle
<1>1. BusTypeOK /\ [BusNext]_busVars =>
        [\A i \in DOMAIN queue :
           ~Coalescable(queue[i]) =>
             \/ \E j \in DOMAIN queue' : j <= i /\ queue'[j] = queue[i]
             \/ /\ i = 1
                /\ fanned' = Append(fanned, queue[1])]_busVars
  BY LifecycleStep DEF Kept
<1> QED
  BY <1>1, BusTypeCorrect, PTL DEF BusSpec, KeepsLifecycle

-----------------------------------------------------------------------------
(* What a subscriber is sent.                                              *)

LEMMA SinceNext ==
  ASSUME NEW q \in Seq(Frame), NEW j \in Nat, j < Len(q)
  PROVE  Append(SubSeq(q, j + 1, Len(q) - 1), q[Len(q)]) = SubSeq(q, j + 1, Len(q))
<1>1. Len(q) \in Nat /\ j + 1 \in 1 .. Len(q) /\ Len(q) \in (j + 1) .. Len(q)
  BY LenProperties
<1>2. SubSeq(q, j + 1, Len(q)) = SubSeq(q, j + 1, Len(q) - 1) \o <<q[Len(q)]>>
  BY <1>1, SubSeqRecursiveSecond
<1>3. SubSeq(q, j + 1, Len(q) - 1) \in Seq(Frame) /\ q[Len(q)] \in Frame
  BY <1>1, Part, ElementOfSeq
<1> QED
  BY <1>2, <1>3, AppendIsConcat

LEMMA SinceGrows ==
  ASSUME NEW q \in Seq(Frame), NEW f \in Frame, NEW j \in 0 .. Len(q)
  PROVE  SubSeq(Append(q, f), j + 1, Len(q)) = SubSeq(q, j + 1, Len(q))
<1>1. Len(q) \in Nat
  BY LenProperties
<1>2. /\ Append(q, f) \in Seq(Frame) /\ Len(Append(q, f)) = Len(q) + 1
      /\ \A i \in 1 .. Len(q) : Append(q, f)[i] = q[i]
  BY AppendProperties
<1> DEFINE a == SubSeq(q, j + 1, Len(q))
           b == SubSeq(Append(q, f), j + 1, Len(q))
<1>3. /\ a \in Seq(Frame) /\ Len(a) = Len(q) - j
      /\ \A i \in 1 .. Len(q) - j : a[i] = q[j + i]
  BY <1>1, Part
<1>4. /\ b \in Seq(Frame) /\ Len(b) = Len(q) - j
      /\ \A i \in 1 .. Len(q) - j : b[i] = Append(q, f)[j + i]
  BY <1>1, <1>2, Part
<1> HIDE DEF a, b
<1>5. \A i \in 1 .. Len(q) - j : a[i] = b[i]
  BY <1>1, <1>2, <1>3, <1>4
<1>6. a = b
  BY <1>1, <1>3, <1>4, <1>5, SeqEqual
<1> QED
  BY <1>6 DEF a, b

\* A socket is sent nothing before it subscribes; while the fan-out still owes
\* it a frame, that frame is the last one taken from the queue.
Owed ==
  /\ \A s \in Clients :
       joined[s] = -1 => got[s] = <<>> /\ s \notin subs /\ s \notin sending.to
  /\ \A s \in subs : joined[s] <= Len(fanned)
  /\ \A s \in sending.to : /\ joined[s] < Len(fanned)
                           /\ sending.frame = fanned[Len(fanned)]

StreamInv == Owed /\ StreamIsSuffix
LEMMA StreamStep == BusTypeOK /\ StreamInv /\ [BusNext]_busVars => StreamInv'
<1> SUFFICES ASSUME BusTypeOK, Owed, StreamIsSuffix, [BusNext]_busVars
             PROVE  Owed' /\ StreamIsSuffix'
  BY DEF StreamInv
<1>1. /\ fanned \in Seq(Frame) /\ Len(fanned) \in Nat
      /\ subs \subseteq Clients /\ sending.to \subseteq Clients
      /\ \A s \in Clients : joined[s] \in Nat \cup {-1}
      /\ \A s \in subs \cup sending.to : joined[s] \in Nat
  <2>1. \A s \in subs \cup sending.to : joined[s] # -1
    BY DEF Owed, BusTypeOK
  <2> QED
    BY <2>1, LenProperties DEF BusTypeOK
<1>2. CASE UNCHANGED <<got, subs, sending, fanned, joined>>
  BY <1>2 DEF Owed, StreamIsSuffix
<1>3. CASE FanoutTake
  <2>1. Head(queue) \in Frame
    BY <1>3, HeadTailProperties DEF FanoutTake, BusTypeOK
  <2>2. /\ fanned' = Append(fanned, Head(queue)) /\ sending'.to = subs
        /\ sending'.frame = Head(queue) /\ sending.to = {}
        /\ UNCHANGED <<got, subs, joined>>
    BY <1>3 DEF FanoutTake
  <2>3. Len(fanned') = Len(fanned) + 1 /\ fanned'[Len(fanned')] = Head(queue)
    BY <1>1, <2>1, <2>2, AppendProperties
  <2>4. Owed'
    BY <1>1, <2>2, <2>3 DEF Owed
  <2>5. ASSUME NEW s \in subs PROVE got[s] = SubSeq(fanned', joined[s] + 1, Len(fanned))
    <3>1. joined[s] \in 0 .. Len(fanned)
      BY <1>1 DEF Owed
    <3>2. got[s] = SubSeq(fanned, joined[s] + 1, Len(fanned) - 0)
      BY <2>2 DEF StreamIsSuffix
    <3>3. Len(fanned) - 0 = Len(fanned)
      BY <1>1
    <3> QED
      BY <1>1, <2>1, <2>2, <3>1, <3>2, <3>3, SinceGrows
  <2>6. Len(fanned') - 1 = Len(fanned)
    BY <1>1, <2>3
  <2> QED
    BY <2>2, <2>4, <2>5, <2>6 DEF StreamIsSuffix
<1>4. ASSUME NEW s \in Clients, FanoutSend(s) PROVE Owed' /\ StreamIsSuffix'
  <2>1. /\ s \in sending.to /\ s \in subs
        /\ got' = [got EXCEPT ![s] = Append(@, sending.frame)]
        /\ sending'.to = sending.to \ {s} /\ sending'.frame = sending.frame
        /\ UNCHANGED <<fanned, subs, joined>>
    BY <1>4 DEF FanoutSend, BusTypeOK
  <2>2. got' \in [Clients -> Seq(Frame)] /\ \A c \in Clients \ {s} : got'[c] = got[c]
    <3>1. BusTypeOK'
      BY BusTypeStep
    <3> QED
      BY <2>1, <3>1 DEF BusTypeOK
  <2>3. Owed'
    <3>1. joined[s] # -1
      BY <1>1, <2>1
    <3> QED
      BY <2>1, <2>2, <3>1 DEF Owed
  <2>4. got'[s] = SubSeq(fanned, joined[s] + 1, Len(fanned))
    <3>1. got[s] = SubSeq(fanned, joined[s] + 1, Len(fanned) - 1)
      BY <2>1 DEF StreamIsSuffix
    <3>2. joined[s] \in Nat /\ joined[s] < Len(fanned) /\ sending.frame = fanned[Len(fanned)]
      BY <1>1, <2>1 DEF Owed
    <3>3. got'[s] = Append(got[s], sending.frame)
      BY <2>1 DEF BusTypeOK
    <3> QED
      BY <1>1, <3>1, <3>2, <3>3, SinceNext
  <2>5. Len(fanned) - 0 = Len(fanned)
    BY <1>1
  <2>6. ASSUME NEW c \in subs
        PROVE  got'[c] = SubSeq(fanned, joined[c] + 1,
                                Len(fanned) - IF c \in sending'.to THEN 1 ELSE 0)
    <3>1. CASE c = s
      BY <2>1, <2>4, <2>5, <3>1
    <3>2. CASE c # s
      <4>1. got'[c] = got[c] /\ (c \in sending'.to <=> c \in sending.to)
        BY <1>1, <2>1, <2>2, <3>2
      <4> QED
        BY <4>1 DEF StreamIsSuffix
    <3> QED
      BY <3>1, <3>2
  <2> QED
    BY <2>1, <2>3, <2>6 DEF StreamIsSuffix
<1>5. ASSUME NEW s \in Clients, FanoutFails(s) PROVE Owed' /\ StreamIsSuffix'
  <2>1. /\ sending'.to = sending.to \ {s} /\ sending'.frame = sending.frame
        /\ subs' = subs \ {s} /\ UNCHANGED <<got, fanned, joined>>
    BY <1>5 DEF FanoutFails, BusTypeOK
  <2>2. Owed'
    BY <2>1 DEF Owed
  <2>3. \A c \in subs' : c \in subs /\ (c \in sending'.to <=> c \in sending.to)
    BY <2>1
  <2> QED
    BY <2>1, <2>2, <2>3 DEF StreamIsSuffix
<1>6. ASSUME NEW s \in Clients, Subscribe(s) PROVE Owed' /\ StreamIsSuffix'
  <2>1. /\ joined[s] = -1 /\ subs' = subs \cup {s}
        /\ joined' = [joined EXCEPT ![s] = Len(fanned)]
        /\ UNCHANGED <<sending, fanned, got>>
    BY <1>6 DEF Subscribe, fanoutVars
  <2>2. got[s] = <<>> /\ s \notin subs /\ s \notin sending.to
    BY <2>1 DEF Owed
  <2>3. joined'[s] = Len(fanned) /\ \A c \in Clients \ {s} : joined'[c] = joined[c]
    BY <2>1 DEF BusTypeOK
  <2>4. Owed'
    <3>1. Len(fanned) # -1 /\ Len(fanned) <= Len(fanned)
      BY <1>1
    <3> QED
      BY <1>1, <2>1, <2>2, <2>3, <3>1 DEF Owed
  <2>5. got[s] = SubSeq(fanned, Len(fanned) + 1, Len(fanned) - 0)
    <3>1. /\ Len(fanned) + 1 \in Int /\ Len(fanned) \in Int
          /\ Len(fanned) < Len(fanned) + 1 /\ Len(fanned) - 0 = Len(fanned)
      BY <1>1
    <3> QED
      BY <2>2, <3>1, SubSeqEmpty
  <2> QED
    BY <1>1, <2>1, <2>2, <2>3, <2>4, <2>5 DEF StreamIsSuffix
<1>7. ASSUME NEW s \in Clients, Unsubscribe(s) PROVE Owed' /\ StreamIsSuffix'
  BY <1>7 DEF Unsubscribe, Owed, StreamIsSuffix, fanoutVars
<1>8. CASE \/ Tick \/ Bind \/ Enqueue
           \/ \E p \in Publishers : Record(p) \/ HandOver(p)
           \/ UNCHANGED busVars
  BY <1>2, <1>8
  DEF Tick, Bind, Enqueue, Record, HandOver, busVars, fanoutVars
<1> QED
  BY <1>3, <1>4, <1>5, <1>6, <1>7, <1>8 DEF BusNext, BusStep

\* Any number of sockets that come, go and fail while frames are being sent: each
\* one that is subscribed has been sent the frames since it joined, all of them.
THEOREM StreamComplete == BusSpec => []StreamIsSuffix
<1>1. BusInit => StreamInv
  BY DEF BusInit, StreamInv, Owed, StreamIsSuffix
<1>2. BusTypeOK /\ StreamInv /\ [BusNext]_busVars => StreamInv'
  BY StreamStep
<1>3. StreamInv => StreamIsSuffix
  BY DEF StreamInv
<1> QED
  BY <1>1, <1>2, <1>3, BusTypeCorrect, PTL DEF BusSpec

-----------------------------------------------------------------------------
(* The order of one thread's frames.                                       *)

\* The thread that published both published f first.
InOrder(f, g) ==
  /\ f.ev # Greeting /\ g.ev # Greeting
  /\ OwnerOf[f.ev] = OwnerOf[g.ev]
  => f.ev < g.ev

Sorted(q)     == \A i, j \in DOMAIN q : i < j => InOrder(q[i], q[j])
Ahead(q, r)   == \A i \in DOMAIN q, j \in DOMAIN r : InOrder(q[i], r[j])
AheadOf(q, f) == \A i \in DOMAIN q : InOrder(q[i], f)

\* The frames of r are frames of q, in the order they have there.
Subsequence(r, q) ==
  \E h \in [DOMAIN r -> DOMAIN q] :
    /\ \A i \in DOMAIN r : r[i] = q[h[i]]
    /\ \A i, j \in DOMAIN r : i < j => h[i] < h[j]

LEMMA SubsequenceOrder ==
  ASSUME NEW r, NEW q, Subsequence(r, q)
  PROVE  /\ \A i \in DOMAIN r : \E j \in DOMAIN q : r[i] = q[j]
         /\ Sorted(q) => Sorted(r)
         /\ \A p : Ahead(p, q) => Ahead(p, r)
         /\ \A p : Ahead(q, p) => Ahead(r, p)
         /\ \A f : AheadOf(q, f) => AheadOf(r, f)
<1>1. PICK h \in [DOMAIN r -> DOMAIN q] :
        /\ \A i \in DOMAIN r : r[i] = q[h[i]]
        /\ \A i, j \in DOMAIN r : i < j => h[i] < h[j]
  BY DEF Subsequence
<1>2. \A i \in DOMAIN r : h[i] \in DOMAIN q /\ r[i] = q[h[i]]
  BY <1>1
<1>3. \A i \in DOMAIN r : \E j \in DOMAIN q : r[i] = q[j]
  BY <1>2
<1>4. Sorted(q) => Sorted(r)
  BY <1>1, <1>2 DEF Sorted
<1>5. \A p : Ahead(p, q) => Ahead(p, r)
  BY <1>2 DEF Ahead
<1>6. \A p : Ahead(q, p) => Ahead(r, p)
  BY <1>2 DEF Ahead
<1>7. \A f : AheadOf(q, f) => AheadOf(r, f)
  BY <1>2 DEF AheadOf
<1> QED
  BY <1>3, <1>4, <1>5, <1>6, <1>7

LEMMA TailSubsequence ==
  ASSUME NEW q \in Seq(Frame), q # <<>>
  PROVE  /\ Subsequence(Tail(q), q)
         /\ Sorted(q) => \A i \in DOMAIN Tail(q) : InOrder(Head(q), Tail(q)[i])
         /\ 1 \in DOMAIN q /\ Head(q) = q[1]
<1>1. /\ Len(q) \in Nat \ {0} /\ DOMAIN q = 1 .. Len(q)
      /\ Tail(q) \in Seq(Frame) /\ Len(Tail(q)) = Len(q) - 1
      /\ \A i \in 1 .. Len(Tail(q)) : Tail(q)[i] = q[i + 1]
  BY EmptySeq, LenProperties, HeadTailProperties
<1>2. DOMAIN Tail(q) = 1 .. Len(q) - 1
  BY <1>1, LenProperties
<1> DEFINE h == [i \in 1 .. Len(q) - 1 |-> i + 1]
<1>3. h \in [DOMAIN Tail(q) -> DOMAIN q]
  BY <1>1, <1>2
<1>4. \A i \in DOMAIN Tail(q) : Tail(q)[i] = q[h[i]]
  BY <1>1, <1>2
<1>5. \A i, j \in DOMAIN Tail(q) : i < j => h[i] < h[j]
  BY <1>1, <1>2
<1>6. Subsequence(Tail(q), q)
  BY <1>3, <1>4, <1>5 DEF Subsequence
<1>7. 1 \in DOMAIN q /\ Head(q) = q[1]
  BY <1>1
<1>8. Sorted(q) => \A i \in DOMAIN Tail(q) : InOrder(Head(q), Tail(q)[i])
  <2>1. \A i \in DOMAIN Tail(q) : i + 1 \in DOMAIN q /\ 1 < i + 1
    BY <1>1, <1>2
  <2> QED
    BY <1>1, <1>2, <1>7, <2>1 DEF Sorted
<1> QED
  BY <1>6, <1>7, <1>8

LEMMA EvictedSubsequence ==
  ASSUME NEW q \in Seq(Frame), NEW k \in DOMAIN q
  PROVE  Subsequence(RemoveAt(q, k), q) /\ RemoveAt(q, k) \in Seq(Frame)
<1>1. Len(q) \in Nat /\ DOMAIN q = 1 .. Len(q)
  BY LenProperties
<1>2. /\ RemoveAt(q, k) \in Seq(Frame)
      /\ Len(RemoveAt(q, k)) = Len(q) - 1
      /\ \A j \in 1 .. Len(q) - 1 :
           RemoveAt(q, k)[j] = IF j < k THEN q[j] ELSE q[j + 1]
  BY <1>1, Evicted
<1>3. DOMAIN RemoveAt(q, k) = 1 .. Len(q) - 1
  BY <1>2, LenProperties
<1> DEFINE h == [i \in 1 .. Len(q) - 1 |-> IF i < k THEN i ELSE i + 1]
<1>4. h \in [DOMAIN RemoveAt(q, k) -> DOMAIN q]
  BY <1>1, <1>3
<1>5. \A i \in DOMAIN RemoveAt(q, k) : RemoveAt(q, k)[i] = q[h[i]]
  BY <1>2, <1>3
<1>6. \A i, j \in DOMAIN RemoveAt(q, k) : i < j => h[i] < h[j]
  BY <1>1, <1>3
<1> QED
  BY <1>2, <1>4, <1>5, <1>6 DEF Subsequence

LEMMA AppendOrder ==
  ASSUME NEW q \in Seq(Frame), NEW f \in Frame
  PROVE  /\ Append(q, f) \in Seq(Frame)
         /\ \A i \in DOMAIN Append(q, f) :
              Append(q, f)[i] = f \/ \E j \in DOMAIN q : Append(q, f)[i] = q[j]
         /\ Sorted(q) /\ AheadOf(q, f) => Sorted(Append(q, f))
         /\ \A p : Ahead(p, q) /\ AheadOf(p, f) => Ahead(p, Append(q, f))
         /\ \A p : Ahead(q, p) /\ (\A i \in DOMAIN p : InOrder(f, p[i]))
                     => Ahead(Append(q, f), p)
         /\ \A g : AheadOf(q, g) /\ InOrder(f, g) => AheadOf(Append(q, f), g)
<1> DEFINE r == Append(q, f)
<1>1. /\ r \in Seq(Frame) /\ Len(r) = Len(q) + 1 /\ Len(q) \in Nat
      /\ \A i \in 1 .. Len(q) : r[i] = q[i]
      /\ r[Len(q) + 1] = f
  BY AppendProperties, LenProperties
<1>2. DOMAIN r = 1 .. Len(q) + 1 /\ DOMAIN q = 1 .. Len(q)
  BY <1>1, LenProperties
<1> HIDE DEF r
<1>3. \A i \in DOMAIN r : \/ i = Len(q) + 1 /\ r[i] = f
                          \/ i \in DOMAIN q /\ r[i] = q[i]
  BY <1>1, <1>2
<1>4. Sorted(q) /\ AheadOf(q, f) => Sorted(r)
  <2> SUFFICES ASSUME Sorted(q), AheadOf(q, f), NEW i \in DOMAIN r, NEW j \in DOMAIN r, i < j
               PROVE  InOrder(r[i], r[j])
    BY DEF Sorted
  <2>1. i \in DOMAIN q /\ r[i] = q[i]
    BY <1>1, <1>2, <1>3
  <2>2. CASE j = Len(q) + 1 /\ r[j] = f
    BY <2>1, <2>2 DEF AheadOf
  <2>3. CASE j \in DOMAIN q /\ r[j] = q[j]
    BY <2>1, <2>3 DEF Sorted
  <2> QED
    BY <1>3, <2>2, <2>3
<1>5. \A p : Ahead(p, q) /\ AheadOf(p, f) => Ahead(p, r)
  BY <1>3 DEF Ahead, AheadOf
<1>6. \A p : Ahead(q, p) /\ (\A i \in DOMAIN p : InOrder(f, p[i])) => Ahead(r, p)
  BY <1>3 DEF Ahead
<1>7. \A g : AheadOf(q, g) /\ InOrder(f, g) => AheadOf(r, g)
  BY <1>3 DEF AheadOf
<1>8. \A i \in DOMAIN r : r[i] = f \/ \E j \in DOMAIN q : r[i] = q[j]
  BY <1>3
<1> QED
  BY <1>1, <1>4, <1>5, <1>6, <1>7, <1>8 DEF r

\* Where a frame may be: sent on its way, queued, scheduled, or held by its
\* thread. Of one thread, the frames further on were published earlier.
OrderInv ==
  /\ Sorted(fanned) /\ Sorted(queue) /\ Sorted(handed)
  /\ Ahead(fanned, queue) /\ Ahead(fanned, handed) /\ Ahead(queue, handed)
  /\ \A p \in Publishers :
       holding[p] # None =>
         /\ holding[p].ev \in issued /\ OwnerOf[holding[p].ev] = p
         /\ AheadOf(fanned, holding[p]) /\ AheadOf(queue, holding[p])
         /\ AheadOf(handed, holding[p])

\* What is on its way has been issued, and a thread issues its events in order.
IssuedInv ==
  /\ \A q \in {fanned, queue, handed} : \A i \in DOMAIN q : q[i].ev \in issued \cup {Greeting}
  /\ \A e \in issued, d \in Events \ issued : OwnerOf[e] = OwnerOf[d] => e < d
LEMMA OrderStep ==
  BusTypeOK /\ OrderInv /\ IssuedInv /\ [BusNext]_busVars => OrderInv' /\ IssuedInv'
<1> SUFFICES ASSUME BusTypeOK, OrderInv, IssuedInv, [BusNext]_busVars
             PROVE  OrderInv' /\ IssuedInv'
  OBVIOUS
<1>1. /\ fanned \in Seq(Frame) /\ queue \in Seq(Frame) /\ handed \in Seq(Frame)
      /\ \A p \in Publishers : holding[p] \in Frame
  BY DEF BusTypeOK
<1>2. CASE UNCHANGED <<fanned, queue, handed, holding, issued>>
  BY <1>2 DEF OrderInv, IssuedInv
<1>3. ASSUME NEW p \in Publishers, Record(p) PROVE OrderInv' /\ IssuedInv'
  <2>1. PICK e \in Events \ issued, sec \in {clock} \cup (IF Straddles THEN {clock - 1} ELSE {}) :
          /\ OwnerOf[e] = p
          /\ \A d \in Events \ issued : OwnerOf[d] = p => e <= d
          /\ issued' = issued \cup {e}
          /\ holding' = [holding EXCEPT ![p] = [ev |-> e, sec |-> sec]]
    BY <1>3 DEF Record
  <2>2. UNCHANGED <<fanned, queue, handed>>
    BY <1>3 DEF Record, handoffVars, fanoutVars
  <2> DEFINE f == [ev |-> e, sec |-> sec]
  <2>3. f.ev = e /\ f # None
    BY FrameFacts DEF None
  <2>4. ASSUME NEW q \in {fanned, queue, handed} PROVE AheadOf(q, f)
    <3> SUFFICES ASSUME NEW i \in DOMAIN q,
                        q[i].ev # Greeting, OwnerOf[q[i].ev] = OwnerOf[e]
                 PROVE  q[i].ev < e
      BY <2>3 DEF AheadOf, InOrder
    <3>1. q[i].ev \in issued
      BY <2>4 DEF IssuedInv
    <3> QED
      BY <3>1, <2>1 DEF IssuedInv
  <2>5. holding'[p] = f /\ \A c \in Publishers \ {p} : holding'[c] = holding[c]
    BY <2>1 DEF BusTypeOK
  <2> HIDE DEF f
  <2>6. OrderInv'
    <3>1. ASSUME NEW c \in Publishers, holding'[c] # None
          PROVE  /\ holding'[c].ev \in issued' /\ OwnerOf[holding'[c].ev] = c
                 /\ AheadOf(fanned, holding'[c]) /\ AheadOf(queue, holding'[c])
                 /\ AheadOf(handed, holding'[c])
      <4>1. CASE c = p
        BY <2>1, <2>3, <2>4, <2>5, <4>1
      <4>2. CASE c # p
        BY <2>1, <2>5, <3>1, <4>2 DEF OrderInv
      <4> QED
        BY <4>1, <4>2
    <3> QED
      BY <2>2, <3>1 DEF OrderInv
  <2>7. IssuedInv'
    <3>1. ASSUME NEW a \in issued', NEW d \in Events \ issued', OwnerOf[a] = OwnerOf[d]
          PROVE  a < d
      <4>1. CASE a \in issued
        BY <2>1, <3>1, <4>1 DEF IssuedInv
      <4>2. CASE a = e
        <5>1. e <= d /\ e # d
          BY <2>1, <3>1, <4>2
        <5> QED
          BY <4>2, <5>1 DEF Events
      <4> QED
        BY <2>1, <4>1, <4>2
    <3> QED
      BY <2>1, <2>2, <3>1 DEF IssuedInv
  <2> QED
    BY <2>6, <2>7
<1>4. ASSUME NEW p \in Publishers, HandOver(p) PROVE OrderInv' /\ IssuedInv'
  <2>1. /\ holding[p] # None /\ UNCHANGED <<fanned, queue, issued>>
        /\ handed' = Append(handed, holding[p]) \/ UNCHANGED handed
        /\ holding' = [holding EXCEPT ![p] = None]
    BY <1>4 DEF HandOver, Schedule, handoffVars, fanoutVars
  <2>2. holding'[p] = None /\ \A c \in Publishers \ {p} : holding'[c] = holding[c]
    BY <2>1 DEF BusTypeOK
  <2>3. /\ holding[p].ev \in issued /\ OwnerOf[holding[p].ev] = p
        /\ AheadOf(fanned, holding[p]) /\ AheadOf(queue, holding[p])
        /\ AheadOf(handed, holding[p])
    BY <2>1 DEF OrderInv
  <2>4. CASE UNCHANGED handed
    BY <2>1, <2>2, <2>4 DEF OrderInv, IssuedInv
  <2>5. CASE handed' = Append(handed, holding[p])
    <3>1. Sorted(handed') /\ Ahead(fanned, handed') /\ Ahead(queue, handed')
      BY <1>1, <2>3, <2>5, AppendOrder DEF OrderInv
    <3>2. ASSUME NEW c \in Publishers, holding'[c] # None
          PROVE  /\ holding'[c].ev \in issued /\ OwnerOf[holding'[c].ev] = c
                 /\ AheadOf(fanned, holding'[c]) /\ AheadOf(queue, holding'[c])
                 /\ AheadOf(handed', holding'[c])
      <4>1. c # p /\ holding'[c] = holding[c]
        BY <2>2, <3>2
      <4>2. OwnerOf[holding[c].ev] = c /\ AheadOf(handed, holding[c])
        BY <3>2, <4>1 DEF OrderInv
      <4>3. InOrder(holding[p], holding[c])
        BY <2>3, <4>1, <4>2 DEF InOrder
      <4>4. AheadOf(handed', holding[c])
        BY <1>1, <2>5, <4>2, <4>3, AppendOrder
      <4> QED
        BY <3>2, <4>1, <4>4 DEF OrderInv
    <3>3. \A i \in DOMAIN handed' : handed'[i].ev \in issued \cup {Greeting}
      <4>1. \A i \in DOMAIN handed' :
              handed'[i] = holding[p] \/ \E j \in DOMAIN handed : handed'[i] = handed[j]
        BY <1>1, <2>5, AppendOrder
      <4> QED
        BY <2>3, <4>1 DEF IssuedInv
    <3>4. OrderInv'
      BY <2>1, <3>1, <3>2 DEF OrderInv
    <3>5. IssuedInv'
      BY <2>1, <3>3 DEF IssuedInv
    <3> QED
      BY <3>4, <3>5
  <2> QED
    BY <2>1, <2>4, <2>5
<1>5. CASE Enqueue
  <2>1. /\ handed # <<>> /\ handed' = Tail(handed)
        /\ UNCHANGED <<fanned, holding, issued>>
    BY <1>5 DEF Enqueue, publishVars, fanoutVars
  <2> DEFINE f == Head(handed)
  <2>2. /\ handed' \in Seq(Frame) /\ f \in Frame
        /\ Subsequence(handed', handed)
        /\ \A i \in DOMAIN handed' : InOrder(f, handed'[i])
        /\ 1 \in DOMAIN handed /\ f = handed[1]
    BY <1>1, <2>1, HeadTailProperties, TailSubsequence DEF OrderInv
  <2> HIDE DEF f
  <2>3. PICK rest \in Seq(Frame) : /\ rest = queue \/ Subsequence(rest, queue)
                                   /\ queue' = Append(rest, f) \/ queue' = rest
    <3>1. CASE queue' = Append(queue, f) \/ UNCHANGED queue
      BY <1>1, <3>1
    <3>2. CASE \E k \in Evict(queue) : queue' = Append(RemoveAt(queue, k), f)
      BY <1>1, <3>2, EvictedSubsequence DEF Evict
    <3> QED
      BY <1>5, <3>1, <3>2 DEF Enqueue, f
  <2>4. /\ Sorted(handed') /\ Ahead(fanned, handed') /\ Ahead(queue, handed')
        /\ \A g : AheadOf(handed, g) => AheadOf(handed', g)
        /\ \A i \in DOMAIN handed' : \E j \in DOMAIN handed : handed'[i] = handed[j]
    BY <2>2, SubsequenceOrder DEF OrderInv
  <2>5. /\ Sorted(rest) /\ Ahead(fanned, rest) /\ Ahead(rest, handed) /\ Ahead(rest, handed')
        /\ \A g : AheadOf(queue, g) => AheadOf(rest, g)
        /\ \A i \in DOMAIN rest : \E j \in DOMAIN queue : rest[i] = queue[j]
    BY <2>3, <2>4, SubsequenceOrder DEF OrderInv
  <2>6. AheadOf(rest, f) /\ AheadOf(fanned, f)
    BY <2>2, <2>5 DEF Ahead, AheadOf, OrderInv
  <2>7. /\ Sorted(queue') /\ Ahead(fanned, queue') /\ Ahead(queue', handed')
        /\ \A g : AheadOf(queue, g) /\ InOrder(f, g) => AheadOf(queue', g)
        /\ \A i \in DOMAIN queue' : queue'[i] = f \/ \E j \in DOMAIN queue : queue'[i] = queue[j]
    <3>1. CASE queue' = rest
      BY <2>5, <3>1
    <3>2. CASE queue' = Append(rest, f)
      <4>1. /\ Sorted(queue') /\ Ahead(fanned, queue') /\ Ahead(queue', handed')
            /\ \A i \in DOMAIN queue' : queue'[i] = f \/ \E j \in DOMAIN rest : queue'[i] = rest[j]
        BY <2>2, <2>3, <2>5, <2>6, <3>2, AppendOrder
      <4>2. \A g : AheadOf(rest, g) /\ InOrder(f, g) => AheadOf(queue', g)
        BY <2>2, <2>3, <3>2, AppendOrder
      <4> QED
        BY <2>5, <4>1, <4>2
    <3> QED
      BY <2>3, <3>1, <3>2
  <2>8. OrderInv'
    <3>1. ASSUME NEW c \in Publishers, holding[c] # None
          PROVE  /\ holding[c].ev \in issued /\ OwnerOf[holding[c].ev] = c
                 /\ AheadOf(fanned, holding[c]) /\ AheadOf(queue', holding[c])
                 /\ AheadOf(handed', holding[c])
      <4>1. /\ holding[c].ev \in issued /\ OwnerOf[holding[c].ev] = c
            /\ AheadOf(fanned, holding[c]) /\ AheadOf(queue, holding[c])
            /\ AheadOf(handed, holding[c])
        BY <3>1 DEF OrderInv
      <4>2. InOrder(f, holding[c])
        BY <2>2, <4>1 DEF AheadOf
      <4> QED
        BY <2>4, <2>7, <4>1, <4>2
    <3> QED
      BY <2>1, <2>4, <2>7, <3>1 DEF OrderInv
  <2>9. IssuedInv'
    <3>1. f.ev \in issued \cup {Greeting}
      BY <2>2 DEF IssuedInv
    <3> QED
      BY <2>1, <2>4, <2>7, <3>1 DEF IssuedInv
  <2> QED
    BY <2>8, <2>9
<1>6. CASE FanoutTake
  <2>1. /\ queue # <<>> /\ queue' = Tail(queue) /\ fanned' = Append(fanned, Head(queue))
        /\ UNCHANGED <<handed, holding, issued>>
    BY <1>6 DEF FanoutTake, publishVars, handoffVars
  <2> DEFINE f == Head(queue)
  <2>2. /\ queue' \in Seq(Frame) /\ f \in Frame
        /\ Subsequence(queue', queue)
        /\ \A i \in DOMAIN queue' : InOrder(f, queue'[i])
        /\ 1 \in DOMAIN queue /\ f = queue[1]
    BY <1>1, <2>1, HeadTailProperties, TailSubsequence DEF OrderInv
  <2> HIDE DEF f
  <2>3. fanned' = Append(fanned, f)
    BY <2>1 DEF f
  <2>4. /\ Sorted(queue') /\ Ahead(fanned, queue') /\ Ahead(queue', handed)
        /\ \A g : AheadOf(queue, g) => AheadOf(queue', g)
        /\ \A i \in DOMAIN queue' : \E j \in DOMAIN queue : queue'[i] = queue[j]
    BY <2>2, SubsequenceOrder DEF OrderInv
  <2>5. AheadOf(fanned, f) /\ \A i \in DOMAIN handed : InOrder(f, handed[i])
    BY <2>2 DEF Ahead, AheadOf, OrderInv
  <2>6. /\ Sorted(fanned') /\ Ahead(fanned', queue') /\ Ahead(fanned', handed)
        /\ \A i \in DOMAIN fanned' : fanned'[i] = f \/ \E j \in DOMAIN fanned : fanned'[i] = fanned[j]
    BY <1>1, <2>2, <2>3, <2>4, <2>5, AppendOrder DEF OrderInv
  <2>7. \A g : AheadOf(fanned, g) /\ InOrder(f, g) => AheadOf(fanned', g)
    BY <1>1, <2>2, <2>3, AppendOrder
  <2>8. OrderInv'
    <3>1. ASSUME NEW c \in Publishers, holding[c] # None
          PROVE  /\ holding[c].ev \in issued /\ OwnerOf[holding[c].ev] = c
                 /\ AheadOf(fanned', holding[c]) /\ AheadOf(queue', holding[c])
                 /\ AheadOf(handed, holding[c])
      <4>1. /\ holding[c].ev \in issued /\ OwnerOf[holding[c].ev] = c
            /\ AheadOf(fanned, holding[c]) /\ AheadOf(queue, holding[c])
            /\ AheadOf(handed, holding[c])
        BY <3>1 DEF OrderInv
      <4>2. InOrder(f, holding[c])
        BY <2>2, <4>1 DEF AheadOf
      <4> QED
        BY <2>4, <2>7, <4>1, <4>2
    <3> QED
      BY <2>1, <2>4, <2>6, <3>1 DEF OrderInv
  <2>9. IssuedInv'
    <3>1. f.ev \in issued \cup {Greeting}
      BY <2>2 DEF IssuedInv
    <3> QED
      BY <2>1, <2>4, <2>6, <3>1 DEF IssuedInv
  <2> QED
    BY <2>8, <2>9
<1>7. ASSUME NEW s \in Clients, Subscribe(s) PROVE OrderInv' /\ IssuedInv'
  <2> DEFINE f == [ev |-> Greeting, sec |-> clock]
  <2>1. /\ handed' = Append(handed, f) /\ UNCHANGED <<fanned, queue, holding, issued>>
    BY <1>7 DEF Subscribe, Schedule, fanoutVars
  <2>2. f \in Frame /\ f.ev = Greeting
    <3>1. clock \in 0 .. MaxTime
      BY DEF BusTypeOK
    <3> QED
      BY <3>1, FrameFacts
  <2> HIDE DEF f
  <2>3. \A g : InOrder(f, g) /\ InOrder(g, f)
    BY <2>2 DEF InOrder
  <2>4. AheadOf(fanned, f) /\ AheadOf(queue, f) /\ AheadOf(handed, f)
    BY <2>3 DEF AheadOf
  <2>5. /\ Sorted(handed') /\ Ahead(fanned, handed') /\ Ahead(queue, handed')
        /\ \A i \in DOMAIN handed' : handed'[i] = f \/ \E j \in DOMAIN handed : handed'[i] = handed[j]
    BY <1>1, <2>1, <2>2, <2>4, AppendOrder DEF OrderInv
  <2>6. \A g : AheadOf(handed, g) => AheadOf(handed', g)
    BY <1>1, <2>1, <2>2, <2>3, AppendOrder
  <2>7. OrderInv'
    BY <2>1, <2>5, <2>6 DEF OrderInv
  <2>8. IssuedInv'
    BY <2>1, <2>2, <2>5 DEF IssuedInv
  <2> QED
    BY <2>7, <2>8
<1>8. CASE \/ Tick \/ Bind
           \/ \E s \in Clients : FanoutSend(s) \/ FanoutFails(s) \/ Unsubscribe(s)
           \/ UNCHANGED busVars
  BY <1>2, <1>8
  DEF Tick, Bind, FanoutSend, FanoutFails, Unsubscribe, busVars, publishVars,
      handoffVars, fanoutVars
<1> QED
  BY <1>3, <1>4, <1>5, <1>6, <1>7, <1>8 DEF BusNext, BusStep

LEMMA OrderInit == BusInit => OrderInv /\ IssuedInv
<1> SUFFICES ASSUME BusInit PROVE OrderInv /\ IssuedInv
  OBVIOUS
<1>1. /\ DOMAIN fanned = {} /\ DOMAIN queue = {} /\ DOMAIN handed = {}
      /\ issued = {} /\ \A p \in Publishers : holding[p] = None
  BY DEF BusInit
<1> QED
  BY <1>1 DEF OrderInv, IssuedInv, Sorted, Ahead

\* For any number of threads, however their steps, the loop's and the evictions
\* fall: a thread's frames are sent in the order it published them.
THEOREM InThreadOrder == BusSpec => []ThreadOrder
<1>1. BusInit => OrderInv /\ IssuedInv
  BY OrderInit
<1>2. BusTypeOK /\ OrderInv /\ IssuedInv /\ [BusNext]_busVars => OrderInv' /\ IssuedInv'
  BY OrderStep
<1>3. OrderInv => ThreadOrder
  BY DEF OrderInv, Sorted, InOrder, ThreadOrder
<1> QED
  BY <1>1, <1>2, <1>3, BusTypeCorrect, PTL DEF BusSpec

-----------------------------------------------------------------------------
(* The bus in the feed.                                                    *)

LEMMA FeedStepsBus == [Next]_vars => [BusNext]_busVars
<1> SUFFICES ASSUME [Next]_vars PROVE [BusNext]_busVars
  OBVIOUS
<1>1. CASE BusMoves
  BY <1>1 DEF BusMoves, BusNext
<1>2. CASE StreamMoves
  BY <1>2 DEF StreamMoves
<1>3. ASSUME NEW s \in Sockets, PageMoves(s) PROVE [BusNext]_busVars
  <2>1. s \in Clients
    BY FeedAssumption
  <2>2. CASE ServerSubscribes(s) \/ ServerSends(s) \/ ServerNotices(s)
    BY <2>1, <2>2 DEF ServerSubscribes, ServerSends, ServerNotices, BusNext
  <2>3. CASE PageOpens(s) \/ Message(s) \/ Serve(s) \/ CatchUp(s) \/ FetchFails(s)
    BY <2>3 DEF PageOpens, Message, Serve, CatchUp, FetchFails
  <2> QED
    BY <1>3, <2>2, <2>3 DEF PageMoves
<1>4. CASE UNCHANGED vars
  BY <1>4 DEF vars
<1> QED
  BY <1>1, <1>2, <1>3, <1>4 DEF Next

\* The feed implements the bus: whatever the page and its sockets do, the bus
\* sees behaviour of SessionBus, so that its theorems hold of the feed.
THEOREM FeedImplementsBus == Spec => BusSpec
<1>1. Init => BusInit
  BY DEF Init
<1>2. [Next]_vars => [BusNext]_busVars
  BY FeedStepsBus
<1> QED
  BY <1>1, <1>2, PTL DEF Spec, BusSpec

-----------------------------------------------------------------------------
(* Types.                                                                  *)

PageTypeOK ==
  /\ watermark \in 0 .. MaxTime
  /\ read \in [Sockets -> Nat]
  /\ fetch \in [Sockets -> [st : FetchStates, since : 0 .. MaxTime, rows : SUBSET Row]]
  /\ applied \subseteq Events
  /\ answered \in [Sockets -> SUBSET Events]

LEMMA ConnectTyped ==
  ASSUME StreamTypeOK, Connect
  PROVE  sock' \in [Sockets -> SocketStates] /\ ws' \in Sockets \cup {NoSocket}
BY DEF StreamTypeOK, Connect, SocketStates

LEMMA StreamTypeStep == StreamTypeOK /\ [Next]_vars => StreamTypeOK'
<1> SUFFICES ASSUME StreamTypeOK, [Next]_vars PROVE StreamTypeOK'
  OBVIOUS
<1>1. Initial \in Initial .. Cap /\ Doubled \in Initial .. Cap
  BY StreamAssumption DEF StreamTypeOK, Doubled
<1>2. CASE UNCHANGED streamVars
  BY <1>2 DEF streamVars, StreamTypeOK
<1>3. ASSUME NEW s \in Sockets, Opens(s) PROVE StreamTypeOK'
  BY <1>1, <1>3 DEF Opens, StreamTypeOK, SocketStates
<1>4. ASSUME NEW s \in Sockets, Closes(s) PROVE StreamTypeOK'
  <2>1. sock' \in [Sockets -> SocketStates] /\ ws' \in Sockets \cup {NoSocket}
    BY <1>4 DEF Closes, StreamTypeOK, SocketStates
  <2>2. backoff' \in Initial .. Cap /\ timer' \in BOOLEAN /\ manual' \in BOOLEAN
    BY <1>1, <1>4 DEF Closes, StreamTypeOK
  <2> QED
    BY <2>1, <2>2 DEF StreamTypeOK
<1>5. CASE Fires
  <2>1. sock' \in [Sockets -> SocketStates] /\ ws' \in Sockets \cup {NoSocket}
    BY <1>5, ConnectTyped DEF Fires, StreamTypeOK
  <2> QED
    BY <1>5, <2>1 DEF Fires, StreamTypeOK
<1>6. CASE BecomesVisible
  BY <1>1, <1>6, ConnectTyped DEF BecomesVisible, StreamTypeOK
<1>7. CASE Close
  <2>1. sock' \in [Sockets -> SocketStates]
    BY <1>7 DEF Close, StreamTypeOK, SocketStates
  <2> QED
    BY <1>7, <2>1 DEF Close, StreamTypeOK
<1>8. ASSUME NEW s \in Sockets, PageMoves(s) PROVE StreamTypeOK'
  <2>1. CASE PageOpens(s)
    BY <1>3, <2>1 DEF PageOpens
  <2>2. CASE ~PageOpens(s)
    BY <1>2, <1>8, <2>2
    DEF PageMoves, ServerSubscribes, ServerSends, ServerNotices, Message, Serve,
        CatchUp, FetchFails
  <2> QED
    BY <2>1, <2>2
<1> QED
  BY <1>2, <1>4, <1>5, <1>6, <1>7, <1>8 DEF Next, BusMoves, StreamMoves, vars

LEMMA PageTypeStep == BusTypeOK /\ PageTypeOK /\ [Next]_vars => PageTypeOK'
<1> SUFFICES ASSUME BusTypeOK, PageTypeOK, [Next]_vars PROVE PageTypeOK'
  OBVIOUS
<1>1. CASE UNCHANGED pageVars
  BY <1>1 DEF pageVars, PageTypeOK
<1>2. ASSUME NEW s \in Sockets, PageOpens(s) PROVE PageTypeOK'
  <2>1. [st |-> "asked", since |-> watermark, rows |-> {}]
          \in [st : FetchStates, since : 0 .. MaxTime, rows : SUBSET Row]
    BY DEF PageTypeOK, FetchStates
  <2> QED
    BY <1>2, <2>1 DEF PageOpens, PageTypeOK
<1>3. ASSUME NEW s \in Sockets, Message(s) PROVE PageTypeOK'
  <2> DEFINE f == got[s][read[s] + 1]
  <2>1. f \in Frame
    <3>1. got[s] \in Seq(Frame) /\ read[s] \in Nat /\ read[s] < Len(got[s])
      BY <1>3, FeedAssumption DEF Message, BusTypeOK, PageTypeOK
    <3>2. read[s] + 1 \in 1 .. Len(got[s])
      BY <3>1, LenProperties
    <3> QED
      BY <3>1, <3>2, ElementOfSeq
  <2>2. f.sec \in 0 .. MaxTime
    BY <2>1 DEF Frame
  <2>3. /\ watermark' = Later(f.sec) /\ applied' = applied \cup ({f.ev} \cap Events)
        /\ read' = [read EXCEPT ![s] = @ + 1] /\ UNCHANGED <<fetch, answered>>
    BY <1>3 DEF Message
  <2> HIDE DEF f
  <2>4. watermark' \in 0 .. MaxTime
    BY <2>2, <2>3 DEF Later, PageTypeOK
  <2>5. applied' \subseteq Events /\ read' \in [Sockets -> Nat]
    BY <2>3 DEF PageTypeOK
  <2> QED
    BY <2>3, <2>4, <2>5 DEF PageTypeOK
<1>4. ASSUME NEW s \in Sockets, Serve(s) PROVE PageTypeOK'
  <2>1. {r \in table : r.at > fetch[s].since} \subseteq Row
    BY DEF BusTypeOK
  <2> QED
    BY <1>4, <2>1 DEF Serve, PageTypeOK, FetchStates
<1>5. ASSUME NEW s \in Sockets, CatchUp(s) PROVE PageTypeOK'
  <2>1. fetch[s].rows \subseteq Row
    BY DEF PageTypeOK
  <2>2. /\ {r.at : r \in fetch[s].rows} \subseteq 0 .. MaxTime
        /\ {r.ev : r \in fetch[s].rows} \subseteq Events \cup {Greeting}
    BY <2>1 DEF Row
  <2>3. watermark' \in 0 .. MaxTime /\ applied' \subseteq Events
    BY <1>5, <2>2 DEF CatchUp, PageTypeOK
  <2>4. NoFetch \in [st : FetchStates, since : 0 .. MaxTime, rows : SUBSET Row]
    BY BusAssumption DEF NoFetch, FetchStates
  <2> QED
    BY <1>5, <2>3, <2>4 DEF CatchUp, PageTypeOK
<1>6. ASSUME NEW s \in Sockets, FetchFails(s) PROVE PageTypeOK'
  <2>1. NoFetch \in [st : FetchStates, since : 0 .. MaxTime, rows : SUBSET Row]
    BY BusAssumption DEF NoFetch, FetchStates
  <2> QED
    BY <1>6, <2>1 DEF FetchFails, PageTypeOK
<1> QED
  BY <1>1, <1>2, <1>3, <1>4, <1>5, <1>6
  DEF Next, BusMoves, StreamMoves, PageMoves, ServerSubscribes, ServerSends,
      ServerNotices, vars

\* Every variable of the bus, the stream and the page keeps its type.
THEOREM FeedTypeCorrect == Spec => []TypeOK
<1>1. Init => StreamTypeOK
  <2>1. 1 \in Sockets /\ Initial \in Initial .. Cap
    BY StreamAssumption DEF Sockets
  <2> QED
    BY <2>1 DEF Init, StreamInit, StreamTypeOK, SocketStates
<1>2. Init => PageTypeOK
  <2>1. 1 \in 0 .. MaxTime /\ 0 \in 0 .. MaxTime /\ 0 \in Nat
    BY BusAssumption
  <2>2. NoFetch \in [st : FetchStates, since : 0 .. MaxTime, rows : SUBSET Row]
    BY <2>1 DEF NoFetch, FetchStates
  <2> QED
    BY <2>1, <2>2 DEF Init, PageTypeOK
<1>3. StreamTypeOK /\ [Next]_vars => StreamTypeOK'
  BY StreamTypeStep
<1>4. BusTypeOK /\ PageTypeOK /\ [Next]_vars => PageTypeOK'
  BY PageTypeStep
<1>5. BusTypeOK /\ StreamTypeOK /\ PageTypeOK => TypeOK
  BY DEF TypeOK, PageTypeOK
<1> QED
  BY <1>1, <1>2, <1>3, <1>4, <1>5, FeedImplementsBus, BusTypeCorrect, PTL DEF Spec

-----------------------------------------------------------------------------
(* The stream.                                                             *)

\* What a step of the feed is to the sockets of the page.
LEMMA FeedStepsStream ==
  [Next]_vars =>
    \/ UNCHANGED streamVars
    \/ Fires \/ BecomesVisible \/ Close
    \/ \E s \in Sockets : Opens(s) \/ Closes(s)
<1> SUFFICES ASSUME [Next]_vars
             PROVE  \/ UNCHANGED streamVars
                    \/ Fires \/ BecomesVisible \/ Close
                    \/ \E s \in Sockets : Opens(s) \/ Closes(s)
  OBVIOUS
<1>1. ASSUME NEW s \in Sockets, PageMoves(s) PROVE UNCHANGED streamVars \/ Opens(s)
  BY <1>1
  DEF PageMoves, PageOpens, ServerSubscribes, ServerSends, ServerNotices, Message,
      Serve, CatchUp, FetchFails
<1> QED
  BY <1>1 DEF Next, BusMoves, StreamMoves, vars

LEMMA TryingStep == StreamTypeOK /\ AlwaysTrying /\ [Next]_vars => AlwaysTrying'
<1> SUFFICES ASSUME StreamTypeOK, AlwaysTrying, [Next]_vars PROVE AlwaysTrying'
  OBVIOUS
<1>1. CASE UNCHANGED streamVars
  BY <1>1 DEF streamVars, AlwaysTrying
<1>2. ASSUME Connect PROVE \E s \in Sockets : sock'[s] \in {"connecting", "open"}
  BY <1>2 DEF Connect, StreamTypeOK
<1>3. CASE Fires
  BY <1>2, <1>3 DEF Fires, AlwaysTrying
<1>4. CASE BecomesVisible
  BY <1>2, <1>4 DEF BecomesVisible, AlwaysTrying
<1>5. CASE Close
  BY <1>5 DEF Close, AlwaysTrying
<1>6. ASSUME NEW s \in Sockets, Opens(s) PROVE AlwaysTrying'
  <2>1. sock'[s] = "open"
    BY <1>6 DEF Opens, StreamTypeOK
  <2> QED
    BY <2>1 DEF AlwaysTrying
<1>7. ASSUME NEW s \in Sockets, Closes(s) PROVE AlwaysTrying'
  BY <1>7 DEF Closes, AlwaysTrying
<1> QED
  BY <1>1, <1>3, <1>4, <1>5, <1>6, <1>7, FeedStepsStream

\* With any number of sockets and any backoff, a page that stays always has a
\* socket or the timer of its next attempt.
THEOREM StreamKeepsTrying == Spec => []AlwaysTrying
<1>1. Init => AlwaysTrying
  <2>1. 1 \in Sockets
    BY StreamAssumption DEF Sockets
  <2> QED
    BY <2>1 DEF Init, StreamInit, AlwaysTrying
<1>2. StreamTypeOK /\ AlwaysTrying /\ [Next]_vars => AlwaysTrying'
  BY TryingStep
<1>3. TypeOK => StreamTypeOK
  BY DEF TypeOK
<1> QED
  BY <1>1, <1>2, <1>3, FeedTypeCorrect, PTL DEF Spec

LEMMA ClosedStep ==
  StreamTypeOK /\ [Next]_vars
    => [manual => \A s \in Sockets : sock[s] = "unused" => sock'[s] = "unused"]_streamVars
<1> SUFFICES ASSUME StreamTypeOK, [Next]_vars, manual,
                    NEW s \in Sockets, sock[s] = "unused"
             PROVE  sock'[s] = "unused" \/ UNCHANGED streamVars
  OBVIOUS
<1>1. CASE Fires
  BY <1>1 DEF Fires
<1>2. CASE BecomesVisible \/ Close
  BY <1>2 DEF BecomesVisible, Close
<1>3. ASSUME NEW r \in Sockets, Opens(r) \/ Closes(r) PROVE sock'[s] = "unused"
  <2>1. sock[r] # "unused" /\ \E v : sock' = [sock EXCEPT ![r] = v]
    BY <1>3 DEF Opens, Closes
  <2> QED
    BY <2>1 DEF StreamTypeOK
<1> QED
  BY <1>1, <1>2, <1>3, FeedStepsStream

\* Timers, visibility changes and late callbacks open no socket for a page that
\* has left.
THEOREM NoSocketAfterClose == Spec => NothingAfterClose
<1>1. StreamTypeOK /\ [Next]_vars
        => [OpensNoneAfterClose]_streamVars
  BY ClosedStep DEF OpensNoneAfterClose
<1>2. TypeOK => StreamTypeOK
  BY DEF TypeOK
<1> QED
  BY <1>1, <1>2, FeedTypeCorrect, PTL DEF Spec, NothingAfterClose

\* Both together: sockets for a page until it leaves, and none after.
THEOREM PageServedHolds == Spec => PageServed
<1>1. AlwaysTrying' /\ [OpensNoneAfterClose]_streamVars
        => [AlwaysTrying' /\ OpensNoneAfterClose]_streamVars
  OBVIOUS
<1> QED
  BY <1>1, StreamKeepsTrying, NoSocketAfterClose, PTL DEF PageServed, NothingAfterClose

-----------------------------------------------------------------------------
(* Stamps, rows and the watermark.                                         *)

\* Every row of event e in T is at second t or before, unless e is in L, the
\* events that were stored late.
CoversIn(L, T, t, e) == e \in L \/ \A r \in T : r.ev = e => r.at <= t
Covers(t, e)         == CoversIn(late, table, t, e)

\* A frame of an event that was issued, stamped with the second of its rows.
StampedIn(I, L, T, f) == f.ev # Greeting => f.ev \in I /\ CoversIn(L, T, f.sec, f.ev)
Stamped(f)            == StampedIn(issued, late, table, f)

StampInv ==
  /\ \A p \in Publishers : Stamped(holding[p])
  /\ \A i \in DOMAIN handed : Stamped(handed[i])
  /\ \A i \in DOMAIN queue : Stamped(queue[i])
  /\ Stamped(sending.frame)
  /\ \A s \in Clients : \A i \in DOMAIN got[s] : Stamped(got[s][i])

\* Rows are of events that were issued, one for each.
RowInv ==
  /\ \A r \in table : r.ev # Greeting => r.ev \in issued
  /\ \A r, q \in table : r.ev # Greeting /\ r.ev = q.ev => r.at = q.at

\* What a step does to the table: at most one row is added, for a new event or a
\* greeting.
LEMMA TableStep ==
  ASSUME BusTypeOK, RowInv, [BusNext]_busVars
  PROVE  /\ RowInv'
         /\ issued \subseteq issued' /\ late \subseteq late' /\ table \subseteq table'
         /\ \A t : \A e \in issued : Covers(t, e) => CoversIn(late', table', t, e)
<1> DEFINE Goal == /\ RowInv'
                   /\ issued \subseteq issued' /\ late \subseteq late' /\ table \subseteq table'
                   /\ \A t : \A e \in issued : Covers(t, e) => CoversIn(late', table', t, e)
<1>1. CASE UNCHANGED <<issued, late, table>>
  BY <1>1 DEF RowInv, Covers, CoversIn
<1>2. ASSUME NEW p \in Publishers, Record(p) PROVE Goal
  <2>1. PICK e \in Events \ issued :
          issued' = issued \cup {e} /\ Store(e) /\ (late' = late \cup {e} \/ late' = late)
    BY <1>2 DEF Record
  <2>2. table' = table \/ table' = table \cup {[ev |-> e, at |-> clock]}
    BY <2>1 DEF Store
  <2>3. e \notin issued /\ e # Greeting
    BY FrameFacts
  <2>4. RowInv'
    <3>1. \A r \in table : r.ev # e
      BY <2>3 DEF RowInv
    <3> QED
      BY <2>1, <2>2, <3>1 DEF RowInv
  <2>5. ASSUME NEW d \in issued, NEW t, Covers(t, d) PROVE CoversIn(late', table', t, d)
    BY <2>1, <2>2, <2>3, <2>5 DEF Covers, CoversIn
  <2> QED
    BY <2>1, <2>2, <2>4, <2>5
<1>3. ASSUME NEW s \in Clients, Subscribe(s) PROVE Goal
  <2>1. /\ table' = table \/ table' = table \cup {[ev |-> Greeting, at |-> clock]}
        /\ UNCHANGED <<issued, late>>
    BY <1>3 DEF Subscribe, Store
  <2>2. RowInv'
    BY <2>1 DEF RowInv
  <2>3. ASSUME NEW d \in issued, NEW t, Covers(t, d) PROVE CoversIn(late', table', t, d)
    <3>1. d # Greeting
      BY FrameFacts DEF BusTypeOK
    <3> QED
      BY <2>1, <2>3, <3>1 DEF Covers, CoversIn
  <2> QED
    BY <2>1, <2>2, <2>3
<1>4. CASE \/ Tick \/ Bind \/ Enqueue \/ FanoutTake
           \/ \E p \in Publishers : HandOver(p)
           \/ \E s \in Clients : FanoutSend(s) \/ FanoutFails(s) \/ Unsubscribe(s)
           \/ UNCHANGED busVars
  BY <1>1, <1>4
  DEF Tick, Bind, Enqueue, FanoutTake, HandOver, FanoutSend, FanoutFails,
      Unsubscribe, busVars, publishVars
<1> QED
  BY <1>2, <1>3, <1>4 DEF BusNext, BusStep

LEMMA StampedStays ==
  ASSUME BusTypeOK, RowInv, [BusNext]_busVars
  PROVE  \A f : Stamped(f) => StampedIn(issued', late', table', f)
BY TableStep DEF Stamped, StampedIn, Covers

LEMMA StampStep == BusTypeOK /\ RowInv /\ StampInv /\ [BusNext]_busVars => StampInv'
<1> SUFFICES ASSUME BusTypeOK, RowInv, StampInv, [BusNext]_busVars PROVE StampInv'
  OBVIOUS
<1> DEFINE Fine(f) == StampedIn(issued', late', table', f)
<1>1. \A f : Stamped(f) => Fine(f)
  BY StampedStays
<1>2. /\ handed \in Seq(Frame) /\ queue \in Seq(Frame)
      /\ \A p \in Publishers : holding[p] \in Frame
      /\ sending.frame \in Frame /\ \A s \in Clients : got[s] \in Seq(Frame)
  BY DEF BusTypeOK
<1>3. \A f : f.ev = Greeting => Fine(f)
  BY DEF StampedIn
<1>4. Fine(None)
  BY <1>3 DEF None
<1> DEFINE Hold == \A p \in Publishers : Fine(holding'[p])
           Hand == \A i \in DOMAIN handed' : Fine(handed'[i])
           Que  == \A i \in DOMAIN queue' : Fine(queue'[i])
           Send == Fine(sending'.frame)
           Got  == \A s \in Clients : \A i \in DOMAIN got'[s] : Fine(got'[s][i])
<1>5. SUFFICES Hold /\ Hand /\ Que /\ Send /\ Got
  BY DEF StampInv, Stamped
<1> HIDE DEF Fine
<1>6. /\ UNCHANGED holding => Hold
      /\ UNCHANGED handed => Hand
      /\ UNCHANGED queue => Que
      /\ UNCHANGED sending => Send
      /\ UNCHANGED got => Got
  BY <1>1 DEF StampInv
<1>7. ASSUME NEW q \in Seq(Frame), NEW f \in Frame, Fine(f), \A i \in DOMAIN q : Fine(q[i])
      PROVE  \A i \in DOMAIN Append(q, f) : Fine(Append(q, f)[i])
  BY <1>7, AppendOrder
<1>8. ASSUME NEW q \in Seq(Frame), q # <<>>, \A i \in DOMAIN q : Fine(q[i])
      PROVE  /\ Tail(q) \in Seq(Frame) /\ Head(q) \in Frame /\ Fine(Head(q))
             /\ \A i \in DOMAIN Tail(q) : Fine(Tail(q)[i])
  <2>1. Tail(q) \in Seq(Frame) /\ Head(q) \in Frame
    BY <1>8, HeadTailProperties
  <2>2. Subsequence(Tail(q), q) /\ 1 \in DOMAIN q /\ Head(q) = q[1]
    BY <1>8, TailSubsequence
  <2>3. \A i \in DOMAIN Tail(q) : \E j \in DOMAIN q : Tail(q)[i] = q[j]
    BY <2>2, SubsequenceOrder
  <2> QED
    BY <1>8, <2>1, <2>2, <2>3
<1>9. /\ \A i \in DOMAIN handed : Fine(handed[i])
      /\ \A i \in DOMAIN queue : Fine(queue[i])
      /\ Fine(sending.frame)
      /\ \A s \in Clients : \A i \in DOMAIN got[s] : Fine(got[s][i])
      /\ \A p \in Publishers : Fine(holding[p])
  BY <1>1 DEF StampInv
<1>10. ASSUME NEW p \in Publishers, Record(p) PROVE Hold /\ Hand /\ Que /\ Send /\ Got
  <2>1. UNCHANGED <<handed, queue, sending, got>>
    BY <1>10 DEF Record, handoffVars, fanoutVars
  <2>2. PICK e \in Events \ issued, sec \in {clock} \cup (IF Straddles THEN {clock - 1} ELSE {}) :
          /\ issued' = issued \cup {e}
          /\ holding' = [holding EXCEPT ![p] = [ev |-> e, sec |-> sec]]
          /\ Store(e)
          /\ late' = IF sec < clock THEN late \cup {e} ELSE late
    BY <1>10 DEF Record
  <2>3. Fine([ev |-> e, sec |-> sec])
    <3>1. CASE sec < clock
      BY <2>2, <3>1 DEF Fine, StampedIn, CoversIn
    <3>2. CASE ~(sec < clock)
      <4>1. sec = clock /\ clock \in Int
        BY <2>2, <3>2, BusAssumption DEF BusTypeOK
      <4>2. table' \subseteq table \cup {[ev |-> e, at |-> clock]}
        BY <2>2 DEF Store
      <4>3. \A r \in table : r.ev # e
        BY <2>2, FrameFacts DEF RowInv
      <4>4. \A r \in table' : r.ev = e => r.at <= sec
        BY <4>1, <4>2, <4>3
      <4> QED
        BY <2>2, <4>4 DEF Fine, StampedIn, CoversIn
    <3> QED
      BY <3>1, <3>2
  <2>4. Hold
    BY <1>9, <2>2, <2>3 DEF BusTypeOK
  <2> QED
    BY <1>6, <2>1, <2>4
<1>11. ASSUME NEW p \in Publishers, HandOver(p) PROVE Hold /\ Hand /\ Que /\ Send /\ Got
  <2>1. /\ UNCHANGED <<queue, sending, got>>
        /\ handed' = Append(handed, holding[p]) \/ UNCHANGED handed
        /\ holding' = [holding EXCEPT ![p] = None]
    BY <1>11 DEF HandOver, Schedule, handoffVars, fanoutVars
  <2>2. Hold
    BY <1>4, <1>9, <2>1 DEF BusTypeOK
  <2>3. Hand
    BY <1>2, <1>6, <1>7, <1>9, <2>1
  <2> QED
    BY <1>6, <2>1, <2>2, <2>3
<1>12. CASE Enqueue
  <2>1. handed # <<>> /\ handed' = Tail(handed) /\ UNCHANGED <<holding, sending, got>>
    BY <1>12 DEF Enqueue, publishVars, fanoutVars
  <2>2. Hand /\ Head(handed) \in Frame /\ Fine(Head(handed))
    BY <1>2, <1>8, <1>9, <2>1
  <2>3. Que
    <3>1. CASE UNCHANGED queue
      BY <1>6, <3>1
    <3>2. CASE queue' = Append(queue, Head(handed))
      BY <1>2, <1>7, <1>9, <2>2, <3>2
    <3>3. CASE \E k \in Evict(queue) : queue' = Append(RemoveAt(queue, k), Head(handed))
      <4>1. PICK k \in DOMAIN queue : queue' = Append(RemoveAt(queue, k), Head(handed))
        BY <3>3 DEF Evict
      <4>2. Subsequence(RemoveAt(queue, k), queue) /\ RemoveAt(queue, k) \in Seq(Frame)
        BY <1>2, EvictedSubsequence
      <4>3. \A i \in DOMAIN RemoveAt(queue, k) :
              \E j \in DOMAIN queue : RemoveAt(queue, k)[i] = queue[j]
        BY <4>2, SubsequenceOrder
      <4>4. \A i \in DOMAIN RemoveAt(queue, k) : Fine(RemoveAt(queue, k)[i])
        BY <1>9, <4>3
      <4> QED
        BY <1>7, <2>2, <4>1, <4>2, <4>4
    <3> QED
      BY <1>12, <3>1, <3>2, <3>3 DEF Enqueue
  <2> QED
    BY <1>6, <2>1, <2>2, <2>3
<1>13. CASE FanoutTake
  <2>1. /\ queue # <<>> /\ queue' = Tail(queue) /\ sending'.frame = Head(queue)
        /\ UNCHANGED <<holding, handed, got>>
    BY <1>13 DEF FanoutTake, publishVars, handoffVars
  <2>2. Que /\ Send
    BY <1>2, <1>8, <1>9, <2>1
  <2> QED
    BY <1>6, <2>1, <2>2
<1>14. ASSUME NEW s \in Clients, FanoutSend(s) PROVE Hold /\ Hand /\ Que /\ Send /\ Got
  <2>1. /\ got' = [got EXCEPT ![s] = Append(@, sending.frame)]
        /\ sending'.frame = sending.frame
        /\ UNCHANGED <<holding, handed, queue>>
    BY <1>14 DEF FanoutSend, publishVars, handoffVars, BusTypeOK
  <2>2. \A i \in DOMAIN Append(got[s], sending.frame) : Fine(Append(got[s], sending.frame)[i])
    BY <1>2, <1>7, <1>9
  <2>3. got'[s] = Append(got[s], sending.frame) /\ \A c \in Clients \ {s} : got'[c] = got[c]
    BY <2>1 DEF BusTypeOK
  <2>4. Got
    BY <1>9, <2>2, <2>3
  <2> QED
    BY <1>6, <1>9, <2>1, <2>4
<1>15. ASSUME NEW s \in Clients, FanoutFails(s) PROVE Hold /\ Hand /\ Que /\ Send /\ Got
  <2>1. sending'.frame = sending.frame /\ UNCHANGED <<holding, handed, queue, got>>
    BY <1>15 DEF FanoutFails, publishVars, handoffVars, BusTypeOK
  <2> QED
    BY <1>6, <1>9, <2>1
<1>16. ASSUME NEW s \in Clients, Subscribe(s) PROVE Hold /\ Hand /\ Que /\ Send /\ Got
  <2>1. /\ handed' = Append(handed, [ev |-> Greeting, sec |-> clock])
        /\ UNCHANGED <<holding, queue, sending, got>>
    BY <1>16 DEF Subscribe, Schedule, fanoutVars
  <2>2. [ev |-> Greeting, sec |-> clock] \in Frame
    <3>1. clock \in 0 .. MaxTime
      BY DEF BusTypeOK
    <3> QED
      BY <3>1, FrameFacts
  <2>3. Fine([ev |-> Greeting, sec |-> clock])
    BY <1>3
  <2>4. Hand
    BY <1>2, <1>7, <1>9, <2>1, <2>2, <2>3
  <2> QED
    BY <1>6, <2>1, <2>4
<1>17. CASE \/ Tick \/ Bind \/ (\E s \in Clients : Unsubscribe(s)) \/ UNCHANGED busVars
  BY <1>6, <1>17
  DEF Tick, Bind, Unsubscribe, busVars, publishVars, handoffVars, fanoutVars
<1> QED
  BY <1>10, <1>11, <1>12, <1>13, <1>14, <1>15, <1>16, <1>17 DEF BusNext, BusStep

\* What was applied is covered by the watermark, what had been applied when a GET
\* was issued by the second it asks from, and its rows are of later seconds.
WatermarkInv ==
  /\ \A e \in applied : e \in issued /\ Covers(watermark, e)
  /\ \A s \in Sockets :
       /\ fetch[s].st # "none" =>
            \A e \in answered[s] : e \in issued /\ Covers(fetch[s].since, e)
       /\ \A r \in fetch[s].rows : r \in table /\ r.at > fetch[s].since

\* A second further on covers no less.
LEMMA CoversLater ==
  ASSUME BusTypeOK, NEW e, NEW t \in Int, NEW u \in Int, t <= u, Covers(t, e)
  PROVE  Covers(u, e)
<1>1. \A r \in table : r.at \in Int
  BY DEF BusTypeOK, Row
<1> QED
  BY <1>1 DEF Covers, CoversIn

LEMMA WatermarkStep ==
  BusTypeOK /\ PageTypeOK /\ RowInv /\ StampInv /\ WatermarkInv /\ [Next]_vars => WatermarkInv'
<1> SUFFICES ASSUME BusTypeOK, PageTypeOK, RowInv, StampInv, WatermarkInv, [Next]_vars
             PROVE  WatermarkInv'
  OBVIOUS
<1>1. watermark \in Int /\ \A s \in Sockets : fetch[s].since \in Int
  BY DEF PageTypeOK
<1>2. ASSUME UNCHANGED pageVars PROVE WatermarkInv'
  <2>1. [BusNext]_busVars
    BY FeedStepsBus
  <2>2. /\ issued \subseteq issued' /\ table \subseteq table'
        /\ \A t : \A e \in issued : Covers(t, e) => CoversIn(late', table', t, e)
    BY <2>1, TableStep
  <2>3. UNCHANGED <<applied, watermark, fetch, answered>>
    BY <1>2 DEF pageVars
  <2>4. \A e \in applied : e \in issued' /\ CoversIn(late', table', watermark, e)
    BY <2>2 DEF WatermarkInv
  <2>5. ASSUME NEW s \in Sockets
        PROVE  /\ fetch[s].st # "none" =>
                    \A e \in answered[s] : e \in issued' /\ CoversIn(late', table', fetch[s].since, e)
               /\ \A r \in fetch[s].rows : r \in table' /\ r.at > fetch[s].since
    BY <2>2 DEF WatermarkInv
  <2> QED
    BY <2>3, <2>4, <2>5 DEF WatermarkInv, Covers
<1>3. UNCHANGED busVars => /\ UNCHANGED <<issued, late, table>>
                           /\ \A t, e : Covers(t, e) => CoversIn(late', table', t, e)
  BY DEF busVars, publishVars, Covers, CoversIn
<1>4. ASSUME NEW s \in Sockets, PageOpens(s) PROVE WatermarkInv'
  <2>1. CASE watermark > 0
    <3>1. /\ fetch' = [fetch EXCEPT ![s] = [st |-> "asked", since |-> watermark, rows |-> {}]]
          /\ answered' = [answered EXCEPT ![s] = applied]
          /\ UNCHANGED <<busVars, watermark, applied>>
      BY <1>4, <2>1 DEF PageOpens
    <3>2. /\ fetch'[s].since = watermark /\ fetch'[s].rows = {} /\ answered'[s] = applied
          /\ \A r \in Sockets \ {s} : fetch'[r] = fetch[r] /\ answered'[r] = answered[r]
      BY <3>1 DEF PageTypeOK
    <3>3. UNCHANGED <<issued, late, table>>
      BY <1>3, <3>1
    <3>4. \A e \in applied : e \in issued /\ CoversIn(late, table, watermark, e)
      BY DEF WatermarkInv, Covers
    <3>5. ASSUME NEW r \in Sockets
          PROVE  /\ fetch'[r].st # "none" =>
                      \A e \in answered'[r] : e \in issued /\ CoversIn(late, table, fetch'[r].since, e)
                 /\ \A w \in fetch'[r].rows : w \in table /\ w.at > fetch'[r].since
      <4>1. CASE r = s
        BY <3>2, <3>4, <4>1
      <4>2. CASE r # s
        BY <3>2, <4>2 DEF WatermarkInv, Covers
      <4> QED
        BY <4>1, <4>2
    <3> QED
      BY <3>1, <3>3, <3>4, <3>5 DEF WatermarkInv, Covers
  <2>2. CASE ~(watermark > 0)
    <3>1. UNCHANGED pageVars
      BY <1>4, <2>2 DEF PageOpens, pageVars
    <3> QED
      BY <1>2, <3>1
  <2> QED
    BY <2>1, <2>2
<1>5. ASSUME UNCHANGED <<busVars, fetch, answered>>, watermark' \in Int, watermark <= watermark',
             \A e \in applied' \ applied : e \in issued /\ Covers(watermark', e)
      PROVE  WatermarkInv'
  <2>1. UNCHANGED <<issued, late, table>>
    BY <1>3, <1>5
  <2>2. \A e \in applied' : e \in issued /\ Covers(watermark', e)
    <3>1. \A e \in applied : e \in issued /\ Covers(watermark, e)
      BY DEF WatermarkInv
    <3> QED
      BY <1>1, <1>5, <3>1, CoversLater
  <2> QED
    BY <1>5, <2>1, <2>2 DEF WatermarkInv, Covers
<1>6. ASSUME NEW s \in Sockets, Message(s) PROVE WatermarkInv'
  <2> DEFINE f == got[s][read[s] + 1]
  <2>1. f \in Frame /\ Stamped(f)
    <3>1. s \in Clients /\ got[s] \in Seq(Frame) /\ read[s] \in Nat /\ read[s] < Len(got[s])
      BY <1>6, FeedAssumption DEF Message, BusTypeOK, PageTypeOK
    <3>2. read[s] + 1 \in 1 .. Len(got[s]) /\ DOMAIN got[s] = 1 .. Len(got[s])
      BY <3>1, LenProperties
    <3> QED
      BY <3>1, <3>2, ElementOfSeq DEF StampInv
  <2>2. f.sec \in Int
    BY <2>1 DEF Frame
  <2>3. /\ watermark' = Later(f.sec) /\ applied' = applied \cup ({f.ev} \cap Events)
        /\ UNCHANGED <<busVars, fetch, answered>>
    BY <1>6 DEF Message
  <2> HIDE DEF f
  <2>4. watermark' \in Int /\ watermark <= watermark' /\ f.sec <= watermark'
    BY <1>1, <2>2, <2>3 DEF Later
  <2>5. ASSUME NEW e \in applied' \ applied PROVE e \in issued /\ Covers(watermark', e)
    <3>1. e = f.ev /\ e # Greeting
      BY <2>3, FrameFacts
    <3>2. e \in issued /\ Covers(f.sec, e)
      BY <2>1, <3>1 DEF Stamped, StampedIn, Covers
    <3> QED
      BY <2>2, <2>4, <3>2, CoversLater
  <2> QED
    BY <1>5, <2>3, <2>4, <2>5
<1>7. ASSUME NEW s \in Sockets, Serve(s) PROVE WatermarkInv'
  <2>1. /\ fetch[s].st = "asked"
        /\ fetch' = [fetch EXCEPT ![s].st = "served",
                                  ![s].rows = {r \in table : r.at > fetch[s].since}]
        /\ UNCHANGED <<busVars, watermark, applied, answered>>
    BY <1>7 DEF Serve
  <2>2. /\ fetch'[s].since = fetch[s].since
        /\ fetch'[s].rows = {r \in table : r.at > fetch[s].since}
        /\ \A r \in Sockets \ {s} : fetch'[r] = fetch[r]
    BY <2>1 DEF PageTypeOK
  <2>3. UNCHANGED <<issued, late, table>>
    BY <1>3, <2>1
  <2>4. ASSUME NEW r \in Sockets
        PROVE  /\ fetch'[r].st # "none" =>
                    \A e \in answered[r] : e \in issued /\ Covers(fetch'[r].since, e)
               /\ \A w \in fetch'[r].rows : w \in table /\ w.at > fetch'[r].since
    <3>1. CASE r = s
      <4>1. \A e \in answered[s] : e \in issued /\ Covers(fetch[s].since, e)
        BY <2>1 DEF WatermarkInv
      <4> QED
        BY <2>2, <3>1, <4>1
    <3>2. CASE r # s
      BY <2>2, <3>2 DEF WatermarkInv
    <3> QED
      BY <3>1, <3>2
  <2> QED
    BY <2>1, <2>3, <2>4 DEF WatermarkInv, Covers
<1>8. ASSUME NEW s \in Sockets, fetch' = [fetch EXCEPT ![s] = NoFetch],
             UNCHANGED <<busVars, answered>>, watermark' \in Int, watermark <= watermark',
             \A e \in applied' \ applied : e \in issued /\ Covers(watermark', e)
      PROVE  WatermarkInv'
  <2>1. UNCHANGED <<issued, late, table>>
    BY <1>3, <1>8
  <2>2. \A e \in applied' : e \in issued /\ Covers(watermark', e)
    <3>1. \A e \in applied : e \in issued /\ Covers(watermark, e)
      BY DEF WatermarkInv
    <3> QED
      BY <1>1, <1>8, <3>1, CoversLater
  <2>3. /\ fetch'[s].st = "none" /\ fetch'[s].rows = {}
        /\ \A r \in Sockets \ {s} : fetch'[r] = fetch[r]
    BY <1>8 DEF PageTypeOK, NoFetch
  <2>4. ASSUME NEW r \in Sockets
        PROVE  /\ fetch'[r].st # "none" =>
                    \A e \in answered[r] : e \in issued /\ Covers(fetch'[r].since, e)
               /\ \A w \in fetch'[r].rows : w \in table /\ w.at > fetch'[r].since
    BY <2>3 DEF WatermarkInv
  <2> QED
    BY <1>8, <2>1, <2>2, <2>4 DEF WatermarkInv, Covers
<1>9. ASSUME NEW s \in Sockets, CatchUp(s) PROVE WatermarkInv'
  <2> DEFINE rows == fetch[s].rows
             seen == {watermark} \cup {r.at : r \in rows}
  <2>1. /\ watermark' \in seen /\ \A at \in seen : at <= watermark'
        /\ applied' = applied \cup ({r.ev : r \in rows} \ {Greeting})
        /\ fetch' = [fetch EXCEPT ![s] = NoFetch]
        /\ UNCHANGED <<busVars, answered>>
    BY <1>9 DEF CatchUp
  <2>2. rows \subseteq table /\ \A r \in table : r.at \in Int
    BY DEF WatermarkInv, BusTypeOK, Row
  <2> HIDE DEF rows
  <2>3. watermark' \in Int /\ watermark <= watermark' /\ \A r \in rows : r.at <= watermark'
    BY <1>1, <2>1, <2>2
  <2>4. ASSUME NEW e \in applied' \ applied PROVE e \in issued /\ Covers(watermark', e)
    <3>1. PICK r \in rows : e = r.ev /\ r.ev # Greeting
      BY <2>1
    <3>2. \A w \in table : w.ev = e => w.at = r.at
      BY <2>2, <3>1 DEF RowInv
    <3>3. e \in issued
      BY <2>2, <3>1 DEF RowInv
    <3> QED
      BY <2>3, <3>2, <3>3 DEF Covers, CoversIn
  <2> QED
    BY <1>8, <2>1, <2>3, <2>4
<1>10. ASSUME NEW s \in Sockets, FetchFails(s) PROVE WatermarkInv'
  <2>1. /\ fetch' = [fetch EXCEPT ![s] = NoFetch]
        /\ UNCHANGED <<busVars, answered, watermark, applied>>
    BY <1>10 DEF FetchFails
  <2>2. watermark' \in Int /\ watermark <= watermark'
    BY <1>1, <2>1
  <2>3. UNCHANGED <<busVars, answered>> /\ applied' \ applied = {}
    BY <2>1
  <2> QED
    BY <1>8, <2>1, <2>2, <2>3
<1> QED
  BY <1>2, <1>4, <1>6, <1>7, <1>9, <1>10
  DEF Next, BusMoves, StreamMoves, PageMoves, ServerSubscribes, ServerSends,
      ServerNotices, vars

\* For any number of events and reconnects and any clock: an event the page had
\* when it asked is not brought back, but for one stored in a later second than
\* it is stamped with.
THEOREM AskedOnceOnly == Spec => []AskedOnce
<1>1. Init => RowInv /\ StampInv /\ WatermarkInv
  <2> SUFFICES ASSUME Init PROVE RowInv /\ StampInv /\ WatermarkInv
    OBVIOUS
  <2>1. /\ DOMAIN handed = {} /\ DOMAIN queue = {} /\ \A s \in Clients : DOMAIN got[s] = {}
        /\ \A p \in Publishers : holding[p] = None
        /\ sending.frame = None /\ None.ev = Greeting
        /\ table = {[ev |-> Greeting, at |-> 1]}
        /\ applied = {} /\ \A s \in Sockets : fetch[s].st = "none" /\ fetch[s].rows = {}
    BY DEF Init, BusInit, None, NoFetch
  <2>2. RowInv
    BY <2>1 DEF RowInv
  <2>3. StampInv
    BY <2>1 DEF StampInv, Stamped, StampedIn
  <2>4. WatermarkInv
    BY <2>1 DEF WatermarkInv
  <2> QED
    BY <2>2, <2>3, <2>4
<1>2. BusTypeOK /\ RowInv /\ [Next]_vars => RowInv'
  BY FeedStepsBus, TableStep
<1>3. BusTypeOK /\ RowInv /\ StampInv /\ [Next]_vars => StampInv'
  BY FeedStepsBus, StampStep
<1>4. BusTypeOK /\ PageTypeOK /\ RowInv /\ StampInv /\ WatermarkInv /\ [Next]_vars => WatermarkInv'
  BY WatermarkStep
<1>5. TypeOK => BusTypeOK /\ PageTypeOK
  BY DEF TypeOK, PageTypeOK
<1>6. BusTypeOK /\ PageTypeOK /\ WatermarkInv => AskedOnce
  <2> SUFFICES ASSUME BusTypeOK, PageTypeOK, WatermarkInv, NEW s \in Sockets,
                      fetch[s].st = "served", NEW r \in fetch[s].rows, r.ev \in answered[s]
               PROVE  r.ev \in late
    BY DEF AskedOnce
  <2>1. r \in table /\ r.at > fetch[s].since /\ Covers(fetch[s].since, r.ev)
    BY DEF WatermarkInv
  <2>2. r.at \in Int /\ fetch[s].since \in Int
    BY <2>1 DEF BusTypeOK, PageTypeOK, Row
  <2> QED
    BY <2>1, <2>2 DEF Covers, CoversIn
<1> QED
  BY <1>1, <1>2, <1>3, <1>4, <1>5, <1>6, FeedTypeCorrect, PTL DEF Spec
================================================================================
