--------------------------- MODULE ModelCallProofs ---------------------------
(***************************************************************************)
(* Theorems about model calls: ModelStream, for any number of attempts, any   *)
(* queue and streams of any length; and Settings, for any number of            *)
(* administrators, providers, models and sessions.                              *)
(***************************************************************************)
EXTENDS ModelStream, Settings, TLAPS

(***************************************************************************)
(* The inductive invariant: types; what a producer has pulled is split over   *)
(* the answer, its queue and its hand; and what the user sees ends with the      *)
(* answer.                                                                        *)
(***************************************************************************)
Kinds      == {"chunk", "done", "transient", "fatal", "none", "notice"}
StreamItem == [kind : Kinds, of : Nat, no : Nat]

StreamTypes ==
  /\ queue \in [Attempts -> Seq(StreamItem)]
  /\ stop \in SUBSET Attempts
  /\ producer \in [Attempts -> {"none", "pulling", "holding", "offering", "over"}]
  /\ hold \in [Attempts -> StreamItem]
  /\ pulled \in [Attempts -> 0 .. MaxChunks]
  /\ afterStop \in [Attempts -> 0 .. 1]
  /\ attempt \in Attempts
  /\ consumer \in {"getting", "backoff", "returned", "raised"}
  /\ aggregate \in Seq(StreamItem)
  /\ shown \in Seq(StreamItem)

\* Chunks of attempt a that its producer has put into the queue.
Given(a) == IF hold[a].kind = "chunk" THEN pulled[a] - 1 ELSE pulled[a]

\* A producer holds something exactly between pulling and putting.
HandInv(a) ==
  /\ Len(queue[a]) <= QueueSize
  /\ producer[a] = "none" <=> attempt < a
  /\ producer[a] = "none" => pulled[a] = 0 /\ queue[a] = <<>>
  /\ producer[a] \in {"none", "pulling", "over"} => hold[a].kind = "none"
  /\ producer[a] \in {"holding", "offering"} =>
       hold[a].kind \in {"chunk", "done", "transient", "fatal"}
  /\ hold[a].kind = "chunk" => pulled[a] > 0 /\ hold[a] = Chunk(a, pulled[a])

\* Chunks of the attempt under way that the queue has in front.
Ahead == Given(attempt) - Len(aggregate)

AnswerInv ==
  /\ Len(aggregate) <= Given(attempt)
  /\ \A i \in 1 .. Len(aggregate) : aggregate[i] = Chunk(attempt, i)
  /\ consumer = "returned" =>
       producer[attempt] = "over" /\ pulled[attempt] = Len(aggregate)

\* Its queue: the chunks that follow the answer's, then the end of the stream, behind
\* which nothing but the end comes.
QueueInv == consumer = "getting" =>
  /\ Ahead <= Len(queue[attempt])
  /\ \A i \in 1 .. Len(queue[attempt]) :
       IF i <= Ahead THEN queue[attempt][i] = Chunk(attempt, Len(aggregate) + i)
       ELSE queue[attempt][i].kind \in {"done", "transient", "fatal"}
  /\ producer[attempt] = "pulling" \/ hold[attempt].kind \in {"chunk", "transient", "fatal"}
       => Len(queue[attempt]) = Ahead
  /\ (\E i \in 1 .. Len(queue[attempt]) : queue[attempt][i].kind = "done")
       => producer[attempt] = "over"

\* A producer that is given up pulls one more chunk at most, and drops it.
StopInv ==
  /\ attempt \in stop <=> consumer # "getting"
  /\ consumer = "backoff" => attempt < MaxAttempts
  /\ \A a \in stop : a <= attempt
  /\ \A a \in Attempts : afterStop[a] # 0 =>
       a \in stop /\ producer[a] \in {"holding", "over"}

\* The user sees the answer behind the last notice.
ShownInv ==
  IF consumer = "backoff"
  THEN Len(shown) > 0 /\ shown[Len(shown)].kind = "notice"
  ELSE LET m == Len(shown) - Len(aggregate) IN
       /\ m >= 0
       /\ \A i \in 1 .. Len(aggregate) : shown[m + i] = aggregate[i]
       /\ m > 0 => shown[m].kind = "notice"

StreamInv ==
  StreamTypes /\ (\A a \in Attempts : HandInv(a)) /\ AnswerInv /\ QueueInv /\ StopInv /\ ShownInv

-----------------------------------------------------------------------------
\* The limits, one by one.
LEMMA Limits ==
  /\ MaxAttempts \in Nat /\ QueueSize \in Nat /\ MaxChunks \in Nat
  /\ MaxAttempts > 0 /\ QueueSize > 0
BY StreamAssumption

\* What is put into a queue, an answer or the screen is an item.
LEMMA Items ==
  /\ \A a \in Attempts, n \in Nat : Chunk(a, n) \in StreamItem /\ Notice(a) \in StreamItem
  /\ \A k \in Kinds : Item(k) \in StreamItem
  /\ Nothing \in StreamItem
BY StreamAssumption DEF Chunk, Notice, Item, Nothing, StreamItem, Attempts, Kinds

LEMMA StreamInitially == StreamInit => StreamInv
<1> SUFFICES ASSUME StreamInit PROVE StreamInv
  OBVIOUS
<1> USE StreamAssumption DEF StreamInit, Nothing, Item, Attempts
<1>1. StreamTypes
  BY DEF StreamTypes, StreamItem, Kinds
<1>2. \A a \in Attempts : HandInv(a)
  BY DEF HandInv
<1>3. AnswerInv /\ QueueInv
  BY DEF AnswerInv, QueueInv, Ahead, Given
<1>4. StopInv /\ ShownInv
  BY DEF StopInv, ShownInv
<1> QED
  BY <1>1, <1>2, <1>3, <1>4 DEF StreamInv

\* A step that leaves the attempt under way alone.
LEMMA OtherAttempt ==
  ASSUME AnswerInv, QueueInv, attempt \in Attempts,
         UNCHANGED <<attempt, consumer, aggregate>>,
         queue'[attempt] = queue[attempt], producer'[attempt] = producer[attempt],
         hold'[attempt] = hold[attempt], pulled'[attempt] = pulled[attempt]
  PROVE  AnswerInv' /\ QueueInv'
<1>1. Given(attempt)' = Given(attempt) /\ Ahead' = Ahead
  BY DEF Given, Ahead
<1> QED
  BY <1>1 DEF AnswerInv, QueueInv, Chunk

\* A producer pulls.
LEMMA PullKeeps ==
  ASSUME StreamInv, NEW b \in Attempts, Pull(b)
  PROVE  StreamInv'
<1>a. /\ StreamTypes /\ (\A a \in Attempts : HandInv(a))
      /\ AnswerInv /\ QueueInv /\ StopInv /\ ShownInv
  BY DEF StreamInv
<1>b. attempt \in Nat /\ b \in Nat /\ pulled[b] \in Nat /\ MaxChunks \in Nat
  <2>1. attempt \in Attempts /\ pulled[b] \in 0 .. MaxChunks
    BY <1>a DEF StreamTypes
  <2> QED
    BY <2>1, Limits DEF Attempts
<1>c. /\ producer[b] = "pulling" /\ producer' = [producer EXCEPT ![b] = "holding"]
      /\ UNCHANGED <<queue, stop, attempt, consumer, aggregate, shown>>
  BY DEF Pull
<1>1. StreamTypes'
  <2>1. CASE pulled[b] < MaxChunks /\ pulled' = [pulled EXCEPT ![b] = @ + 1]
             /\ hold' = [hold EXCEPT ![b] = Chunk(b, pulled'[b])]
             /\ afterStop' = IF b \in stop THEN [afterStop EXCEPT ![b] = @ + 1] ELSE afterStop
    <3>1. pulled'[b] \in 0 .. MaxChunks /\ pulled' \in [Attempts -> 0 .. MaxChunks]
      BY <1>a, <1>b, <2>1 DEF StreamTypes
    <3>2. Chunk(b, pulled'[b]) \in StreamItem
      BY <3>1, <1>b, Items
    <3>3. hold' \in [Attempts -> StreamItem]
      BY <1>a, <2>1, <3>2 DEF StreamTypes
    <3>4. afterStop[b] = 0
      BY <1>a, <1>c DEF StopInv
    <3>5. afterStop' \in [Attempts -> 0 .. 1]
      BY <1>a, <2>1, <3>4 DEF StreamTypes
    <3> QED
      BY <1>a, <1>c, <3>1, <3>3, <3>5 DEF StreamTypes
  <2>2. CASE (\E end \in {"done", "transient", "fatal"} : hold' = [hold EXCEPT ![b] = Item(end)])
             /\ UNCHANGED <<pulled, afterStop>>
    <3>1. hold' \in [Attempts -> StreamItem]
      BY <1>a, <2>2, Items DEF StreamTypes, Kinds
    <3> QED
      BY <1>a, <1>c, <2>2, <3>1 DEF StreamTypes
  <2> QED
    BY <2>1, <2>2 DEF Pull
<1>2. ASSUME NEW a \in Attempts PROVE HandInv(a)'
  <2>1. HandInv(a)
    BY <1>a
  <2>2. CASE a # b
    <3>1. hold'[a] = hold[a] /\ pulled'[a] = pulled[a] /\ producer'[a] = producer[a]
      BY <1>a, <2>2, <1>c DEF Pull, StreamTypes
    <3> QED
      BY <1>c, <2>1, <3>1 DEF HandInv, Chunk
  <2>3. CASE a = b
    <3>1. producer'[b] = "holding" /\ ~ (attempt < b)
      BY <1>a, <1>c, <2>1, <2>3 DEF StreamTypes, HandInv
    <3>2. \/ hold'[b].kind \in {"done", "transient", "fatal"}
          \/ pulled'[b] > 0 /\ hold'[b] = Chunk(b, pulled'[b]) /\ hold'[b].kind = "chunk"
      BY <1>a, <1>b DEF Pull, StreamTypes, Chunk, Item
    <3> QED
      BY <1>c, <2>1, <2>3, <3>1, <3>2 DEF HandInv, Chunk
  <2> QED
    BY <2>2, <2>3
<1>3. AnswerInv' /\ QueueInv'
  <2>1. CASE b # attempt
    <3>1. /\ queue'[attempt] = queue[attempt] /\ producer'[attempt] = producer[attempt]
          /\ hold'[attempt] = hold[attempt] /\ pulled'[attempt] = pulled[attempt]
          /\ attempt \in Attempts
      BY <1>a, <1>c, <2>1 DEF Pull, StreamTypes
    <3> QED
      BY <1>a, <1>c, <3>1, OtherAttempt
  <2>2. CASE b = attempt
    <3>1. hold[b].kind = "none"
      BY <1>a, <1>c DEF HandInv
    <3>2. Given(b)' = Given(b)
      BY <1>a, <1>b, <3>1 DEF Pull, StreamTypes, Given, Chunk, Item
    <3>3. Ahead' = Ahead /\ Len(aggregate)' = Len(aggregate)
      BY <1>c, <2>2, <3>2 DEF Ahead, Given
    <3>4. AnswerInv'
      BY <1>a, <1>c, <2>2, <3>2 DEF AnswerInv, Chunk, StreamTypes, Given
    <3>5. consumer = "getting" => Len(queue[attempt]) = Ahead
      BY <1>a, <1>c, <2>2 DEF QueueInv
    <3>6. consumer = "getting" =>
            \A i \in 1 .. Len(queue[attempt]) : queue[attempt][i] = Chunk(attempt, Len(aggregate) + i)
      BY <1>a, <3>5 DEF QueueInv, StreamTypes
    <3>7. QueueInv'
      BY <1>a, <1>c, <3>3, <3>5, <3>6 DEF QueueInv, Chunk, StreamTypes
    <3> QED
      BY <3>4, <3>7
  <2> QED
    BY <2>1, <2>2
<1>4. StopInv'
  BY <1>a, <1>c DEF Pull, StreamTypes, StopInv
<1>5. ShownInv'
  BY <1>a, <1>c DEF ShownInv
<1> QED
  BY <1>1, <1>2, <1>3, <1>4, <1>5 DEF StreamInv

\* A producer looks at its stop event.
LEMMA LookAtStopKeeps ==
  ASSUME StreamInv, NEW b \in Attempts, LookAtStop(b)
  PROVE  StreamInv'
<1>a. /\ StreamTypes /\ (\A a \in Attempts : HandInv(a))
      /\ AnswerInv /\ QueueInv /\ StopInv /\ ShownInv
  BY DEF StreamInv
<1>b. attempt \in Nat /\ attempt \in Attempts /\ b \in Nat /\ pulled[b] \in Nat
  <2>1. attempt \in Attempts /\ pulled[b] \in 0 .. MaxChunks
    BY <1>a DEF StreamTypes
  <2> QED
    BY <2>1, Limits DEF Attempts
<1>c. /\ producer[b] = "holding"
      /\ UNCHANGED <<queue, stop, pulled, attempt, consumer, aggregate, shown, afterStop>>
  BY DEF LookAtStop
<1>d. \/ /\ b \in stop /\ producer' = [producer EXCEPT ![b] = "over"]
         /\ hold' = [hold EXCEPT ![b] = Nothing]
      \/ /\ b \notin stop /\ producer' = [producer EXCEPT ![b] = "offering"] /\ hold' = hold
  BY DEF LookAtStop
<1>1. StreamTypes'
  BY <1>a, <1>c, <1>d, Items DEF StreamTypes
<1>2. ASSUME NEW a \in Attempts PROVE HandInv(a)'
  <2>1. HandInv(a)
    BY <1>a
  <2>2. CASE a # b
    <3>1. hold'[a] = hold[a] /\ producer'[a] = producer[a]
      BY <1>a, <2>2, <1>d DEF StreamTypes
    <3> QED
      BY <1>c, <2>1, <3>1 DEF HandInv, Chunk
  <2>3. CASE a = b
    <3>1. \/ producer'[b] = "over" /\ hold'[b].kind = "none"
          \/ producer'[b] = "offering" /\ hold'[b] = hold[b]
      BY <1>a, <1>d DEF StreamTypes, Nothing, Item
    <3> QED
      BY <1>c, <2>1, <2>3, <3>1 DEF HandInv, Chunk
  <2> QED
    BY <2>2, <2>3
<1>3. AnswerInv' /\ QueueInv'
  <2>1. CASE b # attempt
    <3>1. /\ producer'[attempt] = producer[attempt] /\ hold'[attempt] = hold[attempt]
          /\ queue'[attempt] = queue[attempt] /\ pulled'[attempt] = pulled[attempt]
      BY <1>b, <1>a, <1>c, <1>d, <2>1 DEF StreamTypes
    <3> QED
      BY <1>a, <1>b, <1>c, <3>1, OtherAttempt
  <2>2. CASE b = attempt /\ b \in stop
    <3>1. producer'[b] = "over" /\ hold'[b].kind = "none" /\ consumer # "getting"
      BY <1>a, <1>d, <2>2 DEF StreamTypes, Nothing, Item, StopInv
    <3>2. Given(b)' = pulled[b] /\ Given(b) <= pulled[b]
      BY <1>b, <1>c, <3>1 DEF Given
    <3>3. consumer' # "getting" /\ consumer # "returned"
      BY <1>a, <1>c, <2>2, <3>1 DEF AnswerInv
    <3>4. Len(aggregate) <= Given(b)' /\ Given(b) \in Int
      BY <1>a, <1>b, <2>2, <3>2 DEF AnswerInv, Given, StreamTypes
    <3> QED
      BY <1>a, <1>c, <2>2, <3>2, <3>3, <3>4 DEF AnswerInv, QueueInv, Given, Chunk
  <2>3. CASE b = attempt /\ b \notin stop
    <3>1. producer'[b] = "offering" /\ hold' = hold
      BY <1>a, <1>d, <2>3 DEF StreamTypes
    <3>2. Given(attempt)' = Given(attempt) /\ Ahead' = Ahead
      BY <1>c, <3>1 DEF Given, Ahead
    <3>3. AnswerInv'
      BY <1>a, <1>c, <2>3, <3>1, <3>2 DEF AnswerInv, Chunk
    <3>4. QueueInv'
      BY <1>a, <1>c, <2>3, <3>1, <3>2 DEF QueueInv, Chunk
    <3> QED
      BY <3>3, <3>4
  <2> QED
    BY <2>1, <2>2, <2>3
<1>4. StopInv'
  <2>1. ASSUME NEW a \in Attempts, afterStop[a] # 0
        PROVE  a \in stop /\ producer'[a] \in {"holding", "over"}
    BY <1>a, <1>d, <2>1 DEF StreamTypes, StopInv
  <2> QED
    BY <1>a, <1>c, <2>1 DEF StopInv
<1>5. ShownInv'
  BY <1>a, <1>c DEF ShownInv
<1> QED
  BY <1>1, <1>2, <1>3, <1>4, <1>5 DEF StreamInv

\* A producer puts what it holds into its queue, or finds the queue full.
LEMMA PutKeeps ==
  ASSUME StreamInv, NEW b \in Attempts, Put(b)
  PROVE  StreamInv'
<1>a. /\ StreamTypes /\ (\A a \in Attempts : HandInv(a))
      /\ AnswerInv /\ QueueInv /\ StopInv /\ ShownInv
  BY DEF StreamInv
<1>b. attempt \in Nat /\ attempt \in Attempts /\ b \in Nat /\ pulled[b] \in Nat
  <2>1. attempt \in Attempts /\ pulled[b] \in 0 .. MaxChunks
    BY <1>a DEF StreamTypes
  <2> QED
    BY <2>1, Limits DEF Attempts
<1>c. /\ producer[b] = "offering"
      /\ UNCHANGED <<stop, pulled, attempt, consumer, aggregate, shown, afterStop>>
  BY DEF Put
<1>d. HandInv(b) /\ hold[b].kind \in {"chunk", "done", "transient", "fatal"}
  BY <1>a, <1>c DEF HandInv
<1>5. ShownInv'
  BY <1>a, <1>c DEF ShownInv
<1>6. ASSUME producer'[b] \in {"pulling", "over", "holding"},
             \E p \in {"pulling", "over", "holding"} : producer' = [producer EXCEPT ![b] = p]
      PROVE  StopInv'
  <2>1. afterStop[b] = 0
    BY <1>a, <1>c DEF StopInv
  <2>2. \A a \in Attempts : a # b => producer'[a] = producer[a]
    BY <1>a, <1>6 DEF StreamTypes
  <2> QED
    BY <1>a, <1>c, <2>1, <2>2 DEF StopInv
<1>7. CASE Len(queue[b]) < QueueSize
  <2>1. queue' = [queue EXCEPT ![b] = Append(queue[b], hold[b])]
    BY <1>7 DEF Put
  <2>2. \/ /\ hold[b].kind = "chunk" /\ producer' = [producer EXCEPT ![b] = "pulling"]
           /\ hold' = [hold EXCEPT ![b] = Nothing]
        \/ /\ hold[b].kind = "done" /\ producer' = [producer EXCEPT ![b] = "over"]
           /\ hold' = [hold EXCEPT ![b] = Nothing]
        \/ /\ hold[b].kind \in {"transient", "fatal"}
           /\ producer' = [producer EXCEPT ![b] = "holding"]
           /\ hold' = [hold EXCEPT ![b] = Item("done")]
    BY <1>7, <1>d DEF Put
  <2>3. /\ queue[b] \in Seq(StreamItem) /\ hold[b] \in StreamItem
        /\ queue'[b] = Append(queue[b], hold[b]) /\ Len(queue'[b]) = Len(queue[b]) + 1
        /\ \A i \in 1 .. Len(queue[b]) : queue'[b][i] = queue[b][i]
        /\ queue'[b][Len(queue[b]) + 1] = hold[b]
    BY <1>a, <2>1 DEF StreamTypes
  <2>4. \/ hold[b].kind = "chunk" /\ producer'[b] = "pulling" /\ hold'[b].kind = "none"
        \/ hold[b].kind = "done" /\ producer'[b] = "over" /\ hold'[b].kind = "none"
        \/ /\ hold[b].kind \in {"transient", "fatal"} /\ producer'[b] = "holding"
           /\ hold'[b].kind = "done"
    BY <1>a, <2>2 DEF StreamTypes, Nothing, Item
  <2>5. StreamTypes'
    <3>1. Append(queue[b], hold[b]) \in Seq(StreamItem)
      BY <2>3
    <3>2. queue' \in [Attempts -> Seq(StreamItem)]
      BY <1>a, <2>1, <3>1 DEF StreamTypes
    <3>3. hold' \in [Attempts -> StreamItem]
      BY <1>a, <2>2, Items DEF StreamTypes, Kinds
    <3>4. producer' \in [Attempts -> {"none", "pulling", "holding", "offering", "over"}]
      BY <1>a, <2>2 DEF StreamTypes
    <3> QED
      BY <1>a, <1>c, <3>2, <3>3, <3>4 DEF StreamTypes
  <2>6. ASSUME NEW a \in Attempts PROVE HandInv(a)'
    <3>1. HandInv(a)
      BY <1>a
    <3>2. CASE a # b
      <4>1. /\ hold'[a] = hold[a] /\ producer'[a] = producer[a] /\ queue'[a] = queue[a]
            /\ pulled'[a] = pulled[a]
        BY <1>a, <1>c, <2>1, <2>2, <3>2 DEF StreamTypes
      <4> QED
        BY <1>c, <3>1, <4>1 DEF HandInv, Chunk
    <3>3. CASE a = b
      <4>1. Len(queue'[b]) <= QueueSize
        BY <1>7, <2>3, Limits
      <4>2. ~ (attempt < b)
        BY <1>c, <1>d DEF HandInv
      <4> QED
        BY <1>c, <2>4, <3>3, <4>1, <4>2 DEF HandInv
    <3> QED
      BY <3>2, <3>3
  <2>7. AnswerInv' /\ QueueInv'
    <3>1. CASE b # attempt
      <4>1. /\ producer'[attempt] = producer[attempt] /\ hold'[attempt] = hold[attempt]
            /\ queue'[attempt] = queue[attempt] /\ pulled'[attempt] = pulled[attempt]
        BY <1>b, <1>a, <1>c, <2>1, <2>2, <3>1 DEF StreamTypes
      <4> QED
        BY <1>a, <1>b, <1>c, <4>1, OtherAttempt
    <3>2. CASE b = attempt
      <4>1. AnswerInv'
        <5>1. Given(b) \in Int /\ Given(b)' \in Int /\ Given(b) <= Given(b)'
          BY <1>b, <1>c, <2>4 DEF Given
        <5>2. consumer # "returned" /\ Len(aggregate) \in Nat
          BY <1>a, <1>c, <3>2 DEF AnswerInv, StreamTypes
        <5> QED
          BY <1>a, <1>c, <3>2, <5>1, <5>2 DEF AnswerInv, Given, Chunk
      <4>2. ASSUME consumer = "getting", hold[b].kind # "done"
            PROVE  /\ Len(queue[b]) = Ahead
                   /\ \A i \in 1 .. Len(queue[b]) : queue[b][i] = Chunk(b, Len(aggregate) + i)
        <5>1. hold[b].kind \in {"chunk", "transient", "fatal"}
          BY <1>d, <4>2
        <5>2. Len(queue[b]) = Ahead /\ Len(queue[b]) \in Nat
          BY <1>a, <2>3, <3>2, <4>2, <5>1 DEF QueueInv
        <5>3. \A i \in 1 .. Len(queue[b]) : i <= Ahead
          BY <5>2
        <5> QED
          BY <1>a, <3>2, <4>2, <5>2, <5>3 DEF QueueInv
      <4>3. CASE consumer # "getting"
        BY <1>c, <4>1, <4>3 DEF QueueInv
      <4>4. CASE consumer = "getting" /\ hold[b].kind = "chunk"
        <5>1. Ahead' = Ahead + 1 /\ Len(aggregate) + Ahead + 1 = pulled[b] /\ Ahead \in Int
              /\ Len(aggregate) \in Nat
          BY <1>a, <1>b, <1>c, <2>4, <3>2, <4>4 DEF Ahead, Given, StreamTypes
        <5>2. hold[b] = Chunk(b, Len(aggregate) + Ahead + 1)
          BY <1>d, <4>4, <5>1 DEF HandInv
        <5>3. Len(queue'[b]) = Ahead' /\ Len(queue[b]) = Ahead
          BY <2>3, <4>2, <4>4, <5>1
        <5>4. \A i \in 1 .. Len(queue'[b]) : queue'[b][i] = Chunk(b, Len(aggregate) + i)
          <6>1. ASSUME NEW i \in 1 .. Len(queue'[b]), i # Len(queue[b]) + 1
                PROVE  queue'[b][i] = Chunk(b, Len(aggregate) + i)
            <7>1. i \in 1 .. Len(queue[b])
              BY <2>3, <6>1
            <7> QED
              BY <2>3, <4>2, <4>4, <7>1
          <6>2. queue'[b][Len(queue[b]) + 1] = Chunk(b, Len(aggregate) + (Len(queue[b]) + 1))
            BY <2>3, <5>1, <5>2, <5>3 DEF Chunk
          <6> QED
            BY <6>1, <6>2, Zenon
        <5>5. \A i \in 1 .. Len(queue'[b]) : queue'[b][i].kind # "done" /\ i <= Ahead'
          <6>1. \A k : Chunk(b, k).kind # "done"
            BY DEF Chunk
          <6>2. \A i \in 1 .. Len(queue'[b]) : i <= Ahead'
            BY <2>3, <5>1, <5>3
          <6> QED
            BY <5>4, <6>1, <6>2, Zenon
        <5>6. attempt' = b /\ aggregate' = aggregate
          BY <1>c, <3>2
        <5>7. \A i \in 1 .. Len(queue'[attempt']) :
                 IF i <= Ahead' THEN queue'[attempt'][i] = Chunk(attempt', Len(aggregate') + i)
                 ELSE queue'[attempt'][i].kind \in {"done", "transient", "fatal"}
          BY <5>4, <5>5, <5>6
        <5>8. ~ \E i \in 1 .. Len(queue'[attempt']) : queue'[attempt'][i].kind = "done"
          BY <5>5, <5>6
        <5>9. Ahead' <= Len(queue'[attempt']) /\ Len(queue'[attempt']) = Ahead'
          BY <5>1, <5>3, <5>6
        <5> QED
          BY <4>1, <5>7, <5>8, <5>9 DEF QueueInv
      <4>5. CASE consumer = "getting" /\ hold[b].kind \in {"done", "transient", "fatal"}
        <5>1. Ahead' = Ahead /\ Ahead \in Int /\ Ahead <= Len(queue[b])
          BY <1>a, <1>b, <1>c, <2>4, <3>2, <4>5 DEF Ahead, Given, StreamTypes, QueueInv
        <5>2. \A i \in 1 .. Len(queue'[b]) :
                IF i <= Ahead THEN queue'[b][i] = Chunk(b, Len(aggregate) + i)
                ELSE queue'[b][i].kind \in {"done", "transient", "fatal"}
          <6>1. ASSUME NEW i \in 1 .. Len(queue'[b]), i # Len(queue[b]) + 1
                PROVE  IF i <= Ahead THEN queue'[b][i] = Chunk(b, Len(aggregate) + i)
                       ELSE queue'[b][i].kind \in {"done", "transient", "fatal"}
            <7>1. i \in 1 .. Len(queue[b])
              BY <2>3, <6>1
            <7> QED
              BY <1>a, <2>3, <3>2, <4>5, <7>1 DEF QueueInv
          <6>2. ~ (Len(queue[b]) + 1 <= Ahead)
            BY <5>1, <2>3
          <6> QED
            BY <2>3, <4>5, <6>1, <6>2
        <5>3. (\E i \in 1 .. Len(queue'[b]) : queue'[b][i].kind = "done") => producer'[b] = "over"
          <6>1. CASE hold[b].kind = "done"
            BY <2>4, <6>1
          <6>2. CASE hold[b].kind \in {"transient", "fatal"}
            <7>1. \A i \in 1 .. Len(queue[b]) : queue[b][i].kind # "done"
              <8>1. \A k : Chunk(b, k).kind # "done"
                BY DEF Chunk
              <8>2. \A i \in 1 .. Len(queue[b]) : queue[b][i] = Chunk(b, Len(aggregate) + i)
                BY <4>2, <4>5, <6>2
              <8> QED
                BY <8>1, <8>2, Zenon
            <7>2. \A i \in 1 .. Len(queue'[b]) : i \in 1 .. Len(queue[b]) \/ i = Len(queue[b]) + 1
              BY <2>3
            <7>3. \A i \in 1 .. Len(queue'[b]) : queue'[b][i].kind # "done"
              BY <2>3, <6>2, <7>1, <7>2
            <7> QED
              BY <7>3
          <6> QED
            BY <4>5, <6>1, <6>2
        <5>4. Ahead' <= Len(queue'[b])
          BY <5>1, <2>3
        <5>5. ~ (producer'[b] = "pulling" \/ hold'[b].kind \in {"chunk", "transient", "fatal"})
          BY <2>4, <4>5
        <5>6. attempt' = b /\ aggregate' = aggregate
          BY <1>c, <3>2
        <5>7. \A i \in 1 .. Len(queue'[attempt']) :
                IF i <= Ahead' THEN queue'[attempt'][i] = Chunk(attempt', Len(aggregate') + i)
                ELSE queue'[attempt'][i].kind \in {"done", "transient", "fatal"}
          BY <5>1, <5>2, <5>6
        <5> QED
          BY <4>1, <5>3, <5>4, <5>5, <5>6, <5>7 DEF QueueInv, Chunk
      <4> QED
        BY <1>d, <4>1, <4>3, <4>4, <4>5
    <3> QED
      BY <3>1, <3>2
  <2>8. StopInv'
    BY <1>6, <1>a, <2>2, <2>4
  <2> QED
    BY <1>5, <2>5, <2>6, <2>7, <2>8 DEF StreamInv
<1>8. CASE ~ (Len(queue[b]) < QueueSize)
  <2>1. producer' = [producer EXCEPT ![b] = "holding"] /\ queue' = queue /\ hold' = hold
    BY <1>8 DEF Put
  <2>2. producer'[b] = "holding" /\ \A a \in Attempts : a # b => producer'[a] = producer[a]
    BY <1>a, <2>1 DEF StreamTypes
  <2>3. StreamTypes'
    BY <1>a, <1>c, <2>1 DEF StreamTypes
  <2>4. \A a \in Attempts : HandInv(a)'
    BY <1>a, <1>c, <1>d, <2>1, <2>2 DEF HandInv, Chunk
  <2>5. Given(attempt)' = Given(attempt) /\ Ahead' = Ahead
    BY <1>c, <2>1 DEF Given, Ahead
  <2>6. AnswerInv'
    BY <1>a, <1>b, <1>c, <2>1, <2>2, <2>5 DEF AnswerInv, Chunk
  <2>7. QueueInv'
    BY <1>a, <1>b, <1>c, <2>1, <2>2, <2>5 DEF QueueInv, Chunk
  <2>8. StopInv'
    BY <1>6, <2>1, <2>2
  <2> QED
    BY <1>5, <2>3, <2>4, <2>6, <2>7, <2>8 DEF StreamInv
<1> QED
  BY <1>7, <1>8

-----------------------------------------------------------------------------
\* What taking the head leaves of a queue.
LEMMA HeadTail ==
  ASSUME NEW S, NEW q \in Seq(S), q # <<>>
  PROVE  /\ Len(q) \in Nat /\ Len(q) > 0 /\ Head(q) = q[1] /\ Head(q) \in S
         /\ Tail(q) \in Seq(S) /\ Len(Tail(q)) = Len(q) - 1
         /\ \A i \in 1 .. Len(q) - 1 : Tail(q)[i] = q[i + 1]
OBVIOUS

\* A consumer that takes the head of its queue disturbs no producer.
LEMMA TakesHead ==
  ASSUME StreamTypes, \A a \in Attempts : HandInv(a), queue[attempt] # <<>>,
         queue' = [queue EXCEPT ![attempt] = Tail(@)],
         UNCHANGED <<producer, hold, pulled, attempt>>
  PROVE  queue' \in [Attempts -> Seq(StreamItem)] /\ \A a \in Attempts : HandInv(a)'
<1>1. /\ queue[attempt] \in Seq(StreamItem) /\ queue \in [Attempts -> Seq(StreamItem)]
      /\ attempt \in Attempts
  BY DEF StreamTypes
<1>2. /\ Tail(queue[attempt]) \in Seq(StreamItem) /\ Len(queue[attempt]) \in Nat
      /\ Len(Tail(queue[attempt])) = Len(queue[attempt]) - 1
  BY <1>1, HeadTail
<1>3. queue' \in [Attempts -> Seq(StreamItem)]
  BY <1>1, <1>2
<1>4. ASSUME NEW a \in Attempts PROVE HandInv(a)'
  <2>1. HandInv(a)
    OBVIOUS
  <2>2. CASE a # attempt
    <3>1. queue'[a] = queue[a]
      BY <1>1, <2>2
    <3> QED
      BY <2>1, <3>1 DEF HandInv, Chunk
  <2>3. CASE a = attempt
    <3>1. queue'[a] = Tail(queue[attempt]) /\ Len(queue'[a]) <= QueueSize
      BY <1>1, <1>2, <2>1, <2>3, Limits DEF HandInv
    <3>2. producer[a] # "none"
      BY <1>1, <2>1, <2>3, Limits DEF HandInv, Attempts
    <3> QED
      BY <2>1, <3>1, <3>2 DEF HandInv, Chunk
  <2> QED
    BY <2>2, <2>3
<1> QED
  BY <1>3, <1>4

\* A chunk joins the answer and the screen.
LEMMA GetChunkKeeps ==
  ASSUME StreamInv, GetChunk
  PROVE  StreamInv'
<1> DEFINE q == queue[attempt]
           n == Len(aggregate)
<1>a. /\ StreamTypes /\ (\A a \in Attempts : HandInv(a))
      /\ AnswerInv /\ QueueInv /\ StopInv /\ ShownInv
  BY DEF StreamInv
<1>b. /\ attempt \in Attempts /\ q \in Seq(StreamItem) /\ aggregate \in Seq(StreamItem)
      /\ shown \in Seq(StreamItem) /\ n \in Nat /\ pulled[attempt] \in 0 .. MaxChunks
  BY <1>a DEF StreamTypes
<1>c. /\ consumer = "getting" /\ q # <<>> /\ Head(q).kind = "chunk"
      /\ aggregate' = Append(aggregate, Head(q)) /\ shown' = Append(shown, Head(q))
      /\ queue' = [queue EXCEPT ![attempt] = Tail(@)]
      /\ UNCHANGED <<stop, producer, hold, pulled, attempt, consumer, afterStop>>
  BY DEF GetChunk
<1>d. /\ Len(q) \in Nat /\ Len(q) > 0 /\ Head(q) = q[1] /\ Head(q) \in StreamItem
      /\ Tail(q) \in Seq(StreamItem) /\ Len(Tail(q)) = Len(q) - 1
      /\ \A i \in 1 .. Len(q) - 1 : Tail(q)[i] = q[i + 1]
  BY <1>b, <1>c, HeadTail
<1>e. Given(attempt) \in Int /\ Ahead \in Int /\ Ahead = Given(attempt) - n
  BY <1>b, Limits DEF Given, Ahead
<1>f. 1 <= Ahead /\ Head(q) = Chunk(attempt, n + 1)
  <2>1. 1 \in 1 .. Len(q)
    BY <1>d
  <2>2. IF 1 <= Ahead THEN q[1] = Chunk(attempt, n + 1)
        ELSE q[1].kind \in {"done", "transient", "fatal"}
    BY <1>a, <1>c, <2>1 DEF QueueInv
  <2> QED
    BY <1>c, <1>d, <2>2
<1>g. /\ Given(attempt)' = Given(attempt) /\ Len(aggregate') = n + 1
      /\ aggregate'[n + 1] = Chunk(attempt, n + 1)
      /\ \A i \in 1 .. n : aggregate'[i] = aggregate[i]
  BY <1>b, <1>c, <1>d, <1>f DEF Given
<1>h. queue'[attempt] = Tail(q) /\ Ahead' = Ahead - 1
  BY <1>a, <1>c, <1>e, <1>g DEF Ahead, StreamTypes
<1>1. StreamTypes' /\ \A a \in Attempts : HandInv(a)'
  <2>1. queue' \in [Attempts -> Seq(StreamItem)] /\ \A a \in Attempts : HandInv(a)'
    BY <1>a, <1>c, TakesHead
  <2>2. aggregate' \in Seq(StreamItem) /\ shown' \in Seq(StreamItem)
    BY <1>b, <1>c, <1>d
  <2> QED
    BY <1>a, <1>c, <2>1, <2>2 DEF StreamTypes
<1>2. AnswerInv'
  <2>1. \A i \in 1 .. n + 1 : aggregate'[i] = Chunk(attempt, i)
    <3>1. \A i \in 1 .. n + 1 : i \in 1 .. n \/ i = n + 1
      BY <1>b
    <3> QED
      BY <1>a, <1>g, <3>1 DEF AnswerInv
  <2>2. n + 1 <= Given(attempt)'
    BY <1>b, <1>e, <1>f, <1>g
  <2> QED
    BY <1>c, <1>g, <2>1, <2>2 DEF AnswerInv, Chunk
<1>3. QueueInv'
  <2>1. Ahead' <= Len(Tail(q))
    BY <1>a, <1>c, <1>d, <1>e, <1>h DEF QueueInv
  <2>2. ASSUME NEW i \in 1 .. Len(Tail(q))
        PROVE  IF i <= Ahead' THEN Tail(q)[i] = Chunk(attempt, n + 1 + i)
               ELSE Tail(q)[i].kind \in {"done", "transient", "fatal"}
    <3>1. i + 1 \in 1 .. Len(q) /\ i \in 1 .. Len(q) - 1 /\ i \in Nat
      BY <1>d
    <3>2. IF i + 1 <= Ahead THEN q[i + 1] = Chunk(attempt, n + (i + 1))
          ELSE q[i + 1].kind \in {"done", "transient", "fatal"}
      BY <1>a, <1>c, <3>1 DEF QueueInv
    <3>3. (i <= Ahead' <=> i + 1 <= Ahead) /\ n + (i + 1) = n + 1 + i
      BY <1>b, <1>e, <1>h, <3>1
    <3> QED
      BY <1>d, <3>1, <3>2, <3>3
  <2>3. producer[attempt] = "pulling" \/ hold[attempt].kind \in {"chunk", "transient", "fatal"}
          => Len(Tail(q)) = Ahead'
    BY <1>a, <1>c, <1>d, <1>e, <1>h DEF QueueInv
  <2>4. ASSUME NEW i \in 1 .. Len(Tail(q)), Tail(q)[i].kind = "done"
        PROVE  producer[attempt] = "over"
    <3>1. i + 1 \in 1 .. Len(q) /\ q[i + 1].kind = "done"
      BY <1>d, <2>4
    <3> QED
      BY <1>a, <1>c, <3>1 DEF QueueInv
  <2> QED
    BY <1>c, <1>g, <1>h, <2>1, <2>2, <2>3, <2>4 DEF QueueInv, Chunk
<1>4. StopInv'
  BY <1>a, <1>c DEF StopInv
<1>5. ShownInv'
  <2> DEFINE m == Len(shown) - n
  <2>1. /\ Len(shown') = Len(shown) + 1 /\ Len(shown) \in Nat
        /\ shown'[Len(shown) + 1] = Head(q)
        /\ \A i \in 1 .. Len(shown) : shown'[i] = shown[i]
    BY <1>b, <1>c, <1>d
  <2>2. Len(shown') - Len(aggregate') = m /\ m \in Int /\ m >= 0
    BY <1>a, <1>b, <1>c, <1>g, <2>1 DEF ShownInv
  <2>3. \A i \in 1 .. n + 1 : shown'[m + i] = aggregate'[i]
    <3>1. ASSUME NEW i \in 1 .. n PROVE shown'[m + i] = aggregate'[i]
      <4>1. m + i \in 1 .. Len(shown) /\ shown[m + i] = aggregate[i]
        BY <1>a, <1>b, <1>c, <2>1, <2>2 DEF ShownInv
      <4> QED
        BY <1>g, <2>1, <4>1
    <3>2. shown'[m + (n + 1)] = aggregate'[n + 1]
      <4>1. m + (n + 1) = Len(shown) + 1
        BY <1>b, <2>1
      <4> QED
        BY <1>f, <1>g, <2>1, <4>1
    <3>3. \A i \in 1 .. n + 1 : i \in 1 .. n \/ i = n + 1
      BY <1>b
    <3> QED
      BY <3>1, <3>2, <3>3
  <2>4. m > 0 => shown'[m].kind = "notice"
    <3>1. m > 0 => m \in 1 .. Len(shown) /\ shown[m].kind = "notice"
      BY <1>a, <1>b, <1>c, <2>1, <2>2 DEF ShownInv
    <3> QED
      BY <2>1, <3>1
  <2> QED
    BY <1>c, <1>g, <2>2, <2>3, <2>4 DEF ShownInv
<1> QED
  BY <1>1, <1>2, <1>3, <1>4, <1>5 DEF StreamInv

\* The consumer leaves its generator, one way or another.
LEMMA LeavingStops ==
  ASSUME StreamTypes, StopInv, Leaves, consumer' \in {"backoff", "returned", "raised"},
         consumer' = "backoff" => attempt < MaxAttempts,
         UNCHANGED <<attempt, producer, afterStop>>
  PROVE  StopInv' /\ stop' \in SUBSET Attempts
<1>1. attempt \in Attempts /\ attempt <= attempt
  BY Limits DEF StreamTypes, Attempts
<1> QED
  BY <1>1 DEF StreamTypes, StopInv, Leaves

\* The stream of the attempt ends: the answer is all that was pulled.
LEMMA GetDoneKeeps ==
  ASSUME StreamInv, GetDone
  PROVE  StreamInv'
<1> DEFINE q == queue[attempt]
<1>a. /\ StreamTypes /\ (\A a \in Attempts : HandInv(a))
      /\ AnswerInv /\ QueueInv /\ StopInv /\ ShownInv
  BY DEF StreamInv
<1>b. /\ attempt \in Attempts /\ q \in Seq(StreamItem) /\ aggregate \in Seq(StreamItem)
      /\ pulled[attempt] \in 0 .. MaxChunks
  BY <1>a DEF StreamTypes
<1>c. /\ consumer = "getting" /\ q # <<>> /\ Head(q).kind = "done"
      /\ consumer' = "returned" /\ Leaves
      /\ queue' = [queue EXCEPT ![attempt] = Tail(@)]
      /\ UNCHANGED <<producer, hold, pulled, attempt, aggregate, shown, afterStop>>
  BY DEF GetDone
<1>d. 1 \in 1 .. Len(q) /\ q[1].kind = "done"
  BY <1>b, <1>c, HeadTail
<1>1. StopInv' /\ stop' \in SUBSET Attempts
  BY <1>a, <1>c, LeavingStops
<1>2. queue' \in [Attempts -> Seq(StreamItem)] /\ \A a \in Attempts : HandInv(a)'
  BY <1>a, <1>c, TakesHead
<1>3. StreamTypes'
  BY <1>a, <1>c, <1>1, <1>2 DEF StreamTypes
<1>4. AnswerInv' /\ QueueInv'
  <2>1. producer[attempt] = "over"
    BY <1>a, <1>c, <1>d DEF QueueInv
  <2>2. Given(attempt) = pulled[attempt]
    BY <1>a, <1>b, <2>1 DEF HandInv, Given
  <2>3. ~ (1 <= Ahead)
    <3>1. 1 <= Ahead => q[1] = Chunk(attempt, Len(aggregate) + 1)
      BY <1>a, <1>c, <1>d DEF QueueInv
    <3> QED
      BY <1>d, <3>1 DEF Chunk
  <2>4. pulled[attempt] = Len(aggregate)
    BY <1>a, <1>b, <2>2, <2>3, Limits DEF AnswerInv, Ahead
  <2> QED
    BY <1>a, <1>c, <2>1, <2>4 DEF AnswerInv, QueueInv, Given, Chunk
<1>5. ShownInv'
  BY <1>a, <1>c DEF ShownInv
<1> QED
  BY <1>1, <1>2, <1>3, <1>4, <1>5 DEF StreamInv

\* What a failed attempt shows and where it leads.
LEMMA FailShows ==
  ASSUME StreamTypes, ShownInv, consumer = "getting", NEW retryable \in BOOLEAN,
         Fail(retryable), UNCHANGED <<attempt, aggregate>>
  PROVE  /\ ShownInv' /\ shown' \in Seq(StreamItem)
         /\ consumer' \in {"backoff", "raised"}
         /\ consumer' = "backoff" => attempt < MaxAttempts
<1>1. shown \in Seq(StreamItem) /\ attempt \in Attempts
  BY DEF StreamTypes
<1>2. Notice(attempt) \in StreamItem /\ Notice(attempt).kind = "notice"
  BY <1>1, Items, Limits DEF Notice
<1>3. CASE retryable /\ attempt < MaxAttempts
  <2>1. consumer' = "backoff" /\ shown' = Append(shown, Notice(attempt))
    BY <1>3 DEF Fail
  <2>2. /\ shown' \in Seq(StreamItem) /\ Len(shown') = Len(shown) + 1 /\ Len(shown) \in Nat
        /\ shown'[Len(shown) + 1] = Notice(attempt)
    BY <1>1, <1>2, <2>1
  <2> QED
    BY <1>2, <1>3, <2>1, <2>2 DEF ShownInv
<1>4. CASE ~ (retryable /\ attempt < MaxAttempts)
  <2>1. consumer' = "raised" /\ shown' = shown
    BY <1>4 DEF Fail
  <2> QED
    BY <1>1, <2>1 DEF ShownInv
<1> QED
  BY <1>3, <1>4

\* An attempt that is given up leaves the answer as it is.
LEMMA GivingUp ==
  ASSUME AnswerInv, consumer' \in {"backoff", "raised"},
         UNCHANGED <<producer, hold, pulled, attempt, aggregate>>
  PROVE  AnswerInv' /\ QueueInv'
BY DEF AnswerInv, QueueInv, Given, Chunk

\* The attempt fails: its stream raises, or nothing arrives in time.
LEMMA GetErrorKeeps ==
  ASSUME StreamInv, GetError
  PROVE  StreamInv'
<1>a. /\ StreamTypes /\ (\A a \in Attempts : HandInv(a))
      /\ AnswerInv /\ QueueInv /\ StopInv /\ ShownInv
  BY DEF StreamInv
<1>c. /\ consumer = "getting" /\ queue[attempt] # <<>>
      /\ Fail(Head(queue[attempt]).kind = "transient") /\ Leaves
      /\ queue' = [queue EXCEPT ![attempt] = Tail(@)]
      /\ UNCHANGED <<producer, hold, pulled, attempt, aggregate, afterStop>>
  BY DEF GetError
<1>d. /\ ShownInv' /\ shown' \in Seq(StreamItem) /\ consumer' \in {"backoff", "raised"}
      /\ consumer' = "backoff" => attempt < MaxAttempts
  BY <1>a, <1>c, FailShows
<1>1. StopInv' /\ stop' \in SUBSET Attempts
  BY <1>a, <1>c, <1>d, LeavingStops
<1>2. queue' \in [Attempts -> Seq(StreamItem)] /\ \A a \in Attempts : HandInv(a)'
  BY <1>a, <1>c, TakesHead
<1>3. StreamTypes'
  BY <1>a, <1>c, <1>d, <1>1, <1>2 DEF StreamTypes
<1>4. AnswerInv' /\ QueueInv'
  BY <1>a, <1>c, <1>d, GivingUp
<1> QED
  BY <1>d, <1>1, <1>2, <1>3, <1>4 DEF StreamInv

LEMMA IdleTimeoutKeeps ==
  ASSUME StreamInv, IdleTimeout
  PROVE  StreamInv'
<1>a. /\ StreamTypes /\ (\A a \in Attempts : HandInv(a))
      /\ AnswerInv /\ QueueInv /\ StopInv /\ ShownInv
  BY DEF StreamInv
<1>c. /\ consumer = "getting" /\ Fail(TRUE) /\ Leaves
      /\ UNCHANGED <<queue, producer, hold, pulled, attempt, aggregate, afterStop>>
  BY DEF IdleTimeout
<1>d. /\ ShownInv' /\ shown' \in Seq(StreamItem) /\ consumer' \in {"backoff", "raised"}
      /\ consumer' = "backoff" => attempt < MaxAttempts
  BY <1>a, <1>c, FailShows
<1>1. StopInv' /\ stop' \in SUBSET Attempts
  BY <1>a, <1>c, <1>d, LeavingStops
<1>2. \A a \in Attempts : HandInv(a)'
  BY <1>a, <1>c DEF HandInv, Chunk
<1>3. StreamTypes'
  BY <1>a, <1>c, <1>d, <1>1 DEF StreamTypes
<1>4. AnswerInv' /\ QueueInv'
  BY <1>a, <1>c, <1>d, GivingUp
<1> QED
  BY <1>d, <1>1, <1>2, <1>3, <1>4 DEF StreamInv

\* The next attempt starts from nothing.
LEMMA RetryKeeps ==
  ASSUME StreamInv, Retry
  PROVE  StreamInv'
<1> DEFINE b == attempt + 1
<1>a. /\ StreamTypes /\ (\A a \in Attempts : HandInv(a))
      /\ AnswerInv /\ QueueInv /\ StopInv /\ ShownInv
  BY DEF StreamInv
<1>c. /\ consumer = "backoff" /\ attempt' = b /\ consumer' = "getting" /\ aggregate' = <<>>
      /\ producer' = [producer EXCEPT ![b] = "pulling"]
      /\ UNCHANGED <<queue, stop, hold, pulled, shown, afterStop>>
  BY DEF Retry
<1>d. attempt \in Nat /\ b \in Attempts /\ b \in Nat /\ attempt < b
  <2>1. attempt \in Attempts /\ attempt < MaxAttempts
    BY <1>a, <1>c DEF StreamTypes, StopInv
  <2> QED
    BY <2>1, Limits DEF Attempts
<1>e. producer[b] = "none" /\ pulled[b] = 0 /\ queue[b] = <<>> /\ hold[b].kind = "none"
  BY <1>a, <1>d DEF HandInv
<1>f. producer'[b] = "pulling" /\ \A a \in Attempts : a # b => producer'[a] = producer[a]
  BY <1>a, <1>c, <1>d DEF StreamTypes
<1>g. Len(aggregate') = 0 /\ hold'[attempt'].kind # "chunk" /\ pulled'[attempt'] = 0
  BY <1>c, <1>e
<1>h. Given(attempt)' = 0 /\ Ahead' = 0
  BY <1>g DEF Given, Ahead
<1>1. StreamTypes'
  <2>1. producer' \in [Attempts -> {"none", "pulling", "holding", "offering", "over"}]
    BY <1>a, <1>c DEF StreamTypes
  <2> QED
    BY <1>a, <1>c, <1>d, <2>1 DEF StreamTypes
<1>2. ASSUME NEW a \in Attempts PROVE HandInv(a)'
  <2>1. HandInv(a) /\ a \in Nat
    BY <1>a, Limits DEF Attempts
  <2>2. CASE a = b
    BY <1>c, <1>d, <1>e, <1>f, <2>1, <2>2 DEF HandInv
  <2>3. CASE a # b
    <3>1. attempt < a <=> attempt' < a
      BY <1>c, <1>d, <2>1, <2>3
    <3> QED
      BY <1>c, <1>f, <2>1, <2>3, <3>1 DEF HandInv, Chunk
  <2> QED
    BY <2>2, <2>3
<1>3. AnswerInv'
  <2>1. consumer' # "returned" /\ 1 .. Len(aggregate') = {}
    BY <1>c, <1>g
  <2> QED
    BY <1>g, <1>h, <2>1 DEF AnswerInv
<1>4. QueueInv'
  <2>1. queue'[attempt'] = <<>> /\ Len(queue'[attempt']) = 0
    BY <1>c, <1>e
  <2> QED
    BY <1>h, <2>1 DEF QueueInv
<1>5. StopInv'
  <2>1. b \notin stop
    BY <1>a, <1>d DEF StopInv
  <2>2. \A a \in stop : a <= b /\ a \in Attempts
    BY <1>a, <1>d, Limits DEF StopInv, StreamTypes, Attempts
  <2>3. ASSUME NEW a \in Attempts, afterStop[a] # 0
        PROVE  a \in stop /\ producer'[a] \in {"holding", "over"}
    <3>1. a \in stop /\ producer[a] \in {"holding", "over"}
      BY <1>a, <2>3 DEF StopInv
    <3> QED
      BY <1>f, <2>1, <3>1
  <2> QED
    BY <1>c, <2>1, <2>2, <2>3 DEF StopInv
<1>6. ShownInv'
  <2>1. Len(shown) \in Nat
    BY <1>a DEF StreamTypes
  <2> QED
    BY <1>a, <1>c, <1>g, <2>1 DEF ShownInv
<1> QED
  BY <1>1, <1>2, <1>3, <1>4, <1>5, <1>6 DEF StreamInv

-----------------------------------------------------------------------------
\* The invariant holds of every behaviour.
THEOREM StreamInvariant == StreamSpec => []StreamInv
<1>1. ASSUME StreamInv, [StreamNext]_streamVars
      PROVE  StreamInv'
  <2>1. CASE \E a \in Attempts : Pull(a) \/ LookAtStop(a) \/ Put(a)
    BY <1>1, <2>1, PullKeeps, LookAtStopKeeps, PutKeeps
  <2>2. CASE GetChunk
    BY <1>1, <2>2, GetChunkKeeps
  <2>3. CASE GetDone
    BY <1>1, <2>3, GetDoneKeeps
  <2>4. CASE GetError
    BY <1>1, <2>4, GetErrorKeeps
  <2>5. CASE IdleTimeout
    BY <1>1, <2>5, IdleTimeoutKeeps
  <2>6. CASE Retry
    BY <1>1, <2>6, RetryKeeps
  <2>7. CASE UNCHANGED streamVars
    BY <1>1, <2>7 DEF streamVars, StreamInv, StreamTypes, HandInv, AnswerInv, QueueInv, StopInv,
                      ShownInv, Ahead, Given, Chunk
  <2> QED
    BY <1>1, <2>1, <2>2, <2>3, <2>4, <2>5, <2>6, <2>7 DEF StreamNext
<1> QED
  BY <1>1, StreamInitially, PTL DEF StreamSpec

\* The answer of a model call is one attempt's stream from its first chunk and without a
\* gap, whole when the call returns; the user sees it behind the notice of the attempt
\* that failed before; and no producer pulls more than one chunk once it is given up.
THEOREM AnswerIsOneAttemptHolds == StreamSpec => []AnswerIsOneAttempt
<1>1. ASSUME StreamInv PROVE AnswerIsOneAttempt
  <2> DEFINE n == Len(aggregate)
             m == Len(shown) - n
  <2>a. StreamTypes /\ AnswerInv /\ StopInv /\ ShownInv
    BY <1>1 DEF StreamInv
  <2>b. /\ aggregate \in Seq(StreamItem) /\ shown \in Seq(StreamItem) /\ n \in Nat
        /\ Len(shown) \in Nat /\ afterStop \in [Attempts -> 0 .. 1]
    BY <2>a DEF StreamTypes
  <2>1. aggregate = Chunks(attempt, n)
    <3>1. aggregate = [i \in 1 .. n |-> aggregate[i]]
      BY <2>b
    <3>2. \A i \in 1 .. n : aggregate[i] = Chunk(attempt, i)
      BY <2>a DEF AnswerInv
    <3> QED
      BY <3>1, <3>2 DEF Chunks
  <2>2. consumer = "returned" => n = pulled[attempt]
    BY <2>a DEF AnswerInv
  <2>3. ASSUME consumer # "backoff"
        PROVE  /\ Len(shown) >= n
               /\ SubSeq(shown, m + 1, Len(shown)) = aggregate
               /\ Len(shown) > n => shown[m].kind = "notice"
    <3>1. /\ m >= 0 /\ (\A i \in 1 .. n : shown[m + i] = aggregate[i])
          /\ m > 0 => shown[m].kind = "notice"
      BY <2>a, <2>3 DEF ShownInv
    <3>2. SubSeq(shown, m + 1, Len(shown)) = aggregate
      <4>1. /\ SubSeq(shown, m + 1, Len(shown)) \in Seq(StreamItem)
            /\ Len(SubSeq(shown, m + 1, Len(shown))) = n
            /\ \A i \in 1 .. n : SubSeq(shown, m + 1, Len(shown))[i] = shown[m + i]
        BY <2>b, <3>1
      <4> QED
        BY <2>b, <3>1, <4>1
    <3> QED
      BY <2>b, <3>1, <3>2
  <2>4. \A a \in Attempts : afterStop[a] <= 1
    BY <2>b
  <2> QED
    BY <2>1, <2>2, <2>3, <2>4 DEF AnswerIsOneAttempt
<1> QED
  BY <1>1, StreamInvariant, PTL

\* The types of queues, producers and consumer, and that an attempt has a producer
\* exactly once it has begun.
THEOREM StreamTypesHold == StreamSpec => []StreamTypeOK
<1>1. ASSUME StreamInv PROVE StreamTypeOK
  <2>1. StreamTypes /\ \A a \in Attempts : HandInv(a)
    BY <1>1 DEF StreamInv
  <2>2. ASSUME NEW a \in Attempts PROVE producer[a] # "none" <=> a <= attempt
    <3>1. a \in Nat /\ attempt \in Nat
      BY <2>1, Limits DEF StreamTypes, Attempts
    <3> QED
      BY <2>1, <3>1 DEF HandInv
  <2>3. \A a \in Attempts : Len(queue[a]) <= QueueSize
    BY <2>1 DEF HandInv
  <2> QED
    BY <2>1, <2>2, <2>3 DEF StreamTypeOK, StreamTypes
<1> QED
  BY <1>1, StreamInvariant, PTL

-----------------------------------------------------------------------------
(***************************************************************************)
(* The choice.  Of the requests that write the same settings, at most one has  *)
(* been alone all the time; as long as settings are not torn, their writer is  *)
(* that one, and each step of it is accounted for.                              *)
(***************************************************************************)
SwapSteps  == {"provider", "model", "globals", "counters"}
KeySteps   == {"key", "url"}
Objects    == [at : {"idle", "done", "invalidate"} \cup SwapSteps \cup KeySteps,
               scope : ({"active"} \X Providers) \cup (Providers \X Providers) \cup {Unset},
               model : Models \cup {Unset}, alone : BOOLEAN]
Builds     ==
  {b \in [at : {"none", "provider", "model", "key", "url", "client"},
          want : (Providers \cup {Unset}) \X (Models \cup {Unset}), own : BOOLEAN,
          provider : Providers \cup {Unset}, model : Models \cup {Unset},
          key : Requests \cup {Unset}, url : Requests \cup {Unset},
          disturbed : BOOLEAN, failed : BOOLEAN] :
     b.at \in {"model", "key", "url", "client"} => b.provider \in Providers}

ChoiceTypes ==
  /\ active \in (Providers \cup {Unset}) \X (Models \cup {Unset})
  /\ globals \in Providers \X Models /\ chosen \in Providers \X Models
  /\ keys \in [Providers -> Requests \cup {Unset}] /\ urls \in [Providers -> Requests \cup {Unset}]
  /\ request \in [Requests -> Objects] /\ torn \subseteq Providers \cup {"active"}
  /\ build \in Builds

\* What a request writes for.
ScopeInv ==
  \A r \in Requests :
    /\ request[r].at \in SwapSteps =>
         request[r].scope \in {"active"} \X Providers /\ request[r].model \in Models
    /\ request[r].at \in KeySteps => request[r].scope \in Providers \X Providers
    /\ request[r].at \in KeySteps => request[r].scope[1] = request[r].scope[2]

\* Who is alone is the only one; who is not works on torn settings.
AloneInv ==
  \A r \in Requests : Writing(r) =>
    IF request[r].alone THEN \A x \in Requests : Writing(x) /\ request[x].scope[1] = request[r].scope[1] => x = r
    ELSE request[r].scope[1] \in torn

Chosen(r) == <<request[r].scope[2], request[r].model>>
Settled ==
  /\ <<ReadProvider, ReadModel(ReadProvider)>> = chosen
  /\ active # <<Unset, Unset>> => active = globals /\ active = chosen

\* Each step of a swap that nobody disturbs.
SwapInv ==
  /\ "active" \notin torn => Settled \/ \E r \in Requests : request[r].at \in SwapSteps
  /\ \A r \in Requests : request[r].at \in SwapSteps /\ request[r].alone =>
       /\ request[r].at = "model" => active[1] = request[r].scope[2]
       /\ request[r].at \in {"globals", "counters"} => active = Chosen(r)
       /\ request[r].at = "counters" => globals = Chosen(r)

\* Each step of saving credentials.
KeyInv ==
  /\ \A p \in Providers :
       p \notin torn => keys[p] = urls[p] \/ \E r \in Requests : request[r].at = "url" /\ request[r].scope[1] = p
  /\ \A r \in Requests :
       request[r].at = "url" /\ request[r].alone => keys[request[r].scope[2]] = r

\* A client that nothing disturbs is built from what holds all the time: what a sub-agent
\* took from the globals still stands there, and what was read is still in the rows.
Took(want) == want = <<Unset, Unset>> \/ want = <<Unset, globals[2]>>

BuildRead ==
  /\ build.at \in {"model", "key", "url", "client"} => build.provider = ReadProvider
  /\ build.at \in {"key", "url", "client"} => build.model = ReadModel(build.provider)
  /\ build.at \in {"url", "client"} => build.key = keys[build.provider]
  /\ build.at = "client" => build.url = urls[build.provider]

BuildInv ==
  build.at # "none" /\ ~build.disturbed =>
    /\ torn = {} /\ \A r \in Requests : ~Writing(r)
    /\ ~build.own => Took(build.want)
    /\ ~build.failed => BuildRead

ChoiceInv == ChoiceTypes /\ ScopeInv /\ AloneInv /\ SwapInv /\ KeyInv /\ BuildInv

\* Prices and counters.
PriceTypes ==
  /\ price \in [Models -> Requests \cup {Unset}] /\ cached \in [Models -> Requests \cup {Unset, Unread}]
  /\ lookup \in [at : {"none", "read"}, model : Models \cup {Unset}, found : Requests \cup {Unset},
                 late : BOOLEAN]
  /\ lookup.at = "read" => lookup.model \in Models
LookupInv == lookup.at = "read" /\ ~lookup.late => lookup.found = price[lookup.model]

Uses == [on : BOOLEAN, before : Nat, used : Nat, shown : Nat, swapped : BOOLEAN, others : Nat,
         stray : {"none", "works", "late"}, made : Nat]

\* No more calls than the bound.
Modest(u) == u.used + u.others <= u.made /\ u.made <= MaxUses

\* What a counter has gained, or a summary shows, is the turn's own calls and at most those
\* of workers left behind.
Within(u, gain) == u.used <= gain /\ gain <= u.used + u.others

UsageTypes ==
  /\ counter \in [Chats -> [model : Models, tokens : Nat] \cup {Unset}]
  /\ turn \in [Chats -> Uses] /\ \A t \in Chats : Modest(turn[t])
UsedInv ==
  \A t \in Chats : turn[t].on /\ ~turn[t].swapped =>
    counter[t] # Unset /\ Within(turn[t], counter[t].tokens - turn[t].before)

BillInv == PriceTypes /\ LookupInv /\ PriceFresh /\ UsageTypes /\ UsedInv /\ CountersBillModel

Steppings == {"idle", "done", "invalidate"} \cup SwapSteps \cup KeySteps

LEMMA StepsIs ==
  ASSUME ChoiceTypes, NEW r \in Requests, NEW step \in Steppings, Steps(r, step)
  PROVE  /\ request' \in [Requests -> Objects] /\ request'[r].at = step
         /\ request'[r].scope = request[r].scope /\ request'[r].model = request[r].model
         /\ request'[r].alone = request[r].alone
         /\ \A x \in Requests \ {r} : request'[x] = request[x]
<1>1. request[r] \in Objects /\ request' = [request EXCEPT ![r] = [request[r] EXCEPT !.at = step]]
  BY DEF ChoiceTypes, Steps
<1> DEFINE new == [request[r] EXCEPT !.at = step]
<1>2. /\ new \in Objects /\ new.at = step /\ new.scope = request[r].scope
      /\ new.model = request[r].model /\ new.alone = request[r].alone
  BY <1>1 DEF Objects, Steppings
<1>3. request' = [request EXCEPT ![r] = new]
  BY <1>1
<1> HIDE DEF new
<1> QED
  BY <1>2, <1>3 DEF ChoiceTypes

Scopes == ({"active"} \X Providers) \cup (Providers \X Providers)

LEMMA OpensIs ==
  ASSUME ChoiceTypes, NEW r \in Requests, NEW step \in {"provider", "key"}, NEW scope \in Scopes,
         NEW m \in Models \cup {Unset}, Opens(r, step, scope, m)
  PROVE  /\ request' \in [Requests -> Objects] /\ request[r].at = "idle"
         /\ request'[r].at = step /\ request'[r].scope = scope /\ request'[r].model = m
         /\ (request'[r].alone <=> InScope(scope) = {})
         /\ \A x \in Requests \ {r} :
              /\ request'[x].at = request[x].at /\ request'[x].scope = request[x].scope
              /\ request'[x].model = request[x].model
              /\ (request'[x].alone <=> request[x].alone /\ x \notin InScope(scope))
         /\ torn' = IF InScope(scope) = {} THEN torn ELSE torn \cup {scope[1]}
         /\ build' \in Builds /\ build'.disturbed
<1> DEFINE new == [at |-> step, scope |-> scope, model |-> m, alone |-> InScope(scope) = {}]
           other(x) == IF x \in InScope(scope) THEN [request[x] EXCEPT !.alone = FALSE] ELSE request[x]
<1>1. /\ request[r] = Asleep /\ request' = [x \in Requests |-> IF x = r THEN new ELSE other(x)]
      /\ torn' = IF InScope(scope) = {} THEN torn ELSE torn \cup {scope[1]}
      /\ build' = [build EXCEPT !.disturbed = TRUE]
  BY DEF Opens
<1>2. new \in Objects /\ new.at = step /\ new.scope = scope /\ new.model = m
      /\ (new.alone <=> InScope(scope) = {})
  BY DEF Objects, Scopes, SwapSteps, KeySteps
<1>3. ASSUME NEW x \in Requests
      PROVE  /\ other(x) \in Objects /\ other(x).at = request[x].at
             /\ other(x).scope = request[x].scope /\ other(x).model = request[x].model
             /\ (other(x).alone <=> request[x].alone /\ x \notin InScope(scope))
  <2>1. request[x] \in Objects
    BY DEF ChoiceTypes
  <2> QED
    BY <2>1 DEF Objects
<1>4. build' \in Builds /\ build'.disturbed
  BY <1>1 DEF ChoiceTypes, Builds
<1>5. request[r].at = "idle"
  BY <1>1 DEF Asleep
<1> HIDE DEF new, other
<1>6. request'[r] = new /\ \A x \in Requests \ {r} : request'[x] = other(x)
  BY <1>1
<1>7. request' \in [Requests -> Objects]
  BY <1>1, <1>2, <1>3
<1> QED
  BY <1>1, <1>2, <1>3, <1>4, <1>5, <1>6, <1>7

\* Nothing that writes the choice or credentials goes on.
Quiet(x) == request'[x] = request[x] \/ (~Writing(x) /\ request'[x].at \notin SwapSteps \cup KeySteps)

LEMMA QuietKeeps ==
  ASSUME ChoiceInv, UNCHANGED choiceVars, request' \in [Requests -> Objects], build' \in Builds,
         \A x \in Requests : Quiet(x),
         UNCHANGED build \/ BuildInv'
  PROVE  ChoiceInv'
<1>1. \A x \in Requests : Writing(x)' <=> Writing(x)
  BY DEF Quiet, Writing, SwapSteps, KeySteps
<1>2. \A x \in Requests : Writing(x) => request'[x] = request[x]
  BY DEF Quiet
<1>3. ChoiceTypes'
  BY DEF ChoiceInv, ChoiceTypes, choiceVars
<1>4. ScopeInv'
  BY <1>1, <1>2 DEF ChoiceInv, ScopeInv, Writing, SwapSteps, KeySteps
<1>5. AloneInv'
  BY <1>1, <1>2 DEF ChoiceInv, AloneInv, choiceVars
<1>6. SwapInv'
  BY <1>1, <1>2 DEF ChoiceInv, SwapInv, Writing, SwapSteps, KeySteps, Settled, ReadProvider, ReadModel,
     Chosen, choiceVars
<1>7. KeyInv'
  BY <1>1, <1>2 DEF ChoiceInv, KeyInv, Writing, SwapSteps, KeySteps, choiceVars
<1>8. BuildInv'
  BY <1>1 DEF ChoiceInv, BuildInv, BuildRead, Took, ReadProvider, ReadModel, choiceVars
<1> QED
  BY <1>3, <1>4, <1>5, <1>6, <1>7, <1>8 DEF ChoiceInv


\* A request begins: settings it writes beside another are torn.
LEMMA OpeningKeeps ==
  ASSUME ChoiceInv, NEW r \in Requests, NEW step \in {"provider", "key"}, NEW scope \in Scopes,
         NEW m \in Models \cup {Unset}, Opens(r, step, scope, m),
         step = "provider" => scope \in {"active"} \X Providers /\ m \in Models,
         step = "key" => scope \in Providers \X Providers /\ scope[1] = scope[2],
         UNCHANGED <<active, keys, urls, globals, chosen>>
  PROVE  ChoiceInv'
<1>0. ChoiceTypes
  BY DEF ChoiceInv
<1>1. /\ request' \in [Requests -> Objects] /\ request[r].at = "idle"
      /\ request'[r].at = step /\ request'[r].scope = scope /\ request'[r].model = m
      /\ (request'[r].alone <=> InScope(scope) = {})
      /\ \A x \in Requests \ {r} :
           /\ request'[x].at = request[x].at /\ request'[x].scope = request[x].scope
           /\ request'[x].model = request[x].model
           /\ (request'[x].alone <=> request[x].alone /\ x \notin InScope(scope))
      /\ torn' = IF InScope(scope) = {} THEN torn ELSE torn \cup {scope[1]}
      /\ build' \in Builds /\ build'.disturbed
  BY <1>0, OpensIs
<1>2. scope[1] \in Providers \cup {"active"}
  BY DEF Scopes
<1>3. \A x \in Requests : x \in InScope(scope) <=> Writing(x) /\ request[x].scope[1] = scope[1]
  BY DEF InScope
<1>4. torn \subseteq torn' /\ torn' \subseteq Providers \cup {"active"}
  BY <1>0, <1>1, <1>2 DEF ChoiceTypes
<1>5. ChoiceTypes'
  BY <1>0, <1>1, <1>4 DEF ChoiceTypes
<1>6. ScopeInv'
  BY <1>1 DEF ChoiceInv, ScopeInv, SwapSteps, KeySteps
<1>7. /\ Writing(r)' /\ \A x \in Requests \ {r} : Writing(x)' <=> Writing(x)
      /\ ~Writing(r)
  BY <1>1 DEF Writing
<1>8. AloneInv'
  <2>1. ASSUME NEW x \in Requests, Writing(x)', request'[x].alone, NEW y \in Requests, Writing(y)',
               request'[y].scope[1] = request'[x].scope[1]
        PROVE  y = x
    <3>1. CASE x = r
      BY <1>1, <1>3, <1>7, <2>1, <3>1
    <3>2. CASE x # r /\ y = r
      BY <1>1, <1>3, <1>7, <2>1, <3>2
    <3>3. CASE x # r /\ y # r
      BY <1>1, <1>7, <2>1, <3>3 DEF ChoiceInv, AloneInv
    <3> QED
      BY <3>1, <3>2, <3>3
  <2>2. ASSUME NEW x \in Requests, Writing(x)', ~request'[x].alone
        PROVE  request'[x].scope[1] \in torn'
    <3>1. CASE x = r
      BY <1>1, <2>2, <3>1
    <3>2. CASE x # r /\ request[x].alone
      BY <1>1, <1>3, <2>2, <3>2
    <3>3. CASE x # r /\ ~request[x].alone
      BY <1>1, <1>4, <1>7, <2>2, <3>3 DEF ChoiceInv, AloneInv
    <3> QED
      BY <3>1, <3>2, <3>3
  <2>3. ASSUME NEW x \in Requests, Writing(x)'
        PROVE  (IF request[x].alone
                THEN \A y \in Requests : Writing(y) /\ request[y].scope[1] = request[x].scope[1] => y = x
                ELSE request[x].scope[1] \in torn)'
    BY <2>1, <2>2, <2>3
  <2> QED
    BY <2>3 DEF AloneInv
<1>9. SwapInv'
  <2>1. Settled' <=> Settled
    BY DEF Settled, ReadProvider, ReadModel
  <2>2. "active" \notin torn' => Settled' \/ \E x \in Requests : request'[x].at \in SwapSteps
    <3>1. \A x \in Requests : request[x].at \in SwapSteps => request'[x].at \in SwapSteps
      BY <1>1 DEF SwapSteps
    <3> QED
      BY <1>4, <2>1, <3>1 DEF ChoiceInv, SwapInv
  <2>3. ASSUME NEW x \in Requests, request'[x].at \in SwapSteps, request'[x].alone
        PROVE  /\ request'[x].at = "model" => active'[1] = request'[x].scope[2]
               /\ request'[x].at \in {"globals", "counters"} => active' = <<request'[x].scope[2], request'[x].model>>
               /\ request'[x].at = "counters" => globals' = <<request'[x].scope[2], request'[x].model>>
    <3>1. CASE x = r
      BY <1>1, <3>1
    <3>2. CASE x # r
      <4>1. request[x].at \in SwapSteps /\ request[x].alone
        BY <1>1, <2>3, <3>2
      <4>2. /\ request[x].at = "model" => active[1] = request[x].scope[2]
            /\ request[x].at \in {"globals", "counters"} => active = <<request[x].scope[2], request[x].model>>
            /\ request[x].at = "counters" => globals = <<request[x].scope[2], request[x].model>>
        BY <4>1 DEF ChoiceInv, SwapInv, Chosen
      <4> QED
        BY <1>1, <3>2, <4>2
    <3> QED
      BY <3>1, <3>2
  <2>4. ASSUME NEW x \in Requests
        PROVE  (request[x].at \in SwapSteps /\ request[x].alone =>
                 /\ request[x].at = "model" => active[1] = request[x].scope[2]
                 /\ request[x].at \in {"globals", "counters"} => active = Chosen(x)
                 /\ request[x].at = "counters" => globals = Chosen(x))'
    BY <2>3 DEF Chosen
  <2> QED
    BY <2>2, <2>4 DEF SwapInv
<1>10. KeyInv'
  BY <1>1, <1>4 DEF ChoiceInv, KeyInv
<1>11. BuildInv'
  BY <1>1 DEF BuildInv
<1> QED
  BY <1>5, <1>6, <1>8, <1>9, <1>10, <1>11 DEF ChoiceInv

\* A writer r goes on; whoever else is alone has other settings.
LEMMA WriterIs ==
  ASSUME ChoiceInv, NEW r \in Requests, Writing(r)
  PROVE  /\ request[r].alone \/ request[r].scope[1] \in torn
         /\ build.at = "none" \/ build.disturbed
         /\ \A x \in Requests \ {r} :
              Writing(x) /\ request[x].alone => request[x].scope[1] # request[r].scope[1]
         /\ request[r].at \in SwapSteps => /\ request[r].scope[1] = "active"
                                          /\ request[r].scope[2] \in Providers
                                          /\ request[r].model \in Models
         /\ request[r].at \in KeySteps => /\ request[r].scope[1] = request[r].scope[2]
                                         /\ request[r].scope[1] \in Providers
BY DEF ChoiceInv, AloneInv, BuildInv, ScopeInv

\* Every write but the last of a request.
LEMMA WritingKeeps ==
  ASSUME ChoiceInv, NEW r \in Requests,
         UNCHANGED <<torn, chosen, build>>,
         \/ request[r].at \in {"provider", "model", "globals"} /\ UNCHANGED <<keys, urls>>
         \/ request[r].at = "key" /\ UNCHANGED <<active, globals, urls>>,
         WriteProvider(r) \/ WriteModel(r) \/ Configure(r) \/ WriteKey(r)
  PROVE  ChoiceInv'
<1>0. ChoiceTypes
  BY DEF ChoiceInv
<1>1. PICK step \in {"model", "globals", "counters", "url"} : Steps(r, step) /\ 
        /\ step = "model" <=> request[r].at = "provider"
        /\ step = "globals" <=> request[r].at = "model"
        /\ step = "counters" <=> request[r].at = "globals"
        /\ step = "url" <=> request[r].at = "key"
  BY DEF WriteProvider, WriteModel, Configure, WriteKey
<1>2. /\ request' \in [Requests -> Objects] /\ request'[r].at = step
      /\ request'[r].scope = request[r].scope /\ request'[r].model = request[r].model
      /\ request'[r].alone = request[r].alone
      /\ \A x \in Requests \ {r} : request'[x] = request[x]
  BY <1>0, <1>1, StepsIs DEF Steppings, SwapSteps, KeySteps
<1>3. Writing(r)
  BY <1>1 DEF Writing
<1>4. /\ request[r].alone \/ request[r].scope[1] \in torn
      /\ build.at = "none" \/ build.disturbed
      /\ \A x \in Requests \ {r} :
           Writing(x) /\ request[x].alone => request[x].scope[1] # request[r].scope[1]
      /\ request[r].at \in SwapSteps => /\ request[r].scope[1] = "active"
                                       /\ request[r].scope[2] \in Providers
                                       /\ request[r].model \in Models
      /\ request[r].at \in KeySteps => /\ request[r].scope[1] = request[r].scope[2]
                                      /\ request[r].scope[1] \in Providers
  BY <1>3, WriterIs
<1>5. \A x \in Requests : Writing(x)' <=> Writing(x)
  BY <1>1, <1>2, <1>3 DEF Writing
<1>6. ChoiceTypes'
  BY <1>0, <1>2, <1>4 DEF ChoiceTypes, WriteProvider, WriteModel, Configure, WriteKey, SwapSteps, KeySteps
<1>7. ScopeInv'
  BY <1>1, <1>2 DEF ChoiceInv, ScopeInv, SwapSteps, KeySteps
<1>8. AloneInv'
  BY <1>2, <1>5 DEF ChoiceInv, AloneInv
<1>9. SwapInv'
  <2>1. CASE request[r].at = "key"
    BY <1>1, <1>2, <2>1 DEF ChoiceInv, SwapInv, Settled, ReadProvider, ReadModel, Chosen, SwapSteps
  <2>2. CASE request[r].at \in {"provider", "model", "globals"}
    <3>1. \E x \in Requests : request'[x].at \in SwapSteps
      BY <1>1, <1>2, <2>2 DEF SwapSteps
    <3>2. \A x \in Requests \ {r} : request[x].at \in SwapSteps => ~request[x].alone
      BY <1>4, <2>2 DEF ChoiceInv, ScopeInv, Writing, SwapSteps
    <3>3. request[r].alone =>
            /\ step = "model" => active'[1] = request[r].scope[2]
            /\ step \in {"globals", "counters"} => active' = <<request[r].scope[2], request[r].model>>
            /\ step = "counters" => globals' = <<request[r].scope[2], request[r].model>>
      <4>1. request[r].alone =>
              /\ request[r].at = "model" => active[1] = request[r].scope[2]
              /\ request[r].at = "globals" => active = <<request[r].scope[2], request[r].model>>
        BY <2>2 DEF ChoiceInv, SwapInv, Chosen, SwapSteps
      <4>2. CASE request[r].at = "provider"
        BY <1>1, <4>2 DEF WriteProvider, WriteModel, Configure, WriteKey
      <4>3. CASE request[r].at = "model"
        BY <1>1, <4>1, <4>3 DEF WriteProvider, WriteModel, Configure, WriteKey
      <4>4. CASE request[r].at = "globals"
        BY <1>1, <4>1, <4>4 DEF WriteProvider, WriteModel, Configure, WriteKey
      <4> QED
        BY <2>2, <4>2, <4>3, <4>4
    <3> QED
      BY <1>2, <3>1, <3>2, <3>3 DEF SwapInv, Chosen
  <2> QED
    BY <2>1, <2>2
<1>10. KeyInv'
  <2>1. CASE request[r].at = "key"
    <3>1. keys' = [keys EXCEPT ![request[r].scope[2]] = r] /\ step = "url"
      BY <1>1, <2>1 DEF WriteProvider, WriteModel, Configure, WriteKey
    <3> QED
      BY <1>0, <1>2, <1>4, <2>1, <3>1 DEF ChoiceInv, KeyInv, ChoiceTypes, Writing, ScopeInv, KeySteps
  <2>2. CASE request[r].at \in {"provider", "model", "globals"}
    BY <1>1, <1>2, <2>2 DEF ChoiceInv, KeyInv
  <2> QED
    BY <2>1, <2>2
<1>11. BuildInv'
  BY <1>4 DEF BuildInv
<1> QED
  BY <1>6, <1>7, <1>8, <1>9, <1>10, <1>11 DEF ChoiceInv

\* The last write of a request: settings it wrote alone are no longer torn.
LEMMA ClosingKeeps ==
  ASSUME ChoiceInv, NEW r \in Requests, Closes(r),
         UNCHANGED <<active, globals, keys, build>>,
         \/ request[r].at = "counters" /\ chosen' = Chosen(r) /\ UNCHANGED urls
         \/ request[r].at = "url" /\ urls' = [urls EXCEPT ![request[r].scope[2]] = r] /\ UNCHANGED chosen
  PROVE  ChoiceInv'
<1>0. ChoiceTypes
  BY DEF ChoiceInv
<1>1. Steps(r, "done") /\ torn' = IF request[r].alone THEN torn \ {request[r].scope[1]} ELSE torn
  BY DEF Closes
<1>2. /\ request' \in [Requests -> Objects] /\ request'[r].at = "done"
      /\ \A x \in Requests \ {r} : request'[x] = request[x]
  BY <1>0, <1>1, StepsIs DEF Steppings
<1>3. Writing(r) /\ (request[r].at = "counters" => request[r].at \in SwapSteps)
      /\ (request[r].at = "url" => request[r].at \in KeySteps)
  BY DEF Writing, SwapSteps, KeySteps
<1>4. /\ request[r].alone \/ request[r].scope[1] \in torn
      /\ build.at = "none" \/ build.disturbed
      /\ \A x \in Requests \ {r} :
           Writing(x) /\ request[x].alone => request[x].scope[1] # request[r].scope[1]
      /\ request[r].at = "counters" => /\ request[r].scope[1] = "active"
                                      /\ request[r].scope[2] \in Providers
                                      /\ request[r].model \in Models
      /\ request[r].at = "url" => /\ request[r].scope[1] = request[r].scope[2]
                                 /\ request[r].scope[1] \in Providers
  BY <1>3, WriterIs
<1>5. ~Writing(r)' /\ \A x \in Requests \ {r} : Writing(x)' <=> Writing(x)
  BY <1>2 DEF Writing
<1>6. \A x \in Requests \ {r} :
        Writing(x) /\ request[r].alone => request[x].scope[1] # request[r].scope[1]
  BY <1>3 DEF ChoiceInv, AloneInv
<1>7. ChoiceTypes'
  BY <1>0, <1>1, <1>2, <1>4 DEF ChoiceTypes, Chosen
<1>8. ScopeInv'
  BY <1>2 DEF ChoiceInv, ScopeInv, SwapSteps, KeySteps
<1>9. AloneInv'
  <2>1. ASSUME NEW x \in Requests, Writing(x)'
        PROVE  (IF request[x].alone
                THEN \A y \in Requests : Writing(y) /\ request[y].scope[1] = request[x].scope[1] => y = x
                ELSE request[x].scope[1] \in torn)'
    <3>1. x # r /\ Writing(x) /\ request'[x] = request[x]
      BY <1>2, <1>5, <2>1
    <3>2. CASE request[x].alone
      BY <1>2, <1>5, <3>1, <3>2 DEF ChoiceInv, AloneInv
    <3>3. CASE ~request[x].alone
      BY <1>1, <1>6, <3>1, <3>3 DEF ChoiceInv, AloneInv
    <3> QED
      BY <3>2, <3>3
  <2> QED
    BY <2>1 DEF AloneInv
<1>10. SwapInv'
  <2>1. CASE request[r].at = "counters"
    <3>1. "active" \notin torn' => request[r].alone
      BY <1>1, <1>4, <2>1
    <3>2. request[r].alone => active = Chosen(r) /\ globals = Chosen(r)
      BY <1>3, <2>1 DEF ChoiceInv, SwapInv
    <3>3. request[r].alone => Settled'
      BY <1>4, <2>1, <3>2, SettingsAssumption DEF Settled, ReadProvider, ReadModel, Chosen
    <3>4. \A x \in Requests : request'[x].at \in SwapSteps => ~request'[x].alone
      BY <1>2, <1>4, <2>1 DEF ChoiceInv, ScopeInv, Writing, SwapSteps
    <3> QED
      BY <3>1, <3>3, <3>4 DEF SwapInv
  <2>2. CASE request[r].at = "url"
    <3>1. Settled' <=> Settled
      BY <2>2 DEF Settled, ReadProvider, ReadModel
    <3>2. "active" \notin torn' => "active" \notin torn
      BY <1>1, <1>4, <2>2, SettingsAssumption
    <3>3. \A x \in Requests : request[x].at \in SwapSteps <=> request'[x].at \in SwapSteps
      BY <1>2, <2>2 DEF SwapSteps
    <3>4. \A x \in Requests : request'[x].at \in SwapSteps => request'[x] = request[x]
      BY <1>2 DEF SwapSteps
    <3> QED
      BY <3>1, <3>2, <3>3, <3>4 DEF ChoiceInv, SwapInv, Chosen
  <2> QED
    BY <2>1, <2>2
<1>11. KeyInv'
  <2>1. CASE request[r].at = "counters"
    <3>1. \A p \in Providers : p \notin torn' => p \notin torn
      BY <1>1, <1>4, <2>1, SettingsAssumption
    <3>2. \A x \in Requests : request[x].at = "url" <=> request'[x].at = "url"
      BY <1>2, <2>1
    <3> QED
      BY <1>2, <2>1, <3>1, <3>2 DEF ChoiceInv, KeyInv
  <2>2. CASE request[r].at = "url"
    <3>1. urls' = [urls EXCEPT ![request[r].scope[2]] = r] /\ UNCHANGED keys
      BY <2>2
    <3>2. ASSUME NEW p \in Providers, p \notin torn',
                 ~\E x \in Requests : request'[x].at = "url" /\ request'[x].scope[1] = p
          PROVE  keys'[p] = urls'[p]
      <4>1. CASE p = request[r].scope[1]
        <5>1. request[r].alone
          BY <1>1, <1>4, <3>2, <4>1
        <5>2. keys[p] = r
          BY <1>4, <2>2, <4>1, <5>1 DEF ChoiceInv, KeyInv
        <5> QED
          BY <1>0, <1>4, <2>2, <3>1, <4>1, <5>2 DEF ChoiceTypes
      <4>2. CASE p # request[r].scope[1]
        <5>1. p \notin torn /\ ~\E x \in Requests : request[x].at = "url" /\ request[x].scope[1] = p
          BY <1>1, <1>2, <3>2, <4>2
        <5>2. keys[p] = urls[p]
          BY <5>1 DEF ChoiceInv, KeyInv
        <5> QED
          BY <1>0, <1>4, <2>2, <3>1, <4>2, <5>2 DEF ChoiceTypes
      <4> QED
        BY <4>1, <4>2
    <3>3. ASSUME NEW x \in Requests, request'[x].at = "url", request'[x].alone
          PROVE  keys'[request'[x].scope[2]] = x
      BY <1>2, <3>1, <3>3 DEF ChoiceInv, KeyInv
    <3> QED
      BY <3>2, <3>3 DEF KeyInv
  <2> QED
    BY <2>1, <2>2
<1>12. BuildInv'
  BY <1>4 DEF BuildInv
<1> QED
  BY <1>7, <1>8, <1>9, <1>10, <1>11, <1>12 DEF ChoiceInv

\* A client is built.
LEMMA ReadTypes ==
  ASSUME ChoiceTypes
  PROVE  /\ ReadProvider \in Providers
         /\ \A p \in Providers : ReadModel(p) \in Models /\ {keys[p], urls[p]} \subseteq Requests \cup {Unset}
BY SettingsAssumption DEF ChoiceTypes, ReadProvider, ReadModel

LEMMA BuildingKeeps ==
  ASSUME ChoiceInv,
         AskClient \/ LoadProvider \/ LoadModel \/ LoadKey \/ LoadUrl \/ UseClient
  PROVE  ChoiceInv'
<1>0. ChoiceTypes /\ build \in Builds
  BY DEF ChoiceInv, ChoiceTypes
<1>1. UNCHANGED choiceVars /\ UNCHANGED request
  BY DEF AskClient, LoadProvider, LoadModel, LoadKey, LoadUrl, UseClient, Reads
<1>2. \A x \in Requests : Writing(x)' <=> Writing(x)
  BY <1>1 DEF Writing
<1>3. /\ ReadProvider' = ReadProvider /\ \A p \in Providers : ReadModel(p)' = ReadModel(p)
      /\ keys' = keys /\ urls' = urls /\ torn' = torn /\ globals' = globals
  BY <1>1 DEF choiceVars, ReadProvider, ReadModel
<1>4. CASE AskClient
  <2>1. PICK asked \in Asked :
          build' = [NoBuild EXCEPT !.at = "provider", !.want = asked.want, !.own = asked.own,
                                   !.disturbed = torn # {} \/ \E r \in Requests : Writing(r)]
    BY <1>4 DEF AskClient
  <2>2. /\ asked.want \in (Providers \cup {Unset}) \X (Models \cup {Unset}) /\ asked.own \in BOOLEAN
        /\ ~asked.own => Took(asked.want)
    <3>1. globals[2] \in Models
      BY <1>0 DEF ChoiceTypes
    <3>2. CASE asked \in Inherits
      <4>1. PICK m \in {Unset, globals[2]} : asked = [want |-> <<Unset, m>>, own |-> FALSE]
        BY <3>2 DEF Inherits
      <4>2. asked.want = <<Unset, m>> /\ asked.own = FALSE
        BY <4>1
      <4>3. Took(<<Unset, m>>)
        BY <4>1 DEF Took
      <4> QED
        BY <3>1, <4>1, <4>2, <4>3
    <3>3. CASE asked \in [want : (Providers \cup {Unset}) \X Models, own : {TRUE}]
      BY <3>3
    <3> QED
      BY <3>2, <3>3 DEF Asked
  <2>3. /\ build' \in Builds /\ build'.at = "provider"
        /\ build'.want = asked.want /\ build'.own = asked.own
        /\ build'.disturbed <=> (torn # {} \/ \E r \in Requests : Writing(r))
    BY <2>1, <2>2 DEF NoBuild, Builds
  <2>4. BuildInv'
    BY <1>2, <1>3, <2>2, <2>3 DEF BuildInv, BuildRead, Took
  <2> QED
    BY <1>0, <1>1, <2>3, <2>4, QuietKeeps DEF Quiet, ChoiceTypes
<1>5. CASE UseClient
  <2>1. build' = NoBuild
    BY <1>5 DEF UseClient
  <2>2. build' \in Builds /\ BuildInv'
    BY <2>1 DEF NoBuild, Builds, BuildInv
  <2> QED
    BY <1>0, <1>1, <2>2, QuietKeeps DEF Quiet, ChoiceTypes
\* A read that fails leaves nothing to show of the rows.
<1>6. ASSUME build.at # "none", build' \in Builds, build'.at # "none",
             build'.disturbed = build.disturbed, build'.own = build.own, build'.want = build.want,
             ~build'.failed => ~build.failed /\ (BuildRead => BuildRead')
      PROVE  ChoiceInv'
  <2>1. BuildInv'
    BY <1>2, <1>3, <1>6 DEF ChoiceInv, BuildInv, Took
  <2> QED
    BY <1>0, <1>1, <1>6, <2>1, QuietKeeps DEF Quiet, ChoiceTypes
<1>7. CASE LoadProvider
  <2>1. PICK down \in BOOLEAN :
          /\ build.at = "provider"
          /\ build' = [build EXCEPT !.at = "model", !.provider = IF down THEN FallbackProvider ELSE ReadProvider,
                                    !.failed = build.failed \/ down]
    BY <1>7 DEF LoadProvider, Reads
  <2>2. /\ build' \in Builds /\ build'.at = "model" /\ build'.disturbed = build.disturbed
        /\ build'.own = build.own /\ build'.want = build.want
        /\ ~build'.failed => ~build.failed /\ build'.provider = ReadProvider
    <3> DEFINE got == IF down THEN FallbackProvider ELSE ReadProvider
    <3>1. got \in Providers /\ (~down => got = ReadProvider)
      BY <1>0, ReadTypes, SettingsAssumption
    <3>2. build.at = "provider" /\ build' = [build EXCEPT !.at = "model", !.provider = got,
                                                          !.failed = build.failed \/ down]
      BY <2>1
    <3> HIDE DEF got
    <3> QED
      BY <1>0, <3>1, <3>2 DEF Builds
  <2>3. ~build'.failed => ~build.failed /\ (BuildRead => BuildRead')
    BY <1>3, <2>2 DEF BuildRead
  <2> QED
    BY <1>6, <2>1, <2>2, <2>3
<1>8. CASE LoadModel
  <2>1. PICK down \in BOOLEAN :
          /\ build.at = "model"
          /\ build' = [build EXCEPT !.at = "key",
                         !.model = IF down THEN DefaultModel[build.provider] ELSE ReadModel(build.provider),
                         !.failed = build.failed \/ down]
    BY <1>8 DEF LoadModel, Reads
  <2>0. build.provider \in Providers
    BY <1>0, <2>1 DEF Builds
  <2>2. /\ build' \in Builds /\ build'.at = "key" /\ build'.disturbed = build.disturbed
        /\ build'.own = build.own /\ build'.want = build.want /\ build'.provider = build.provider
        /\ ~build'.failed => ~build.failed /\ build'.model = ReadModel(build.provider)
    BY <1>0, <2>0, <2>1, ReadTypes, SettingsAssumption DEF Builds
  <2>3. ~build'.failed => ~build.failed /\ (BuildRead => BuildRead')
    BY <1>3, <2>0, <2>1, <2>2 DEF BuildRead
  <2> QED
    BY <1>6, <2>1, <2>2, <2>3
<1>9. CASE LoadKey
  <2>1. PICK down \in BOOLEAN :
          /\ build.at = "key"
          /\ build' = [build EXCEPT !.at = "url", !.key = IF down THEN Unset ELSE keys[build.provider],
                                    !.failed = build.failed \/ down]
    BY <1>9 DEF LoadKey, Reads
  <2>0. build.provider \in Providers
    BY <1>0, <2>1 DEF Builds
  <2>2. /\ build' \in Builds /\ build'.at = "url" /\ build'.disturbed = build.disturbed
        /\ build'.own = build.own /\ build'.want = build.want /\ build'.provider = build.provider
        /\ build'.model = build.model
        /\ ~build'.failed => ~build.failed /\ build'.key = keys[build.provider]
    BY <1>0, <2>0, <2>1, ReadTypes DEF Builds
  <2>3. ~build'.failed => ~build.failed /\ (BuildRead => BuildRead')
    BY <1>3, <2>0, <2>1, <2>2 DEF BuildRead
  <2> QED
    BY <1>6, <2>1, <2>2, <2>3
<1>10. CASE LoadUrl
  <2>1. PICK down \in BOOLEAN :
          /\ build.at = "url"
          /\ build' = [build EXCEPT !.at = "client", !.url = IF down THEN Unset ELSE urls[build.provider],
                                    !.failed = build.failed \/ down]
    BY <1>10 DEF LoadUrl, Reads
  <2>0. build.provider \in Providers
    BY <1>0, <2>1 DEF Builds
  <2>2. /\ build' \in Builds /\ build'.at = "client" /\ build'.disturbed = build.disturbed
        /\ build'.own = build.own /\ build'.want = build.want /\ build'.provider = build.provider
        /\ build'.model = build.model /\ build'.key = build.key
        /\ ~build'.failed => ~build.failed /\ build'.url = urls[build.provider]
    BY <1>0, <2>0, <2>1, ReadTypes DEF Builds
  <2>3. ~build'.failed => ~build.failed /\ (BuildRead => BuildRead')
    BY <1>3, <2>0, <2>1, <2>2 DEF BuildRead
  <2> QED
    BY <1>6, <2>1, <2>2, <2>3
<1> QED
  BY <1>4, <1>5, <1>7, <1>8, <1>9, <1>10

LEMMA SettingsInitially == SettingsInit => ChoiceInv
<1> SUFFICES ASSUME SettingsInit PROVE ChoiceInv
  OBVIOUS
<1>1. \A r \in Requests : request[r] = Asleep /\ ~Writing(r) /\ request[r].at = "idle"
  BY DEF SettingsInit, Asleep, Writing
<1>2. Asleep \in Objects /\ NoBuild \in Builds
  BY DEF Asleep, Objects, NoBuild, Builds
<1>3. /\ active \in (Providers \cup {Unset}) \X (Models \cup {Unset}) /\ globals \in Providers \X Models
      /\ active = <<Unset, Unset>> \/ (active \in Providers \X Models /\ globals = active)
  BY SettingsAssumption DEF SettingsInit
<1>4. ReadProvider \in Providers /\ \A p \in Providers : ReadModel(p) \in Models
  BY <1>3, SettingsAssumption DEF ReadProvider, ReadModel
<1>5. ChoiceTypes
  BY <1>1, <1>2, <1>3, <1>4 DEF SettingsInit, ChoiceTypes
<1>6. Settled
  <2>1. chosen = <<ReadProvider, ReadModel(ReadProvider)>>
    BY DEF SettingsInit
  <2>2. active \in Providers \X Models => chosen = active
    BY <2>1, SettingsAssumption DEF ReadProvider, ReadModel
  <2> QED
    BY <1>3, <2>1, <2>2 DEF Settled
<1>7. ScopeInv /\ AloneInv /\ SwapInv
  BY <1>1, <1>6 DEF ScopeInv, AloneInv, SwapInv, SwapSteps, KeySteps
<1>8. KeyInv /\ BuildInv
  BY <1>1 DEF KeyInv, BuildInv, SettingsInit, NoBuild
<1> QED
  BY <1>5, <1>7, <1>8 DEF ChoiceInv

LEMMA ChoiceStays == ChoiceInv /\ [SettingsNext]_settingsVars => ChoiceInv'
<1> SUFFICES ASSUME ChoiceInv, [SettingsNext]_settingsVars PROVE ChoiceInv'
  OBVIOUS
<1>0. ChoiceTypes /\ build \in Builds /\ request \in [Requests -> Objects]
  BY DEF ChoiceInv, ChoiceTypes
<1>1. CASE UNCHANGED <<choiceVars, request, build>>
  BY <1>0, <1>1, QuietKeeps DEF Quiet
<1>2. ASSUME NEW r \in Requests, NEW p \in Providers, NEW m \in Models, AskSwap(r, p, m)
      PROVE  ChoiceInv'
  <2>1. <<"active", p>> \in {"active"} \X Providers /\ <<"active", p>> \in Scopes
    BY DEF Scopes
  <2> QED
    BY <1>2, <2>1, OpeningKeeps DEF AskSwap
<1>3. ASSUME NEW r \in Requests, NEW p \in Providers, AskKey(r, p)
      PROVE  ChoiceInv'
  <2>1. <<p, p>> \in Providers \X Providers /\ <<p, p>> \in Scopes
    BY DEF Scopes
  <2> QED
    BY <1>3, <2>1, OpeningKeeps DEF AskKey
<1>4. ASSUME NEW r \in Requests, WriteProvider(r) \/ WriteModel(r) \/ Configure(r) \/ WriteKey(r)
      PROVE  ChoiceInv'
  <2>1. /\ UNCHANGED <<torn, chosen, build>>
        /\ \/ request[r].at \in {"provider", "model", "globals"} /\ UNCHANGED <<keys, urls>>
           \/ request[r].at = "key" /\ UNCHANGED <<active, globals, urls>>
    BY <1>4 DEF WriteProvider, WriteModel, Configure, WriteKey
  <2> QED
    BY <1>4, <2>1, WritingKeeps
<1>5. ASSUME NEW r \in Requests, ClearCounters(r) \/ WriteUrl(r)
      PROVE  ChoiceInv'
  <2>1. /\ Closes(r) /\ UNCHANGED <<active, globals, keys, build>>
        /\ \/ request[r].at = "counters" /\ chosen' = Chosen(r) /\ UNCHANGED urls
           \/ /\ request[r].at = "url" /\ urls' = [urls EXCEPT ![request[r].scope[2]] = r]
              /\ UNCHANGED chosen
    BY <1>5 DEF ClearCounters, WriteUrl, Chosen
  <2> QED
    BY <2>1, ClosingKeeps
<1>6. ASSUME NEW r \in Requests, Invalidate(r) \/ \E m \in Models : WritePrice(r, m)
      PROVE  ChoiceInv'
  <2>1. UNCHANGED choiceVars /\ UNCHANGED build
    BY <1>6 DEF Invalidate, WritePrice
  <2>2. request' \in [Requests -> Objects] /\ \A x \in Requests : Quiet(x)
    <3>1. CASE Invalidate(r)
      <4>1. /\ request' \in [Requests -> Objects] /\ request'[r].at = "done"
            /\ \A x \in Requests \ {r} : request'[x] = request[x]
        BY <1>0, <3>1, StepsIs DEF Invalidate, Steppings
      <4>2. ~Writing(r)
        BY <3>1 DEF Invalidate, Writing
      <4> QED
        BY <4>1, <4>2 DEF Quiet, SwapSteps, KeySteps
    <3>2. CASE \E m \in Models : WritePrice(r, m)
      <4>1. PICK m \in Models : request' = [request EXCEPT ![r].at = "invalidate", ![r].model = m]
                                /\ request[r] = Asleep
        BY <3>2 DEF WritePrice
      <4>2. request' = [request EXCEPT ![r] = [Asleep EXCEPT !.at = "invalidate", !.model = m]]
        BY <4>1
      <4>3. /\ [Asleep EXCEPT !.at = "invalidate", !.model = m] \in Objects
            /\ [Asleep EXCEPT !.at = "invalidate", !.model = m].at = "invalidate"
        BY DEF Asleep, Objects
      <4>4. /\ request' \in [Requests -> Objects] /\ request'[r].at = "invalidate"
            /\ \A x \in Requests \ {r} : request'[x] = request[x]
        BY <1>0, <4>2, <4>3
      <4>5. ~Writing(r)
        BY <4>1 DEF Asleep, Writing
      <4> QED
        BY <4>4, <4>5 DEF Quiet, SwapSteps, KeySteps
    <3> QED
      BY <1>6, <3>1, <3>2
  <2> QED
    BY <1>0, <2>1, <2>2, QuietKeeps
<1>7. CASE UNCHANGED settingsVars
  BY <1>1, <1>7 DEF settingsVars
<1>8. CASE AskClient \/ LoadProvider \/ LoadModel \/ LoadKey \/ LoadUrl \/ UseClient
  BY <1>8, BuildingKeeps
<1>9. ASSUME \/ (\E m \in Models : LookUp(m)) \/ Remember
             \/ \E t \in Chats : BeginUse(t) \/ Record(t) \/ StrayRecord(t) \/ StrayEnds(t) \/ EndUse(t)
      PROVE  ChoiceInv'
  BY <1>1, <1>9 DEF LookUp, Remember, BeginUse, Record, StrayRecord, StrayEnds, EndUse
<1> QED
  BY <1>2, <1>3, <1>4, <1>5, <1>6, <1>7, <1>8, <1>9 DEF SettingsNext

THEOREM ChoiceInvariant == SettingsSpec => []ChoiceInv
BY SettingsInitially, ChoiceStays, PTL DEF SettingsSpec

\* An agent's client, and a sub-agent's that brings no model of its own, is built for the
\* pair that was chosen last, every client with credentials saved together, and rows and
\* globals agree on it, whatever the order of the requests (PATCH
\* /admin/providers/active, PUT /admin/providers/.../key, _get_llm, load_active_provider_config).
THEOREM ChoiceHoldsAlways == SettingsSpec => []ChoiceHolds
<1>1. ASSUME ChoiceInv PROVE ChoiceHolds
  <2>0. ChoiceTypes
    BY <1>1 DEF ChoiceInv
  <2>1. ASSUME build.at = "client", ~build.disturbed, ~build.failed
        PROVE  /\ build.provider = chosen[1] /\ build.key = build.url
               /\ ~build.own => \/ <<EffProvider, EffModel>> = chosen
                                \/ build.want # <<Unset, Unset>> /\ active = <<Unset, Unset>>
    <3>1. /\ torn = {} /\ \A r \in Requests : ~Writing(r)
          /\ build.provider = ReadProvider /\ build.model = ReadModel(build.provider)
          /\ build.key = keys[build.provider] /\ build.url = urls[build.provider]
          /\ ~build.own => Took(build.want)
      BY <1>1, <2>1 DEF ChoiceInv, BuildInv, BuildRead
    <3>2. Settled
      BY <1>1, <3>1 DEF ChoiceInv, SwapInv, Writing, SwapSteps
    <3>3. keys[ReadProvider] = urls[ReadProvider]
      BY <1>1, <2>0, <3>1, ReadTypes DEF ChoiceInv, KeyInv, Writing
    <3>4. <<build.provider, build.model>> = chosen
      BY <3>1, <3>2 DEF Settled
    <3>5. CASE build.want = <<Unset, Unset>>
      BY <3>1, <3>3, <3>4, <3>5 DEF EffProvider, EffModel
    <3>6. CASE build.want = <<Unset, globals[2]>> /\ active # <<Unset, Unset>>
      <4>1. globals = chosen /\ globals \in Providers \X Models
        BY <2>0, <3>2, <3>6 DEF Settled, ChoiceTypes
      <4>2. EffProvider = build.provider /\ EffModel = globals[2]
        BY <3>6, <4>1, SettingsAssumption DEF EffProvider, EffModel
      <4> QED
        BY <3>1, <3>3, <3>4, <4>1, <4>2
    <3>7. CASE build.want = <<Unset, globals[2]>> /\ active = <<Unset, Unset>>
      <4>1. globals[2] # Unset
        BY <2>0, SettingsAssumption DEF ChoiceTypes
      <4> QED
        BY <3>1, <3>3, <3>4, <3>7, <4>1
    <3>8. build.own => build.provider = chosen[1] /\ build.key = build.url
      BY <3>1, <3>3, <3>4
    <3> QED
      BY <3>1, <3>5, <3>6, <3>7, <3>8 DEF Took
  <2>2. ASSUME "active" \notin torn, InScope(<<"active">>) = {}, active # <<Unset, Unset>>
        PROVE  active = globals /\ active = chosen
    <3>1. \A r \in Requests : request[r].at \notin SwapSteps
      BY <1>1, <2>2 DEF ChoiceInv, ScopeInv, InScope, Writing, SwapSteps
    <3> QED
      BY <1>1, <2>2, <3>1 DEF ChoiceInv, SwapInv, Settled
  <2> QED
    BY <2>1, <2>2 DEF ChoiceHolds
<1> QED
  BY <1>1, ChoiceInvariant, PTL

-----------------------------------------------------------------------------
\* Prices and counters.
LEMMA PricesStay ==
  ASSUME ChoiceTypes, ChoiceTypes', PriceTypes, LookupInv, PriceFresh, SettingsNext
  PROVE  PriceTypes' /\ LookupInv' /\ PriceFresh'
<1>1. ASSUME UNCHANGED priceVars,
             \A r \in Requests : request[r].at = "invalidate" =>
               request'[r].at = "invalidate" /\ request'[r].model = request[r].model
      PROVE  PriceTypes' /\ LookupInv' /\ PriceFresh'
  BY <1>1 DEF priceVars, PriceTypes, LookupInv, PriceFresh
<1>2. CASE UNCHANGED <<priceVars, request>>
  BY <1>1, <1>2
<1>3. CASE \/ AskClient \/ LoadProvider \/ LoadModel \/ LoadKey \/ LoadUrl \/ UseClient
           \/ \E t \in Chats : BeginUse(t) \/ Record(t) \/ StrayRecord(t) \/ StrayEnds(t) \/ EndUse(t)
  BY <1>2, <1>3 DEF AskClient, LoadProvider, LoadModel, LoadKey, LoadUrl, UseClient, Reads, BeginUse,
     Record, StrayRecord, StrayEnds, EndUse
<1>4. ASSUME NEW r \in Requests,
             WriteProvider(r) \/ WriteModel(r) \/ Configure(r) \/ WriteKey(r) \/ ClearCounters(r)
             \/ WriteUrl(r)
      PROVE  PriceTypes' /\ LookupInv' /\ PriceFresh'
  <2>1. UNCHANGED priceVars /\ request[r].at # "invalidate"
    BY <1>4 DEF WriteProvider, WriteModel, Configure, WriteKey, ClearCounters, WriteUrl
  <2>2. \E step \in Steppings : Steps(r, step)
    BY <1>4 DEF WriteProvider, WriteModel, Configure, WriteKey, ClearCounters, WriteUrl, Closes,
       Steppings, SwapSteps, KeySteps
  <2>3. \A x \in Requests \ {r} : request'[x] = request[x]
    BY <2>2, StepsIs
  <2> QED
    BY <1>1, <2>1, <2>3
<1>5. ASSUME NEW r \in Requests, NEW p \in Providers,
             AskKey(r, p) \/ \E m \in Models : AskSwap(r, p, m)
      PROVE  PriceTypes' /\ LookupInv' /\ PriceFresh'
  <2>1. PICK step \in {"provider", "key"}, scope \in Scopes, m \in Models \cup {Unset} :
          Opens(r, step, scope, m)
    BY <1>5 DEF AskKey, AskSwap, Scopes
  <2>2. UNCHANGED priceVars
    BY <1>5 DEF AskKey, AskSwap
  <2> QED
    BY <1>1, <2>1, <2>2, OpensIs
<1>6. ASSUME NEW r \in Requests, NEW m \in Models, WritePrice(r, m)
      PROVE  PriceTypes' /\ LookupInv' /\ PriceFresh'
  <2>1. /\ request[r] = Asleep
        /\ request' = [request EXCEPT ![r].at = "invalidate", ![r].model = m]
        /\ lookup' = [lookup EXCEPT !.late = lookup.late \/ lookup.model = m]
        /\ UNCHANGED <<cached, poisoned>>
    BY <1>6 DEF WritePrice
  <2>2. PICK row \in {r, Unset} : price' = [price EXCEPT ![m] = row]
    BY <1>6 DEF WritePrice
  <2>3. /\ request'[r].at = "invalidate" /\ request'[r].model = m
        /\ \A x \in Requests \ {r} : request'[x] = request[x]
    <3>1. request' = [request EXCEPT ![r] = [Asleep EXCEPT !.at = "invalidate", !.model = m]]
      BY <2>1
    <3>2. /\ [Asleep EXCEPT !.at = "invalidate", !.model = m].at = "invalidate"
          /\ [Asleep EXCEPT !.at = "invalidate", !.model = m].model = m
      BY DEF Asleep
    <3> QED
      BY <3>1, <3>2 DEF ChoiceTypes
  <2>4. /\ price' \in [Models -> Requests \cup {Unset}] /\ price'[m] = row
        /\ \A n \in Models \ {m} : price'[n] = price[n]
    BY <2>2 DEF PriceTypes
  <2>5. /\ lookup' \in [at : {"none", "read"}, model : Models \cup {Unset},
                        found : Requests \cup {Unset}, late : BOOLEAN]
        /\ lookup'.at = lookup.at /\ lookup'.model = lookup.model /\ lookup'.found = lookup.found
        /\ lookup'.late <=> (lookup.late \/ lookup.model = m)
    BY <2>1 DEF PriceTypes
  <2>6. PriceTypes'
    BY <2>1, <2>4, <2>5 DEF PriceTypes
  <2>7. LookupInv'
    BY <2>4, <2>5 DEF LookupInv, PriceTypes
  <2>8. ASSUME NEW n \in Models
        PROVE  \/ cached'[n] \in {Unread, price'[n]} \/ n \in poisoned'
               \/ \E x \in Requests : request'[x].at = "invalidate" /\ request'[x].model = n
    <3>1. CASE n = m
      BY <2>3, <3>1
    <3>2. CASE n # m
      <4>1. request[r].at # "invalidate"
        BY <2>1 DEF Asleep
      <4>2. \A x \in Requests : request[x].at = "invalidate" => request'[x] = request[x]
        BY <2>3, <4>1
      <4>3. price'[n] = price[n] /\ cached'[n] = cached[n] /\ poisoned' = poisoned
        BY <2>1, <2>4, <3>2
      <4>4. \/ cached[n] \in {Unread, price[n]} \/ n \in poisoned
            \/ \E x \in Requests : request[x].at = "invalidate" /\ request[x].model = n
        BY DEF PriceFresh
      <4>5. CASE cached[n] \in {Unread, price[n]} \/ n \in poisoned
        BY <4>3, <4>5
      <4>6. CASE \E x \in Requests : request[x].at = "invalidate" /\ request[x].model = n
        BY <4>2, <4>6
      <4> QED
        BY <4>4, <4>5, <4>6
    <3> QED
      BY <3>1, <3>2
  <2>9. PriceFresh'
    BY <2>8 DEF PriceFresh
  <2> QED
    BY <2>6, <2>7, <2>9
<1>7. ASSUME NEW r \in Requests, Invalidate(r)
      PROVE  PriceTypes' /\ LookupInv' /\ PriceFresh'
  <2>1. cached' = [m \in Models |-> Unread] /\ UNCHANGED <<price, lookup>>
    BY <1>7 DEF Invalidate
  <2> QED
    BY <2>1 DEF PriceTypes, LookupInv, PriceFresh
<1>8. ASSUME NEW m \in Models, LookUp(m)
      PROVE  PriceTypes' /\ LookupInv' /\ PriceFresh'
  BY <1>8 DEF LookUp, PriceTypes, LookupInv, PriceFresh
<1>9. CASE Remember
  <2>1. /\ lookup.at = "read" /\ lookup' = NoLookup
        /\ cached' = [cached EXCEPT ![lookup.model] = lookup.found]
        /\ poisoned' = IF lookup.late THEN poisoned \cup {lookup.model} ELSE poisoned
        /\ UNCHANGED <<request, price>>
    BY <1>9 DEF Remember
  <2>2. lookup.model \in Models /\ lookup.found \in Requests \cup {Unset}
    BY <2>1 DEF PriceTypes
  <2>3. PriceTypes' /\ LookupInv'
    BY <2>1, <2>2 DEF PriceTypes, LookupInv, NoLookup
  <2>4. ASSUME NEW n \in Models
        PROVE  \/ cached'[n] \in {Unread, price'[n]} \/ n \in poisoned'
               \/ \E x \in Requests : request'[x].at = "invalidate" /\ request'[x].model = n
    <3>1. CASE n = lookup.model
      BY <2>1, <2>2, <3>1 DEF PriceTypes, LookupInv
    <3>2. CASE n # lookup.model
      BY <2>1, <3>2 DEF PriceTypes, PriceFresh
    <3> QED
      BY <3>1, <3>2
  <2> QED
    BY <2>3, <2>4 DEF PriceFresh
<1> QED
  BY <1>3, <1>4, <1>5, <1>6, <1>7, <1>8, <1>9 DEF SettingsNext

LEMMA CounterIs ==
  ASSUME ChoiceTypes, UsageTypes, NEW t \in Chats
  PROVE  /\ Counter(t) \in [model : Models, tokens : Nat] /\ Counter(t) # Unset
         /\ counter[t] # Unset => Counter(t) = counter[t]
         /\ counter[t] = Unset => Counter(t).model = globals[2]
BY SettingsAssumption DEF Counter, ChoiceTypes, UsageTypes

\* The bills are the ones the model's own words give.
LEMMA BillsIs ==
  CountersBillModel <=>
    /\ (\A r \in Requests : request[r].at # "counters")
       => \A t \in Chats : counter[t] # Unset => counter[t].model = globals[2]
    /\ \A t \in Chats : ~turn[t].on /\ ~turn[t].swapped => Within(turn[t], turn[t].shown)
BY DEF CountersBillModel, Within

LEMMA UsesStay ==
  ASSUME ChoiceTypes, ChoiceTypes', UsageTypes, UsedInv, CountersBillModel, SettingsNext
  PROVE  UsageTypes' /\ UsedInv' /\ CountersBillModel'
<1>0. MaxUses \in Nat
  BY SettingsAssumption
<1>1. ASSUME UNCHANGED <<usageVars, globals>>,
             \A r \in Requests : request[r].at = "counters" => request'[r].at = "counters"
      PROVE  UsageTypes' /\ UsedInv' /\ CountersBillModel'
  BY <1>1 DEF usageVars, UsageTypes, UsedInv, Within, Modest, CountersBillModel
<1>2. CASE \/ AskClient \/ LoadProvider \/ LoadModel \/ LoadKey \/ LoadUrl \/ UseClient
           \/ (\E m \in Models : LookUp(m)) \/ Remember
  BY <1>1, <1>2 DEF AskClient, LoadProvider, LoadModel, LoadKey, LoadUrl, UseClient, Reads, LookUp,
     Remember, choiceVars
<1>3. ASSUME NEW r \in Requests,
             WriteProvider(r) \/ WriteModel(r) \/ WriteKey(r) \/ WriteUrl(r) \/ Invalidate(r)
      PROVE  UsageTypes' /\ UsedInv' /\ CountersBillModel'
  <2>1. UNCHANGED <<usageVars, globals>> /\ request[r].at # "counters"
    BY <1>3 DEF WriteProvider, WriteModel, WriteKey, WriteUrl, Invalidate, choiceVars
  <2>2. \E step \in Steppings : Steps(r, step)
    BY <1>3 DEF WriteProvider, WriteModel, WriteKey, WriteUrl, Invalidate, Closes,
       Steppings, SwapSteps, KeySteps
  <2>3. \A x \in Requests \ {r} : request'[x] = request[x]
    BY <2>2, StepsIs
  <2> QED
    BY <1>1, <2>1, <2>3
<1>4. ASSUME NEW r \in Requests, NEW p \in Providers,
             AskKey(r, p) \/ \E m \in Models : AskSwap(r, p, m)
      PROVE  UsageTypes' /\ UsedInv' /\ CountersBillModel'
  <2>1. PICK step \in {"provider", "key"}, scope \in Scopes, m \in Models \cup {Unset} :
          Opens(r, step, scope, m)
    BY <1>4 DEF AskKey, AskSwap, Scopes
  <2>2. UNCHANGED <<usageVars, globals>>
    BY <1>4 DEF AskKey, AskSwap
  <2> QED
    BY <1>1, <2>1, <2>2, OpensIs
<1>5. ASSUME NEW r \in Requests, NEW m \in Models, WritePrice(r, m)
      PROVE  UsageTypes' /\ UsedInv' /\ CountersBillModel'
  <2>1. /\ request[r].at = "idle" /\ UNCHANGED <<usageVars, globals>>
        /\ request' = [request EXCEPT ![r].at = "invalidate", ![r].model = m]
    BY <1>5 DEF WritePrice, Asleep, choiceVars
  <2> QED
    BY <1>1, <2>1 DEF ChoiceTypes
<1>6. ASSUME NEW r \in Requests, Configure(r)
      PROVE  UsageTypes' /\ UsedInv' /\ CountersBillModel'
  <2>1. Steps(r, "counters") /\ UNCHANGED usageVars
    BY <1>6 DEF Configure
  <2>2. request'[r].at = "counters"
    BY <2>1, StepsIs DEF Steppings, SwapSteps
  <2> QED
    BY <2>1, <2>2 DEF usageVars, UsageTypes, UsedInv, Within, Modest, CountersBillModel
<1>7. ASSUME NEW r \in Requests, ClearCounters(r)
      PROVE  UsageTypes' /\ UsedInv' /\ CountersBillModel'
  <2>1. /\ counter' = [t \in Chats |-> Unset]
        /\ turn' = [t \in Chats |->
             [turn[t] EXCEPT !.swapped = turn[t].swapped \/ turn[t].on,
                             !.stray = IF turn[t].stray = "works" THEN "late" ELSE turn[t].stray]]
    BY <1>7 DEF ClearCounters
  <2>2. ASSUME NEW t \in Chats
        PROVE  /\ turn'[t] \in Uses /\ turn'[t].on = turn[t].on /\ turn'[t].used = turn[t].used
               /\ turn'[t].shown = turn[t].shown /\ turn'[t].others = turn[t].others
               /\ turn'[t].made = turn[t].made
               /\ turn'[t].swapped <=> turn[t].swapped \/ turn[t].on
    <3>1. /\ turn[t] \in Uses
          /\ turn'[t] = [turn[t] EXCEPT !.swapped = turn[t].swapped \/ turn[t].on,
                           !.stray = IF turn[t].stray = "works" THEN "late" ELSE turn[t].stray]
      BY <2>1 DEF UsageTypes
    <3> QED
      BY <3>1 DEF Uses
  <2>3. UsageTypes'
    BY <2>1, <2>2 DEF UsageTypes, Modest
  <2> QED
    BY <2>1, <2>2, <2>3 DEF UsedInv, CountersBillModel
\* A counter is made, gains a call or is left alone.
<1>8. ASSUME NEW t \in Chats, NEW c \in [model : Models, tokens : Nat] \cup {Unset}, NEW u \in Uses,
             counter' = [counter EXCEPT ![t] = c], turn' = [turn EXCEPT ![t] = u],
             UNCHANGED <<globals, request>>, Modest(u), c = counter[t] \/ c.model = Counter(t).model,
             u.on /\ ~u.swapped => c # Unset /\ Within(u, c.tokens - u.before),
             ~u.on /\ ~u.swapped => Within(u, u.shown)
      PROVE  UsageTypes' /\ UsedInv' /\ CountersBillModel'
  <2>1. /\ counter'[t] = c /\ turn'[t] = u /\ UsageTypes'
        /\ \A s \in Chats \ {t} : counter'[s] = counter[s] /\ turn'[s] = turn[s]
    <3>1. /\ counter'[t] = c /\ turn'[t] = u /\ turn' \in [Chats -> Uses]
          /\ counter' \in [Chats -> [model : Models, tokens : Nat] \cup {Unset}]
          /\ \A s \in Chats \ {t} : counter'[s] = counter[s] /\ turn'[s] = turn[s]
      BY <1>8 DEF UsageTypes
    <3>2. \A s \in Chats \ {t} : Modest(turn[s]) /\ turn'[s] = turn[s]
      BY <3>1 DEF UsageTypes
    <3>3. \A s \in Chats : Modest(turn'[s])
      BY <1>8, <3>1, <3>2
    <3> QED
      BY <3>1, <3>3 DEF UsageTypes, Modest
  <2>2. ASSUME NEW s \in Chats, turn'[s].on, ~turn'[s].swapped
        PROVE  counter'[s] # Unset /\ Within(turn'[s], counter'[s].tokens - turn'[s].before)
    <3>1. CASE s = t
      BY <1>8, <2>1, <2>2, <3>1
    <3>2. CASE s # t
      BY <2>1, <2>2, <3>2 DEF UsedInv
    <3> QED
      BY <3>1, <3>2
  <2>3. UsedInv'
    BY <2>2 DEF UsedInv, Within
  <2>4. ASSUME \A r \in Requests : request'[r].at # "counters", NEW s \in Chats, counter'[s] # Unset
        PROVE  counter'[s].model = globals'[2]
    <3>1. counter[s] # Unset => counter[s].model = globals[2]
      BY <1>8, <2>4 DEF CountersBillModel
    <3> QED
      BY <1>8, <2>1, <2>4, <3>1, CounterIs
  <2>5. ASSUME NEW s \in Chats, ~turn'[s].on, ~turn'[s].swapped
        PROVE  Within(turn'[s], turn'[s].shown)
    <3>1. CASE s = t
      BY <1>8, <2>1, <2>5, <3>1
    <3>2. CASE s # t
      BY <2>1, <2>5, <3>2, BillsIs
    <3> QED
      BY <3>1, <3>2
  <2>6. \A s \in Chats : ~turn'[s].on /\ ~turn'[s].swapped
          => turn'[s].used <= turn'[s].shown /\ turn'[s].shown <= turn'[s].used + turn'[s].others
    BY <2>5 DEF Within
  <2> QED
    BY <2>1, <2>3, <2>4, <2>6 DEF CountersBillModel
<1>9. ASSUME NEW t \in Chats,
             BeginUse(t) \/ Record(t) \/ StrayRecord(t) \/ StrayEnds(t) \/ EndUse(t)
      PROVE  UsageTypes' /\ UsedInv' /\ CountersBillModel'
  <2>0. /\ UNCHANGED <<globals, request>> /\ turn[t] \in Uses
        /\ counter[t] \in [model : Models, tokens : Nat] \cup {Unset}
        /\ counter = [counter EXCEPT ![t] = counter[t]]
    BY <1>9 DEF BeginUse, Record, StrayRecord, StrayEnds, EndUse, choiceVars, UsageTypes
  <2>1. /\ Counter(t) \in [model : Models, tokens : Nat] /\ Counter(t) # Unset
        /\ counter[t] # Unset => Counter(t) = counter[t]
    BY CounterIs
  <2>2. /\ turn[t].on /\ ~turn[t].swapped =>
             counter[t] # Unset /\ Within(turn[t], Counter(t).tokens - turn[t].before)
        /\ ~turn[t].on /\ ~turn[t].swapped => Within(turn[t], turn[t].shown)
    BY <2>1, BillsIs DEF UsedInv
  <2>3. /\ Counts(t) \in [model : Models, tokens : Nat] /\ Counts(t).model = Counter(t).model
        /\ Counts(t).tokens = Counter(t).tokens + 1 /\ Counts(t) # Unset
    <3>1. Counts(t) = [Counter(t) EXCEPT !.tokens = Counter(t).tokens + 1]
      BY DEF Counts
    <3>2. Counts(t) \in [model : Models, tokens : Nat]
      BY <2>1, <3>1
    <3> QED
      BY <2>1, <3>1, <3>2, SettingsAssumption
  <2>4. /\ Counter(t).tokens \in Nat /\ turn[t].before \in Nat /\ turn[t].used \in Nat
        /\ turn[t].others \in Nat /\ turn[t].made \in Nat /\ turn[t].shown \in Nat
        /\ Modest(turn[t])
    BY <2>0, <2>1 DEF Uses, UsageTypes
  <2>5. CASE BeginUse(t)
    <3> DEFINE u == [NoUse EXCEPT !.on = TRUE, !.before = Counter(t).tokens,
                                  !.stray = turn[t].stray, !.made = turn[t].made]
    <3>1. counter' = [counter EXCEPT ![t] = Counter(t)] /\ turn' = [turn EXCEPT ![t] = u]
      BY <2>5 DEF BeginUse
    <3>2. u \in Uses /\ u.on /\ u.before = Counter(t).tokens /\ u.used = 0 /\ u.others = 0
          /\ u.made = turn[t].made
      BY <2>0, <2>4 DEF NoUse, Uses
    <3> HIDE DEF u
    <3>3. Within(u, Counter(t).tokens - u.before) /\ Modest(u)
      BY <1>0, <2>4, <3>2 DEF Within, Modest
    <3> QED
      BY <1>8, <2>0, <2>1, <3>1, <3>2, <3>3
  <2>6. CASE Record(t)
    <3> DEFINE used == turn[t].used + 1
               made == turn[t].made + 1
               u == [turn[t] EXCEPT !.used = used, !.made = made]
    <3>1. /\ counter' = [counter EXCEPT ![t] = Counts(t)] /\ turn' = [turn EXCEPT ![t] = u]
          /\ turn[t].on /\ turn[t].made < MaxUses
      BY <2>6 DEF Record
    <3>0. used \in Nat /\ used = turn[t].used + 1 /\ made \in Nat /\ made = turn[t].made + 1
      BY <2>4
    <3> HIDE DEF used, made
    <3>2. /\ u \in Uses /\ u.on /\ u.before = turn[t].before /\ u.used = used /\ u.made = made
          /\ u.others = turn[t].others /\ u.swapped = turn[t].swapped
      BY <2>0, <3>0, <3>1 DEF Uses
    <3> HIDE DEF u
    <3>4. Modest(u)
      BY <1>0, <2>4, <3>0, <3>1, <3>2 DEF Modest
    <3>3. ~u.swapped => Within(u, Counts(t).tokens - u.before)
      <4>1. ~u.swapped => Within(turn[t], Counter(t).tokens - turn[t].before)
        BY <2>2, <3>1, <3>2
      <4> QED
        BY <2>3, <2>4, <3>0, <3>2, <4>1 DEF Within
    <3> QED
      BY <1>8, <2>0, <2>3, <3>1, <3>2, <3>3, <3>4
  <2>7. CASE StrayRecord(t)
    <3> DEFINE more == IF turn[t].on THEN turn[t].others + 1 ELSE turn[t].others
               made == turn[t].made + 1
               u == [turn[t] EXCEPT !.others = more, !.made = made]
    <3>1. /\ turn' = [turn EXCEPT ![t] = u] /\ turn[t].made < MaxUses
          /\ counter' = [counter EXCEPT ![t] = Counts(t)] \/ counter' = counter
      BY <2>7 DEF StrayRecord
    <3>2. more \in Nat /\ (turn[t].on => more = turn[t].others + 1) /\ (~turn[t].on => more = turn[t].others)
          /\ made \in Nat /\ made = turn[t].made + 1
      BY <2>4
    <3> HIDE DEF more, made
    <3>3. /\ u \in Uses /\ u.on = turn[t].on /\ u.before = turn[t].before /\ u.used = turn[t].used
          /\ u.others = more /\ u.swapped = turn[t].swapped /\ u.shown = turn[t].shown
          /\ u.made = made
      BY <2>0, <3>2 DEF Uses
    <3> HIDE DEF u
    <3>8. Modest(u)
      <4>1. more <= turn[t].others + 1
        BY <2>4, <3>2
      <4> QED
        BY <1>0, <2>4, <3>1, <3>2, <3>3, <4>1 DEF Modest
    <3>4. ~u.on /\ ~u.swapped => Within(u, u.shown)
      BY <2>2, <3>2, <3>3 DEF Within
    <3>5. u.on /\ ~u.swapped => /\ counter[t] # Unset /\ Counter(t) = counter[t]
                                /\ Within(u, Counter(t).tokens - u.before)
                                /\ Within(u, Counts(t).tokens - u.before)
      <4>1. u.on /\ ~u.swapped => counter[t] # Unset /\ Within(turn[t], Counter(t).tokens - turn[t].before)
        BY <2>2, <3>3
      <4>2. ASSUME u.on, Within(turn[t], Counter(t).tokens - turn[t].before)
            PROVE  Within(u, Counter(t).tokens - u.before) /\ Within(u, Counts(t).tokens - u.before)
        BY <2>3, <2>4, <3>2, <3>3, <4>2 DEF Within
      <4> QED
        BY <2>1, <4>1, <4>2
    <3>6. CASE counter' = [counter EXCEPT ![t] = Counts(t)]
      BY <1>8, <2>0, <2>3, <3>1, <3>3, <3>4, <3>5, <3>6, <3>8
    <3>7. CASE counter' = counter
      <4>1. counter' = [counter EXCEPT ![t] = counter[t]]
        BY <2>0, <3>7
      <4> QED
        BY <1>8, <2>0, <3>1, <3>3, <3>4, <3>5, <3>8, <4>1
    <3> QED
      BY <3>1, <3>6, <3>7
  <2>8. CASE StrayEnds(t)
    <3> DEFINE u == [turn[t] EXCEPT !.stray = "none"]
    <3>1. turn' = [turn EXCEPT ![t] = u] /\ counter' = [counter EXCEPT ![t] = counter[t]]
      BY <2>0, <2>8 DEF StrayEnds
    <3>2. /\ u \in Uses /\ u.on = turn[t].on /\ u.before = turn[t].before /\ u.used = turn[t].used
          /\ u.others = turn[t].others /\ u.swapped = turn[t].swapped /\ u.shown = turn[t].shown
          /\ u.made = turn[t].made
      BY <2>0 DEF Uses
    <3> HIDE DEF u
    <3>4. Modest(u)
      BY <2>4, <3>2 DEF Modest
    <3>3. /\ u.on /\ ~u.swapped => counter[t] # Unset /\ Within(u, counter[t].tokens - u.before)
          /\ ~u.on /\ ~u.swapped => Within(u, u.shown)
      BY <2>1, <2>2, <3>2 DEF Within
    <3> QED
      BY <1>8, <2>0, <3>1, <3>2, <3>3, <3>4
  <2>9. CASE EndUse(t)
    <3> DEFINE more == Counter(t).tokens - turn[t].before
               visible == IF more > 0 THEN more ELSE 0
    <3>1. PICK left \in {turn[t].stray, IF turn[t].swapped THEN "late" ELSE "works"} :
            turn' = [turn EXCEPT ![t] = [turn[t] EXCEPT !.on = FALSE, !.shown = visible, !.stray = left]]
      BY <2>9 DEF EndUse
    <3> DEFINE u == [turn[t] EXCEPT !.on = FALSE, !.shown = visible, !.stray = left]
    <3>2. counter' = [counter EXCEPT ![t] = Counter(t)] /\ turn[t].on /\ turn' = [turn EXCEPT ![t] = u]
      BY <2>9, <3>1 DEF EndUse
    <3>3. visible \in Nat /\ (Within(turn[t], more) => Within(turn[t], visible))
      BY <2>4 DEF Within
    <3>4. ~turn[t].swapped => Within(turn[t], visible)
      <4>1. ~turn[t].swapped => Within(turn[t], more)
        BY <2>2, <3>2
      <4> HIDE DEF more, visible
      <4> QED
        BY <3>3, <4>1
    <3>5. /\ u \in Uses /\ ~u.on /\ u.shown = visible /\ u.used = turn[t].used
          /\ u.others = turn[t].others /\ u.swapped = turn[t].swapped /\ u.made = turn[t].made
      <4>1. left \in {"none", "works", "late"}
        BY <2>0 DEF Uses
      <4> HIDE DEF visible
      <4> QED
        BY <2>0, <3>3, <4>1 DEF Uses
    <3> HIDE DEF u, visible
    <3>6. Modest(u) /\ (~u.swapped => Within(u, u.shown))
      BY <2>4, <3>4, <3>5 DEF Modest, Within
    <3> QED
      BY <1>8, <2>0, <2>1, <3>2, <3>5, <3>6
  <2> QED
    BY <1>9, <2>5, <2>6, <2>7, <2>8, <2>9
<1> QED
  BY <1>2, <1>3, <1>4, <1>5, <1>6, <1>7, <1>9 DEF SettingsNext

THEOREM BillInvariant == SettingsSpec => []BillInv
<1>1. SettingsInit => BillInv
  <2>1. SettingsInit => PriceTypes /\ LookupInv /\ PriceFresh
    BY DEF SettingsInit, PriceTypes, LookupInv, PriceFresh, NoLookup
  <2>2. SettingsInit => UsageTypes /\ UsedInv /\ CountersBillModel
    BY SettingsAssumption DEF SettingsInit, UsageTypes, Uses, UsedInv, Within, Modest,
       CountersBillModel, NoUse
  <2> QED
    BY <2>1, <2>2 DEF BillInv
<1>2. ASSUME ChoiceInv, ChoiceInv', BillInv, [SettingsNext]_settingsVars PROVE BillInv'
  <2>1. CASE SettingsNext
    BY <1>2, <2>1, PricesStay, UsesStay DEF BillInv, ChoiceInv
  <2>2. CASE UNCHANGED settingsVars
    BY <1>2, <2>2 DEF BillInv, PriceTypes, LookupInv, PriceFresh, UsageTypes, UsedInv, Within, Modest,
       CountersBillModel, settingsVars, choiceVars, priceVars, usageVars
  <2> QED
    BY <1>2, <2>1, <2>2
<1> QED
  BY <1>1, <1>2, ChoiceInvariant, PTL DEF SettingsSpec

\* Cached prices are the administrator's and counters bill the model in use, whatever
\* swaps, price changes, look-ups and calls interleave (PUT /admin/pricing,
\* _db_override_lookup, get_token_counter, turn_summary).
THEOREM BillsTrueHolds == SettingsSpec => []BillsTrue
<1>1. BillInv => BillsTrue
  BY DEF BillInv, BillsTrue
<1> QED
  BY <1>1, BillInvariant, PTL
=============================================================================
