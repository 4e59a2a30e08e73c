----------------------------- MODULE ModelStream -----------------------------
(***************************************************************************)
(* One model call (agents/_timeouts.py 37-116, agents/nodes.py 394-500): up   *)
(* to MaxAttempts streams, each pulled by a producer thread of its own that     *)
(* fills a bounded queue, and a consumer that aggregates what it gets, shows it   *)
(* at once, and gives an attempt up when nothing arrives in time.  A producer       *)
(* that is given up notices between two chunks; one that hangs in the provider's     *)
(* stream does not.                                                                    *)
(***************************************************************************)
EXTENDS Integers, Sequences

CONSTANTS
  MaxAttempts,  \* AGENT_LLM_RETRY_ATTEMPTS
  QueueSize,    \* 1024
  MaxChunks     \* chunks a stream yields at most

ASSUME StreamAssumption == {MaxAttempts, QueueSize, MaxChunks} \subseteq Nat \ {0}

VARIABLES
  queue,      \* of each attempt
  stop,       \* attempts whose stop event is set
  producer,   \* of each attempt: none, pulling, holding, offering, over
  hold,       \* the item a producer holds
  pulled,     \* chunks pulled from each stream
  attempt,    \* the attempt of the consumer, counted from 1
  consumer,   \* getting, backoff, returned, raised
  aggregate,  \* chunks of the answer so far
  shown,      \* what the user has seen: chunks and notices
  afterStop   \* history: chunks pulled after the stop event

streamVars == <<queue, stop, producer, hold, pulled, attempt, consumer, aggregate, shown, afterStop>>

Attempts == 1 .. MaxAttempts
Chunk(a, n) == [kind |-> "chunk", of |-> a, no |-> n]
Item(kind)  == [kind |-> kind, of |-> 0, no |-> 0]
Nothing     == Item("none")
Notice(a)   == [kind |-> "notice", of |-> a, no |-> 0]
Chunks(a, n) == [i \in 1 .. n |-> Chunk(a, i)]

StreamInit ==
  /\ queue = [a \in Attempts |-> <<>>] /\ stop = {}
  /\ producer = [a \in Attempts |-> IF a = 1 THEN "pulling" ELSE "none"]
  /\ hold = [a \in Attempts |-> Nothing]
  /\ pulled = [a \in Attempts |-> 0] /\ afterStop = [a \in Attempts |-> 0]
  /\ attempt = 1 /\ consumer = "getting" /\ aggregate = <<>> /\ shown = <<>>

----------------------------------------------------------------------------
\* _producer: the stream yields, ends or raises, a transient error or another one.
Pull(a) ==
  /\ producer[a] = "pulling"
  /\ producer' = [producer EXCEPT ![a] = "holding"]
  /\ \/ /\ pulled[a] < MaxChunks
        /\ pulled' = [pulled EXCEPT ![a] = @ + 1]
        /\ hold' = [hold EXCEPT ![a] = Chunk(a, pulled'[a])]
        /\ afterStop' = IF a \in stop THEN [afterStop EXCEPT ![a] = @ + 1] ELSE afterStop
     \/ /\ \E end \in {"done", "transient", "fatal"} : hold' = [hold EXCEPT ![a] = Item(end)]
        /\ UNCHANGED <<pulled, afterStop>>
  /\ UNCHANGED <<queue, stop, attempt, consumer, aggregate, shown>>

\* Between chunks, and before every put, the stop event is looked at.
LookAtStop(a) ==
  /\ producer[a] = "holding"
  /\ IF a \in stop
     THEN producer' = [producer EXCEPT ![a] = "over"] /\ hold' = [hold EXCEPT ![a] = Nothing]
     ELSE producer' = [producer EXCEPT ![a] = "offering"] /\ UNCHANGED hold
  /\ UNCHANGED <<queue, stop, pulled, attempt, consumer, aggregate, shown, afterStop>>

\* A full queue is looked at again after half a second; an error is followed by "done".
Put(a) ==
  /\ producer[a] = "offering"
  /\ IF Len(queue[a]) < QueueSize
     THEN /\ queue' = [queue EXCEPT ![a] = Append(@, hold[a])]
          /\ CASE hold[a].kind = "chunk" -> /\ producer' = [producer EXCEPT ![a] = "pulling"]
                                            /\ hold' = [hold EXCEPT ![a] = Nothing]
               [] hold[a].kind = "done"  -> /\ producer' = [producer EXCEPT ![a] = "over"]
                                            /\ hold' = [hold EXCEPT ![a] = Nothing]
               [] OTHER -> /\ producer' = [producer EXCEPT ![a] = "holding"]
                           /\ hold' = [hold EXCEPT ![a] = Item("done")]
     ELSE producer' = [producer EXCEPT ![a] = "holding"] /\ UNCHANGED <<queue, hold>>
  /\ UNCHANGED <<stop, pulled, attempt, consumer, aggregate, shown, afterStop>>

----------------------------------------------------------------------------
\* The consumer: _stream_with_retry around the generator.  However it leaves the
\* generator, the stop event is set.
Leaves == stop' = stop \cup {attempt}

GetChunk ==
  /\ consumer = "getting" /\ queue[attempt] # <<>> /\ Head(queue[attempt]).kind = "chunk"
  /\ aggregate' = Append(aggregate, Head(queue[attempt]))
  /\ shown' = Append(shown, Head(queue[attempt]))
  /\ queue' = [queue EXCEPT ![attempt] = Tail(@)]
  /\ UNCHANGED <<stop, producer, hold, pulled, attempt, consumer, afterStop>>

GetDone ==
  /\ consumer = "getting" /\ queue[attempt] # <<>> /\ Head(queue[attempt]).kind = "done"
  /\ consumer' = "returned" /\ Leaves
  /\ queue' = [queue EXCEPT ![attempt] = Tail(@)]
  /\ UNCHANGED <<producer, hold, pulled, attempt, aggregate, shown, afterStop>>

\* A transient error is announced and waited out, the last one is raised.
Fail(retryable) ==
  IF retryable /\ attempt < MaxAttempts
  THEN consumer' = "backoff" /\ shown' = Append(shown, Notice(attempt))
  ELSE consumer' = "raised" /\ UNCHANGED shown

GetError ==
  /\ consumer = "getting" /\ queue[attempt] # <<>>
  /\ Head(queue[attempt]).kind \in {"transient", "fatal"}
  /\ Fail(Head(queue[attempt]).kind = "transient") /\ Leaves
  /\ queue' = [queue EXCEPT ![attempt] = Tail(@)]
  /\ UNCHANGED <<producer, hold, pulled, attempt, aggregate, afterStop>>

IdleTimeout ==
  /\ consumer = "getting" /\ queue[attempt] = <<>>
  /\ Fail(TRUE) /\ Leaves
  /\ UNCHANGED <<queue, producer, hold, pulled, attempt, aggregate, afterStop>>

\* Mutant: what a failed attempt gave is kept.
RetryKeepsAggregate ==
  /\ consumer = "backoff"
  /\ attempt' = attempt + 1 /\ consumer' = "getting" /\ UNCHANGED aggregate
  /\ producer' = [producer EXCEPT ![attempt + 1] = "pulling"]
  /\ UNCHANGED <<queue, stop, hold, pulled, shown, afterStop>>

\* Each attempt starts with an aggregate of its own.
Retry ==
  /\ consumer = "backoff"
  /\ attempt' = attempt + 1 /\ consumer' = "getting" /\ aggregate' = <<>>
  /\ producer' = [producer EXCEPT ![attempt + 1] = "pulling"]
  /\ UNCHANGED <<queue, stop, hold, pulled, shown, afterStop>>

StreamNext ==
  \/ \E a \in Attempts : Pull(a) \/ LookAtStop(a) \/ Put(a)
  \/ GetChunk \/ GetDone \/ GetError \/ IdleTimeout \/ Retry

\* The consumer and the producers run; nothing is assumed of the provider.
StreamFairness ==
  /\ WF_streamVars(GetChunk \/ GetDone \/ GetError \/ IdleTimeout \/ Retry)
  /\ \A a \in Attempts : WF_streamVars(LookAtStop(a) \/ Put(a))

StreamSpec == StreamInit /\ [][StreamNext]_streamVars /\ StreamFairness

----------------------------------------------------------------------------
\* Types of queues, producers and consumer.
StreamTypeOK ==
  /\ stop \subseteq Attempts /\ attempt \in Attempts
  /\ consumer \in {"getting", "backoff", "returned", "raised"}
  /\ \A a \in Attempts :
       /\ Len(queue[a]) <= QueueSize /\ pulled[a] \in 0 .. MaxChunks
       /\ producer[a] \in {"none", "pulling", "holding", "offering", "over"}
       /\ producer[a] # "none" <=> a <= attempt

\* The answer is one attempt's stream without a gap, all of it once the call returns;
\* behind the last notice the user sees exactly the answer ("so a failed attempt's
\* partial state doesn't bleed into the next", nodes.py 407); and a producer that was
\* given up pulls no more than one chunk ("checks it between chunks", _timeouts.py 51).
AnswerIsOneAttempt ==
  /\ aggregate = Chunks(attempt, Len(aggregate))
  /\ consumer = "returned" => Len(aggregate) = pulled[attempt]
  /\ consumer # "backoff" =>
       /\ Len(shown) >= Len(aggregate)
       /\ SubSeq(shown, Len(shown) - Len(aggregate) + 1, Len(shown)) = aggregate
       /\ Len(shown) > Len(aggregate) => shown[Len(shown) - Len(aggregate)].kind = "notice"
  /\ \A a \in Attempts : afterStop[a] <= 1

\* Every model call returns or raises, whatever the provider's streams do (the idle
\* watchdog and the bounded retries).
CallEnds == <>(consumer \in {"returned", "raised"})
=============================================================================
