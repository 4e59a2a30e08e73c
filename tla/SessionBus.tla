------------------------------ MODULE SessionBus ------------------------------
(***************************************************************************)
(* The event bus of one session (server/reporter.py) and its events table  *)
(* (server/db.py). Publishers are threads: publish() stores a row, then    *)
(* hands the event to the event loop, which queues it and, in one fan-out  *)
(* task, sends it to every subscribed socket in turn.                      *)
(***************************************************************************)
EXTENDS Integers, Sequences, SequencesExt, FiniteSets

CONSTANTS
  NumEvents,   \* bound: events published by threads
  Publishers,  \* the agent's thread, those of its sub-agents
  OwnerOf,     \* OwnerOf[e] is the thread that publishes event e
  Deltas,      \* the events whose kind is in _COALESCABLE
  MaxQueue,    \* MAX_QUEUE
  Clients,     \* the websockets that may subscribe
  MaxTime,     \* bound: the clock, in seconds
  Straddles,   \* may a second turn between the stamp of an event and its row?
  DbMayFail    \* may append_event raise?

Events   == 1 .. NumEvents
Greeting == 0             \* the context_update every new subscriber causes

ASSUME BusAssumption ==
  /\ NumEvents \in Nat /\ MaxTime \in Nat \ {0}
  /\ OwnerOf \in [Events -> Publishers]
  /\ Deltas \subseteq Events
  /\ MaxQueue \in Nat \ {0}
  /\ Straddles \in BOOLEAN
  /\ DbMayFail \in BOOLEAN

VARIABLES
  clock,    \* time.time(), in whole seconds
  issued,   \* events whose publish() has begun
  holding,  \* the frame a thread has stored and not yet handed to the loop
  table,    \* the rows of the events table
  late,     \* history: events stored in a later second than they are stamped with
  bound,    \* bind_loop was called
  handed,   \* _enqueue callbacks scheduled on the loop, with their frames
  queue,    \* _queue
  dropped,  \* dropped_count
  reached,  \* history: number of _enqueue callbacks ever scheduled
  sending,  \* the frame _fanout is sending and the sockets still to be served
  subs,     \* _subscribers
  fanned,   \* history: frames taken from the queue
  joined,   \* history: Len(fanned) when the socket subscribed, -1 before
  got       \* frames sent to each socket

publishVars == <<issued, holding, table, late>>
handoffVars == <<handed, reached>>
fanoutVars  == <<sending, fanned, got>>
busVars == <<clock, publishVars, bound, handoffVars, queue, dropped, fanoutVars,
             subs, joined>>

Frame == [ev : Events \cup {Greeting}, sec : 0 .. MaxTime]
Row   == [ev : Events \cup {Greeting}, at : 0 .. MaxTime]
None  == [ev |-> Greeting, sec |-> 0]

BusTypeOK ==
  /\ clock \in 1 .. MaxTime
  /\ issued \subseteq Events
  /\ holding \in [Publishers -> Frame]
  /\ table \subseteq Row
  /\ late \subseteq issued
  /\ bound \in BOOLEAN
  /\ handed \in Seq(Frame)
  /\ queue \in Seq(Frame) /\ Len(queue) <= MaxQueue
  /\ dropped \in Nat /\ reached \in Nat
  /\ sending \in [frame : Frame, to : SUBSET Clients]
  /\ subs \subseteq Clients
  /\ fanned \in Seq(Frame)
  /\ joined \in [Clients -> Nat \cup {-1}]
  /\ got \in [Clients -> Seq(Frame)]

\* A session that has an event from an earlier visit, and a new bus.
BusInit ==
  /\ clock = 1
  /\ issued = {}
  /\ holding = [p \in Publishers |-> None]
  /\ table = {[ev |-> Greeting, at |-> 1]}
  /\ late = {}
  /\ bound = FALSE
  /\ handed = <<>>
  /\ queue = <<>>
  /\ dropped = 0 /\ reached = 0
  /\ sending = [frame |-> None, to |-> {}]
  /\ subs = {}
  /\ fanned = <<>>
  /\ joined = [s \in Clients |-> -1]
  /\ got = [s \in Clients |-> <<>>]

Tick ==
  /\ clock < MaxTime
  /\ clock' = clock + 1
  /\ UNCHANGED <<publishVars, bound, handoffVars, queue, dropped, fanoutVars,
                 subs, joined>>

-----------------------------------------------------------------------------
(* publish, in the thread of p.                                            *)

\* append_event; what it raises is swallowed.
Store(e) ==
  \/ table' = table \cup {[ev |-> e, at |-> clock]}
  \/ DbMayFail /\ table' = table

\* p's next event: stamped with ts, perhaps just before the second turns, and
\* stored.
Record(p) ==
  /\ holding[p] = None
  /\ \E e \in Events \ issued, sec \in {clock} \cup (IF Straddles THEN {clock - 1} ELSE {}) :
       /\ OwnerOf[e] = p
       /\ \A d \in Events \ issued : OwnerOf[d] = p => e <= d
       /\ issued' = issued \cup {e}
       /\ holding' = [holding EXCEPT ![p] = [ev |-> e, sec |-> sec]]
       /\ Store(e)
       /\ late' = IF sec < clock THEN late \cup {e} ELSE late
  /\ UNCHANGED <<clock, bound, handoffVars, queue, dropped, fanoutVars, subs,
                 joined>>

\* call_soon_threadsafe: _enqueue will run on the loop.
Schedule(f) ==
  /\ handed' = Append(handed, f)
  /\ reached' = reached + 1

\* Mutant: the thread queues the frame itself while there is room.
HandOverDirect(p) ==
  /\ holding[p] # None
  /\ IF bound /\ Len(queue) < MaxQueue
     THEN /\ queue' = Append(queue, holding[p])
          /\ reached' = reached + 1
          /\ UNCHANGED handed
     ELSE /\ IF bound THEN Schedule(holding[p]) ELSE UNCHANGED handoffVars
          /\ UNCHANGED queue
  /\ holding' = [holding EXCEPT ![p] = None]
  /\ UNCHANGED <<clock, issued, table, late, bound, dropped, fanoutVars, subs,
                 joined>>

\* The rest of publish: to the loop, if there is one to call.
HandOver(p) ==
  /\ holding[p] # None
  /\ IF bound THEN Schedule(holding[p]) ELSE UNCHANGED handoffVars
  /\ holding' = [holding EXCEPT ![p] = None]
  /\ UNCHANGED <<clock, issued, table, late, bound, queue, dropped, fanoutVars,
                 subs, joined>>

\* run_turn binds the bus, when no stream has done so before.
Bind ==
  /\ ~bound
  /\ bound' = TRUE
  /\ UNCHANGED <<clock, publishVars, handoffVars, queue, dropped, fanoutVars, subs,
                 joined>>

-----------------------------------------------------------------------------
(* _enqueue and _fanout, on the event loop.                                *)

Coalescable(f) == f.ev \in Deltas \cup {Greeting}

\* Mutant: the oldest frame goes, whatever its kind.
EvictAny(q) == {1}

\* The frame _evict_one removes: the oldest coalescable one, if there is one.
Evict(q) ==
  {i \in DOMAIN q : /\ Coalescable(q[i])
                    /\ \A j \in 1 .. i - 1 : ~Coalescable(q[j])}

\* Mutant: room is made without removing a frame.
EnqueueUnevicted ==
  /\ handed # <<>>
  /\ handed' = Tail(handed)
  /\ \/ /\ Len(queue) < MaxQueue \/ Evict(queue) # {}
        /\ queue' = Append(queue, Head(handed))
        /\ UNCHANGED dropped
     \/ /\ Len(queue) = MaxQueue
        /\ Evict(queue) = {}
        /\ dropped' = dropped + 1
        /\ UNCHANGED queue
  /\ UNCHANGED <<clock, publishVars, bound, reached, fanoutVars, subs, joined>>

\* Mutant: an incoming frame that finds no room is not counted.
EnqueueUncounted ==
  /\ handed # <<>>
  /\ handed' = Tail(handed)
  /\ \/ /\ Len(queue) < MaxQueue
        /\ queue' = Append(queue, Head(handed))
        /\ UNCHANGED dropped
     \/ /\ Len(queue) = MaxQueue
        /\ \E i \in Evict(queue) :
             queue' = Append(RemoveAt(queue, i), Head(handed))
        /\ dropped' = dropped + 1
     \/ /\ Len(queue) = MaxQueue
        /\ Evict(queue) = {}
        /\ UNCHANGED <<queue, dropped>>
  /\ UNCHANGED <<clock, publishVars, bound, reached, fanoutVars, subs, joined>>

\* Room for the frame, room made by evicting another, or no room.
Enqueue ==
  /\ handed # <<>>
  /\ handed' = Tail(handed)
  /\ \/ /\ Len(queue) < MaxQueue
        /\ queue' = Append(queue, Head(handed))
        /\ UNCHANGED dropped
     \/ /\ Len(queue) = MaxQueue
        /\ \E i \in Evict(queue) :
             queue' = Append(RemoveAt(queue, i), Head(handed))
        /\ dropped' = dropped + 1
     \/ /\ Len(queue) = MaxQueue
        /\ Evict(queue) = {}
        /\ dropped' = dropped + 1
        /\ UNCHANGED queue
  /\ UNCHANGED <<clock, publishVars, bound, reached, fanoutVars, subs, joined>>

\* Mutant: the next frame is taken before every socket was served.
FanoutTakeEarly ==
  /\ queue # <<>>
  /\ queue' = Tail(queue)
  /\ sending' = [frame |-> Head(queue), to |-> subs]
  /\ fanned' = Append(fanned, Head(queue))
  /\ UNCHANGED <<clock, publishVars, bound, handoffVars, dropped, got, subs,
                 joined>>

\* queue.get() and the snapshot of the subscribers.
FanoutTake ==
  /\ sending.to = {}
  /\ queue # <<>>
  /\ queue' = Tail(queue)
  /\ sending' = [frame |-> Head(queue), to |-> subs]
  /\ fanned' = Append(fanned, Head(queue))
  /\ UNCHANGED <<clock, publishVars, bound, handoffVars, dropped, got, subs,
                 joined>>

\* await ws.send_text(text). (One to a socket its handler has unsubscribed since the
\* snapshot goes nowhere: FanoutFails.)
FanoutSend(s) ==
  /\ s \in sending.to \cap subs
  /\ got' = [got EXCEPT ![s] = Append(@, sending.frame)]
  /\ sending' = [sending EXCEPT !.to = @ \ {s}]
  /\ UNCHANGED <<clock, publishVars, bound, handoffVars, queue, dropped, fanned,
                 subs, joined>>

\* send_text raises: the connection is broken, and the socket is unsubscribed.
FanoutFails(s) ==
  /\ s \in sending.to
  /\ sending' = [sending EXCEPT !.to = @ \ {s}]
  /\ subs' = subs \ {s}
  /\ UNCHANGED <<clock, publishVars, bound, handoffVars, queue, dropped, fanned,
                 got, joined>>

-----------------------------------------------------------------------------
(* The handler of the stream endpoint (server/app.py), on the event loop.  *)

\* The handshake is over: bind, subscribe, publish a context_update.
Subscribe(s) ==
  /\ joined[s] = -1
  /\ bound' = TRUE
  /\ subs' = subs \cup {s}
  /\ joined' = [joined EXCEPT ![s] = Len(fanned)]
  /\ Store(Greeting)
  /\ Schedule([ev |-> Greeting, sec |-> clock])
  /\ UNCHANGED <<clock, issued, holding, late, queue, dropped, fanoutVars>>

\* The handler saw the disconnect.
Unsubscribe(s) ==
  /\ s \in subs
  /\ subs' = subs \ {s}
  /\ UNCHANGED <<clock, publishVars, bound, handoffVars, queue, dropped, fanoutVars,
                 joined>>

-----------------------------------------------------------------------------
\* What the threads and the loop do by themselves.
BusStep ==
  \/ \E p \in Publishers : Record(p) \/ HandOver(p)
  \/ Bind
  \/ Enqueue \/ FanoutTake

\* The bus with sockets that come and go as they like.
BusNext ==
  \/ Tick
  \/ BusStep
  \/ \E s \in Clients : FanoutSend(s) \/ FanoutFails(s) \/ Subscribe(s) \/ Unsubscribe(s)

BusSpec == BusInit /\ [][BusNext]_busVars

-----------------------------------------------------------------------------
\* dropped_count misses nothing: every frame that was handed to the loop is still
\* to be queued, is queued, was sent on its way, or was counted.
NoFrameUncounted ==
  reached = Len(handed) + Len(queue) + Len(fanned) + dropped

\* A lifecycle frame in the queue leaves it only when the fan-out takes it, and
\* only from the front: a tool never jumps from "running" to "done" for a client
\* that keeps up.
KeepsLifecycle ==
  [][\A i \in DOMAIN queue :
       ~Coalescable(queue[i]) =>
         \/ \E j \in DOMAIN queue' : j <= i /\ queue'[j] = queue[i]
         \/ /\ i = 1
            /\ fanned' = Append(fanned, queue[1])]_busVars

\* Every subscriber is sent the same frames in the same order, without a gap,
\* from the moment it subscribed.
StreamIsSuffix ==
  \A s \in subs :
    got[s] = SubSeq(fanned, joined[s] + 1,
                    Len(fanned) - IF s \in sending.to THEN 1 ELSE 0)

\* What one thread published reaches the sockets in the order it published it,
\* although threads, loop callbacks and evictions interleave.
ThreadOrder ==
  \A i, j \in DOMAIN fanned :
    /\ i < j
    /\ fanned[i].ev # Greeting /\ fanned[j].ev # Greeting
    /\ OwnerOf[fanned[i].ev] = OwnerOf[fanned[j].ev]
    => fanned[i].ev < fanned[j].ev
=============================================================================
