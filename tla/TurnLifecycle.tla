---------------------------- MODULE TurnLifecycle ----------------------------
(***************************************************************************)
(* The turns of ONE chat session: POST /messages handlers, the cancel      *)
(* endpoint, the run_turn tasks they start on the asyncio loop, the worker *)
(* thread each task hands `_drive` to, and what they share: the            *)
(* `_active_turns` entry of the session and its LangGraph checkpoint.      *)
(*                                                                         *)
(* An action on the loop is the code between two awaits, so loop actions   *)
(* never interleave with one another; worker threads interleave with       *)
(* everything, also with the steps of the cancel handler.                  *)
(*                                                                         *)
(* Turn t is the t-th POST the server receives, and its run_turn task.     *)
(***************************************************************************)
EXTENDS Naturals, Sequences, FiniteSets

CONSTANTS
  NumTurns,         \* bound: how many prompts the clients post
  Prompts,          \* prompt texts, told apart only by equality
  PromptOf,         \* PromptOf[t] is the text posted as turn t
  ConcurrentPosts,  \* may two POST handlers be in flight at the same time?
  LoopRace,         \* may a POST handler run between the end of a task and
                    \* its done-callback, both already queued on the loop?
  MayCompact        \* may the checkpointer summarise the history it saves?

Turns  == 1 .. NumTurns
NoTurn == 0

ASSUME TurnAssumption ==
  /\ NumTurns \in Nat \ {0}
  /\ PromptOf \in [Turns -> Prompts]
  /\ ConcurrentPosts \in BOOLEAN
  /\ LoopRace \in BOOLEAN
  /\ MayCompact \in BOOLEAN

VARIABLES
  post,        \* the POST handler of each turn: idle, waiting for prev, accepted
  waitsFor,    \* the task a waiting POST handler cancelled and awaits
  registry,    \* _active_turns[session_id]
  pc,          \* where each run_turn task is suspended
  cancelReq,   \* task.cancel() was called on the task
  callback,    \* the task is done and its done-callback is still queued
  worker,      \* the executor thread running _drive for the turn
  flag,        \* _turn_cancelled of the turn
  mem,         \* the graph run's own copy of state["messages"]
  ckpt,        \* state["messages"] of the latest checkpoint of the thread_id
  opened,      \* the user row and the user_message event were written
  done,        \* number of assistant_text(done=True) events of the turn
  summary,     \* number of turn_summary events of the turn
  answer,      \* the turn whose text was persisted as this turn's answer
  breadcrumb,  \* the "[cancelled by user]" or "[error] ..." row of the turn
  touched,     \* reporter.changed_paths is non-empty
  committed,   \* the auto-commit of the turn ran
  held         \* prior_msgs of the cancel handler at work

requestVars == <<post, waitsFor, registry>>
taskVars    == <<pc, cancelReq, callback>>
graphVars   == <<worker, mem, ckpt, touched>>
outputVars  == <<opened, done, summary, answer, breadcrumb>>
vars == <<requestVars, taskVars, flag, graphVars, outputVars, committed, held>>

PostStates   == {"idle", "waiting", "accepted"}
TaskStates   == {"none", "created", "driving", "cancelling", "saving",
                 "ports", "commit", "ended"}
WorkerStates == {"none", "queued", "seeding", "running", "finalising",
                 "returned", "raised", "dropped"}
\* "ai" is a model message with visible text, "thought" one without.
Item == [role : {"human", "ai", "thought", "digest"}, turn : Turns]

TypeOK ==
  /\ post \in [Turns -> PostStates]
  /\ waitsFor \in [Turns -> Turns \cup {NoTurn}]
  /\ registry \in Turns \cup {NoTurn}
  /\ pc \in [Turns -> TaskStates]
  /\ cancelReq \in [Turns -> BOOLEAN]
  /\ callback \in [Turns -> BOOLEAN]
  /\ worker \in [Turns -> WorkerStates]
  /\ flag \in [Turns -> BOOLEAN]
  /\ mem \in [Turns -> Seq(Item)]
  /\ ckpt \in Seq(Item)
  /\ opened \in [Turns -> BOOLEAN]
  /\ done \in [Turns -> 0 .. 2]
  /\ summary \in [Turns -> 0 .. 1]
  /\ answer \in [Turns -> Turns \cup {NoTurn}]
  /\ breadcrumb \in [Turns -> {"none", "cancelled", "error"}]
  /\ touched \in [Turns -> BOOLEAN]
  /\ committed \in [Turns -> BOOLEAN]
  /\ held \in Seq(Item)

Init ==
  /\ post = [t \in Turns |-> "idle"]
  /\ waitsFor = [t \in Turns |-> NoTurn]
  /\ registry = NoTurn
  /\ pc = [t \in Turns |-> "none"]
  /\ cancelReq = [t \in Turns |-> FALSE]
  /\ callback = [t \in Turns |-> FALSE]
  /\ worker = [t \in Turns |-> "none"]
  /\ flag = [t \in Turns |-> FALSE]
  /\ mem = [t \in Turns |-> <<>>]
  /\ ckpt = <<>>
  /\ opened = [t \in Turns |-> FALSE]
  /\ done = [t \in Turns |-> 0]
  /\ summary = [t \in Turns |-> 0]
  /\ answer = [t \in Turns |-> NoTurn]
  /\ breadcrumb = [t \in Turns |-> "none"]
  /\ touched = [t \in Turns |-> FALSE]
  /\ committed = [t \in Turns |-> FALSE]
  /\ held = <<>>

\* task.done() is false.
Live(t) == pc[t] \notin {"none", "ended"}

\* `prev is not None and not prev.done()`, also the test of the cancel endpoint.
InFlight == registry # NoTurn /\ Live(registry)

\* The graph run of t may still write the checkpoint or emit events.
Working(t) == worker[t] \in {"seeding", "running", "finalising"}

\* The loop thread is not inside the cancel handler of some task.
LoopFree == \A t \in Turns : pc[t] \notin {"cancelling", "saving"}

-----------------------------------------------------------------------------
(* POST /api/sessions/{id}/messages and /cancel (app.py).                  *)

\* asyncio.create_task(run_turn(...)); _active_turns[sid] = task; 202.
CreateTask(t) ==
  /\ post' = [post EXCEPT ![t] = "accepted"]
  /\ registry' = t
  /\ pc' = [pc EXCEPT ![t] = "created"]

\* Requests are numbered in the order in which the server receives them.
Arrives(t) ==
  /\ LoopFree
  /\ post[t] = "idle"
  /\ \A s \in Turns : s < t => post[s] # "idle"
  /\ ConcurrentPosts \/ \A s \in Turns : post[s] # "waiting"
  /\ LoopRace \/ \A s \in Turns : ~callback[s]

\* Mutant: the in-flight turn is not looked up.
PostFreshAlways(t) ==
  /\ Arrives(t)
  /\ CreateTask(t)
  /\ UNCHANGED <<waitsFor, cancelReq, callback, flag, graphVars, outputVars,
                 committed, held>>

\* prev = _active_turns.get(sid) is missing or done: start at once.
PostFresh(t) ==
  /\ Arrives(t)
  /\ ~InFlight
  /\ CreateTask(t)
  /\ UNCHANGED <<waitsFor, cancelReq, callback, flag, graphVars, outputVars,
                 committed, held>>

\* prev is in flight: prev.cancel(), then await it.
PostInterrupt(t) ==
  /\ Arrives(t)
  /\ InFlight
  /\ cancelReq' = [cancelReq EXCEPT ![registry] = TRUE]
  /\ post' = [post EXCEPT ![t] = "waiting"]
  /\ waitsFor' = [waitsFor EXCEPT ![t] = registry]
  /\ UNCHANGED <<registry, pc, callback, flag, graphVars, outputVars, committed, held>>

\* await asyncio.wait_for(asyncio.shield(prev), 2.0) is over: prev is done and
\* its callbacks, of which the registry pop came first, have run. The timeout
\* cannot win: a cancelled run_turn reaches its end without another await, in
\* the loop iteration after cancel(), before any later timer is looked at.
PostResume(t) ==
  /\ LoopFree
  /\ post[t] = "waiting"
  /\ pc[waitsFor[t]] = "ended"
  /\ ~callback[waitsFor[t]]
  /\ CreateTask(t)
  /\ waitsFor' = [waitsFor EXCEPT ![t] = NoTurn]
  /\ UNCHANGED <<cancelReq, callback, flag, graphVars, outputVars,
                 committed, held>>

\* POST /cancel with a registered, unfinished task.
CancelTurn ==
  /\ LoopFree
  /\ InFlight
  /\ cancelReq' = [cancelReq EXCEPT ![registry] = TRUE]
  /\ UNCHANGED <<requestVars, pc, callback, flag, graphVars, outputVars,
                 committed, held>>

\* task.add_done_callback(lambda: _active_turns.pop(sid, None)): pops whatever
\* entry the session has, not the entry of this task.
DoneCallback(t) ==
  /\ LoopFree
  /\ callback[t]
  /\ callback' = [callback EXCEPT ![t] = FALSE]
  /\ registry' = NoTurn
  /\ UNCHANGED <<post, waitsFor, pc, cancelReq, flag, graphVars, outputVars,
                 committed, held>>

-----------------------------------------------------------------------------
(* run_turn on the event loop (session_runner.py).                         *)

EndTask(t) ==
  /\ pc' = [pc EXCEPT ![t] = "ended"]
  /\ callback' = [callback EXCEPT ![t] = TRUE]

\* First step: the user row, the user_message event, hand _drive to the pool.
TaskStart(t) ==
  /\ LoopFree
  /\ pc[t] = "created"
  /\ ~cancelReq[t]
  /\ opened' = [opened EXCEPT ![t] = TRUE]
  /\ pc' = [pc EXCEPT ![t] = "driving"]
  /\ worker' = [worker EXCEPT ![t] = "queued"]
  /\ UNCHANGED <<requestVars, cancelReq, callback, flag, mem, ckpt, touched,
                 done, summary, answer, breadcrumb, committed, held>>

\* The task ends before it has published anything: cancel() came before its first
\* step, so that CancelledError is thrown into a coroutine that has not begun, or
\* its first statement, which writes the user row, raises.
TaskNeverStarts(t) ==
  /\ LoopFree
  /\ pc[t] = "created"
  /\ EndTask(t)
  /\ UNCHANGED <<requestVars, cancelReq, flag, graphVars, outputVars, committed, held>>

\* The executor future has a result: turn_summary, then the port clean-up.
TaskAnswered(t) ==
  /\ LoopFree
  /\ pc[t] = "driving"
  /\ ~cancelReq[t]
  /\ worker[t] = "returned"
  /\ summary' = [summary EXCEPT ![t] = @ + 1]
  /\ pc' = [pc EXCEPT ![t] = "ports"]
  /\ UNCHANGED <<requestVars, cancelReq, callback, flag, graphVars, opened,
                 done, answer, breadcrumb, committed, held>>

\* Mutant: the error path does not end the text stream.
TaskErrorStreaming(t) ==
  /\ LoopFree
  /\ pc[t] = "driving"
  /\ ~cancelReq[t]
  /\ worker[t] = "raised"
  /\ breadcrumb' = [breadcrumb EXCEPT ![t] = "error"]
  /\ summary' = [summary EXCEPT ![t] = @ + 1]
  /\ EndTask(t)
  /\ UNCHANGED <<requestVars, cancelReq, flag, graphVars, opened, done, answer,
                 committed, held>>

\* `except Exception`: error, assistant_text(done), the row, turn_summary.
TaskError(t) ==
  /\ LoopFree
  /\ pc[t] = "driving"
  /\ ~cancelReq[t]
  /\ worker[t] = "raised"
  /\ done' = [done EXCEPT ![t] = @ + 1]
  /\ breadcrumb' = [breadcrumb EXCEPT ![t] = "error"]
  /\ summary' = [summary EXCEPT ![t] = @ + 1]
  /\ EndTask(t)
  /\ UNCHANGED <<requestVars, cancelReq, flag, graphVars, opened, answer,
                 committed, held>>

\* What the cancel handler does first, for a task suspended in one of `states`.
CancelHandler(t, states) ==
  /\ LoopFree
  /\ pc[t] \in states
  /\ cancelReq[t]
  /\ flag' = [flag EXCEPT ![t] = TRUE]
  /\ done' = [done EXCEPT ![t] = @ + 1]
  /\ breadcrumb' = [breadcrumb EXCEPT ![t] = "cancelled"]
  /\ pc' = [pc EXCEPT ![t] = "cancelling"]
  /\ worker' = [worker EXCEPT ![t] = IF @ = "queued" THEN "dropped" ELSE @]
  /\ UNCHANGED <<requestVars, cancelReq, callback, mem, ckpt, touched, opened,
                 summary, answer, committed, held>>

\* Mutant: the try block also covers the two late awaits.
TaskCancelledAnywhere(t) == CancelHandler(t, {"driving", "ports", "commit"})

\* Mutant: the handler is entered only when the worker is through.
TaskCancelledJoin(t) == ~Working(t) /\ CancelHandler(t, {"driving"})

\* Mutant: CancelledError is not caught.
TaskCancelledUncaught(t) ==
  /\ LoopFree
  /\ pc[t] = "driving"
  /\ cancelReq[t]
  /\ EndTask(t)
  /\ UNCHANGED <<requestVars, cancelReq, flag, graphVars, outputVars, committed, held>>

\* `except CancelledError`, also when the future already has a result: the
\* flag, error, assistant_text(done) and the row. A queued _drive is withdrawn.
TaskCancelled(t) == CancelHandler(t, {"driving"})

\* What is left of a history h when turn t works on it: h, or one digest message
\* in its place (_compact_messages).
Saved(h, t) == {h} \cup IF MayCompact THEN {<<[role |-> "digest", turn |-> t]>>}
                                      ELSE {}

HasPrompt(h, t) ==
  \E i \in DOMAIN h : h[i].role = "human" /\ PromptOf[h[i].turn] = PromptOf[t]

Human(t) == [role |-> "human", turn |-> t]

\* The handler goes on in the same loop step, but concurrent with workers: the messages
\* of the latest checkpoint.
CancelRead(t) ==
  /\ pc[t] = "cancelling"
  /\ held' = ckpt
  /\ pc' = [pc EXCEPT ![t] = "saving"]
  /\ UNCHANGED <<requestVars, cancelReq, callback, flag, graphVars, outputVars, committed>>

\* Those messages replace the list, with the prompt on top unless they have one with
\* the same content; nothing is written when either call raised. turn_summary.
CancelPersist(t) ==
  /\ pc[t] = "saving"
  /\ ckpt' \in {ckpt} \cup IF HasPrompt(held, t) THEN {}
                                                ELSE Saved(Append(held, Human(t)), t)
  /\ held' = <<>>
  /\ summary' = [summary EXCEPT ![t] = @ + 1]
  /\ EndTask(t)
  /\ UNCHANGED <<requestVars, cancelReq, flag, worker, mem, touched, opened,
                 done, answer, breadcrumb, committed>>

\* stop_all_session_processes returned: auto-commit if files changed, else end.
PortsStopped(t) ==
  /\ LoopFree
  /\ pc[t] = "ports"
  /\ ~cancelReq[t]
  /\ IF touched[t]
     THEN /\ pc' = [pc EXCEPT ![t] = "commit"]
          /\ UNCHANGED callback
     ELSE EndTask(t)
  /\ touched' = [touched EXCEPT ![t] = FALSE]
  /\ UNCHANGED <<requestVars, cancelReq, flag, worker, mem, ckpt, outputVars,
                 committed, held>>

\* CancelledError at one of the two late awaits leaves run_turn at once. The
\* commit may be running in its thread by then, and then it completes.
LateCancel(t) ==
  /\ LoopFree
  /\ pc[t] \in {"ports", "commit"}
  /\ cancelReq[t]
  /\ EndTask(t)
  /\ \/ UNCHANGED committed
     \/ /\ pc[t] = "commit"
        /\ committed' = [committed EXCEPT ![t] = TRUE]
  /\ UNCHANGED <<requestVars, cancelReq, flag, graphVars, outputVars, held>>

\* _autocommit_and_maybe_push returned (it swallows its own failures).
Committed(t) ==
  /\ LoopFree
  /\ pc[t] = "commit"
  /\ ~cancelReq[t]
  /\ committed' = [committed EXCEPT ![t] = TRUE]
  /\ EndTask(t)
  /\ UNCHANGED <<requestVars, cancelReq, flag, graphVars, outputVars, held>>

-----------------------------------------------------------------------------
(* _drive in the worker thread (session_runner.py). Nothing interrupts it. *)

WorkerMoves(t, from, to) ==
  /\ worker[t] = from
  /\ worker' = [worker EXCEPT ![t] = to]

\* The run's own list goes away when _drive returns or raises.
Forget(t) == mem' = [mem EXCEPT ![t] = <<>>]

\* Mutant: the prior messages are not read.
WorkerReadFresh(t) ==
  /\ WorkerMoves(t, "queued", "seeding")
  /\ mem' = [mem EXCEPT ![t] = <<Human(t)>>]
  /\ UNCHANGED <<requestVars, taskVars, flag, ckpt, touched, outputVars,
                 committed, held>>

\* prior_messages = get_state(...)["messages"]; the prompt goes on top.
WorkerRead(t) ==
  /\ WorkerMoves(t, "queued", "seeding")
  /\ mem' = [mem EXCEPT ![t] = Append(ckpt, Human(t))]
  /\ UNCHANGED <<requestVars, taskVars, flag, ckpt, touched, outputVars,
                 committed, held>>

\* graph.stream(initial_state): the input checkpoint. CompactingCheckpointer.put
\* may save a digest while the running graph keeps its full list.
WorkerSeed(t) ==
  /\ WorkerMoves(t, "seeding", "running")
  /\ ckpt' \in Saved(mem[t], t)
  /\ UNCHANGED <<requestVars, taskVars, flag, mem, touched, outputVars,
                 committed, held>>

\* The graph loop, up to and including the message that ends it: maybe_compact,
\* the model's message, put. One message stands for all of them (bound).
WorkerReply(t) ==
  /\ worker[t] = "running"
  /\ \A i \in DOMAIN mem[t] :
       mem[t][i].turn = t => mem[t][i].role \notin {"ai", "thought"}
  /\ \E h \in Saved(mem[t], t), role \in {"ai", "thought"} :
       mem' = [mem EXCEPT ![t] = Append(h, [role |-> role, turn |-> t])]
  /\ ckpt' \in Saved(mem'[t], t)
  /\ \E files \in BOOLEAN : touched' = [touched EXCEPT ![t] = files]
  /\ UNCHANGED <<requestVars, taskVars, flag, worker, outputVars, committed, held>>

Replied(t) ==
  \E i \in DOMAIN mem[t] : mem[t][i] \in [role : {"ai", "thought"}, turn : {t}]

\* Mutant: no look at _turn_cancelled.
WorkerFinishUnchecked(t) ==
  /\ Replied(t)
  /\ WorkerMoves(t, "running", "finalising")
  /\ UNCHANGED <<requestVars, taskVars, flag, mem, ckpt, touched, outputVars,
                 committed, held>>

\* The stream is exhausted: `if _turn_cancelled.is_set(): return 0`.
WorkerFinish(t) ==
  /\ Replied(t)
  /\ IF flag[t]
     THEN WorkerMoves(t, "running", "returned") /\ Forget(t)
     ELSE WorkerMoves(t, "running", "finalising") /\ UNCHANGED mem
  /\ UNCHANGED <<requestVars, taskVars, flag, ckpt, touched, outputVars,
                 committed, held>>

\* i is where _final_assistant_text finds the last visible model text.
LastText(h, i) ==
  /\ h[i].role = "ai"
  /\ \A j \in DOMAIN h : j > i => h[j].role # "ai"

\* It finds none, or stops at a message that is nothing but <think> text, which
\* is stripped afterwards; a reasoning block of its own is passed over.
NoFinalText(h) ==
  \/ \A i \in DOMAIN h : h[i].role # "ai"
  \/ \E i \in DOMAIN h : /\ h[i].role = "thought"
                        /\ \A j \in DOMAIN h : j > i => h[j].role # "ai"

\* final = get_state(...); the assistant row, if there is text; assistant_text(done).
WorkerPersist(t) ==
  /\ WorkerMoves(t, "finalising", "returned")
  /\ \/ \E i \in DOMAIN ckpt : /\ LastText(ckpt, i)
                               /\ answer' = [answer EXCEPT ![t] = ckpt[i].turn]
     \/ /\ NoFinalText(ckpt)
        /\ UNCHANGED answer
  /\ done' = [done EXCEPT ![t] = @ + 1]
  /\ Forget(t)
  /\ UNCHANGED <<requestVars, taskVars, flag, ckpt, touched, opened, summary,
                 breadcrumb, committed, held>>

\* Mutant: something after the answer was written can still raise.
WorkerFailLate(t) ==
  /\ worker[t] \in {"seeding", "running", "finalising", "returned"}
  /\ pc[t] = "driving"
  /\ WorkerMoves(t, worker[t], "raised")
  /\ Forget(t)
  /\ UNCHANGED <<requestVars, taskVars, flag, ckpt, touched, outputVars,
                 committed, held>>

\* Anything _drive calls raises before the answer is written.
WorkerFail(t) ==
  /\ worker[t] \in {"seeding", "running", "finalising"}
  /\ WorkerMoves(t, worker[t], "raised")
  /\ Forget(t)
  /\ UNCHANGED <<requestVars, taskVars, flag, ckpt, touched, outputVars,
                 committed, held>>

-----------------------------------------------------------------------------
Request(t) == PostFresh(t) \/ PostInterrupt(t)

LoopStep(t) ==
  \/ PostResume(t) \/ DoneCallback(t)
  \/ TaskStart(t) \/ TaskNeverStarts(t) \/ TaskAnswered(t) \/ TaskError(t)
  \/ TaskCancelled(t) \/ CancelRead(t) \/ CancelPersist(t) \/ LateCancel(t)

ThreadStep(t) ==
  \/ WorkerRead(t) \/ WorkerSeed(t) \/ WorkerReply(t) \/ WorkerFinish(t)
  \/ WorkerPersist(t) \/ WorkerFail(t)
  \/ PortsStopped(t) \/ Committed(t)

Next ==
  \/ \E t \in Turns : Request(t) \/ LoopStep(t) \/ ThreadStep(t)
  \/ CancelTurn

Spec == Init /\ [][Next]_vars

\* The loop keeps running what is ready; nothing is said of threads.
LoopFairness == \A t \in Turns : WF_vars(LoopStep(t))
LoopSpec == Spec /\ LoopFairness

\* Threads end too: model calls, tools and the graph loop are all bounded.
ThreadFairness == \A t \in Turns : WF_vars(ThreadStep(t))

-----------------------------------------------------------------------------
(* What the code keeps, whatever the interleaving.                         *)

\* run_turn is past the point where every path has published turn_summary.
Closed(t) == opened[t] /\ pc[t] \in {"ports", "commit", "ended"}

\* A turn that began and is past its finalizer has exactly one turn_summary and
\* was told to stop streaming before it; a turn that was not cancelled was told
\* so exactly once (run_turn's lifecycle invariant, minus the cancel race).
ClosesOnce ==
  \A t \in Turns :
    /\ summary[t] = (IF Closed(t) THEN 1 ELSE 0)
    /\ Closed(t) => done[t] >= 1
    /\ Closed(t) /\ ~flag[t] => done[t] = 1

\* A turn never has both an [error] row and an answer, and only a cancelled turn
\* has a breadcrumb beside an answer; a closed turn without a breadcrumb is one
\* whose worker got to the end.
RowsAgree ==
  \A t \in Turns :
    /\ breadcrumb[t] = "cancelled" <=> flag[t]
    /\ breadcrumb[t] = "error" => answer[t] = NoTurn /\ worker[t] = "raised"
    /\ answer[t] # NoTurn => worker[t] = "returned"
    /\ Closed(t) /\ breadcrumb[t] = "none" => worker[t] = "returned"

\* Once the cancel handler has set the flag, a worker that had not passed its
\* check persists nothing any more: only one already past it can add a row.
NoLateAnswer ==
  [][\A t \in Turns :
       flag[t] /\ worker[t] # "finalising" =>
         /\ answer'[t] = answer[t]
         /\ worker'[t] # "finalising"]_vars

\* While one POST at a time is in flight and no handler slips in before a
\* callback, cancel-and-wait serialises the turns: never two unfinished tasks,
\* and _active_turns names the unfinished one.
Serialised ==
  /\ \A s, t \in Turns : Live(s) /\ Live(t) => s = t
  /\ \A t \in Turns : Live(t) => registry = t

\* As long as no turn was cancelled, each graph run reads back its own work: no
\* other thread writes the checkpoint between its seed and its final get_state.
UncancelledIsolated ==
  (\A s \in Turns : ~flag[s]) =>
    \A t \in Turns :
      worker[t] = "finalising" =>
        \/ ckpt = mem[t]
        \/ ckpt = <<[role |-> "digest", turn |-> t]>>

\* As long as no turn was cancelled, what an earlier turn asked is still in the
\* history a later graph run starts from, unless a digest replaced it or the
\* turn failed before its input checkpoint.
PromptsReachLaterTurns ==
  (\A s \in Turns : ~flag[s]) =>
    \A s, t \in Turns :
      s < t /\ answer[s] # NoTurn /\ worker[t] \in {"seeding", "running"} =>
        \/ HasPrompt(mem[t], s)
        \/ \E i \in DOMAIN mem[t] : mem[t][i].role = "digest"

\* As long as no turn was cancelled, the session has one history, and every turn works
\* on it.
HistoryKept == UncancelledIsolated /\ PromptsReachLaterTurns

\* A cancelled turn ends although its worker never does: cancelling and the POST
\* that waits for it depend on the loop alone.
CancelEnds == \A t \in Turns : (cancelReq[t] /\ Live(t)) ~> ~Live(t)

-----------------------------------------------------------------------------
(* The published events, read as TurnPromise.                              *)

phaseBar == [t \in Turns |->
  CASE summary[t] = 1                -> "closed"
    [] summary[t] = 0 /\ opened[t]   -> "open"
    [] ~opened[t] /\ pc[t] = "none"  -> "unseen"
    [] ~opened[t] /\ pc[t] = "ended" -> "withdrawn"
    [] OTHER                         -> "accepted"]

verdictBar == [t \in Turns |->
  IF summary[t] = 0 THEN "none"
  ELSE IF breadcrumb[t] = "none" THEN "answered" ELSE breadcrumb[t]]

Promise == INSTANCE TurnPromise WITH phase <- phaseBar, verdict <- verdictBar

\* The session keeps TurnPromise: an accepted prompt is withdrawn, or opened and
\* closed once with a verdict that no later step of a worker changes.
KeepsPromise == Promise!SafeSpec

\* When threads end too, every accepted prompt gets that far, and every turn that
\* was opened is closed.
PromiseFulfilled == ThreadFairness => Promise!Fairness

-----------------------------------------------------------------------------
(* What the comments promise and the code does not keep.                   *)

\* "T1 fully closes, then T2 starts on a clean checkpoint" (messages_post): no
\* older graph run is at work when a turn reads its history.
CleanCheckpoint ==
  \A t \in Turns :
    worker[t] = "seeding" => \A s \in Turns : s < t => ~Working(s)

\* The cancel-and-wait prevents "a SECOND concurrent run_turn task" (messages_post).
OneTurnAtATime == \A s, t \in Turns : Live(s) /\ Live(t) => s = t

\* The text stored as a turn's answer is one the model gave in that turn.
AnswerIsOwn == \A t \in Turns : answer[t] \in {NoTurn, t}
=============================================================================
