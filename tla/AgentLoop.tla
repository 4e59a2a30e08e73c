------------------------------ MODULE AgentLoop ------------------------------
(***************************************************************************)
(* The graph of agents/graph.py, run once per turn over the saved messages *)
(* of a session: node_agent calls the model, node_tools runs what it asked *)
(* for, node_gate decides whether the turn may end. A step is one super-   *)
(* step of the graph, routing included; a turn may be cut off between any  *)
(* two (cancel, model failure, restart) and the next one starts from what  *)
(* was saved.                                                              *)
(***************************************************************************)
EXTENDS ToolHistory

CONSTANTS
  MaxTurns,        \* bound: turns of the session
  RecursionLimit,  \* supersteps a turn may take
  MaxEmpty,        \* AGENT_MAX_EMPTY_CONTINUATIONS
  MaxNudges,       \* OJAS_VERIFY_GATE_MAX_NUDGES
  Budgets,         \* values OJAS_VERIFY_GATE_BUDGET_SECS may have
  Now,             \* time.time(), seconds since the epoch; the session takes no time
  GateOn,          \* OJAS_VERIFY_GATE
  TodoOn,          \* AGENT_TODO_REMINDER
  MayCompact       \* may a history cross the compaction threshold?

ASSUME LoopAssumption ==
  /\ NumIds \in Nat /\ MaxTurns \in Nat /\ RecursionLimit \in Nat
  /\ MaxEmpty \in Nat /\ MaxNudges \in Nat /\ Budgets \subseteq Nat /\ Now \in Nat
  /\ GateOn \in BOOLEAN /\ TodoOn \in BOOLEAN /\ MayCompact \in BOOLEAN

VARIABLES
  node,      \* the node to run next, or "idle" between turns
  hist,      \* state["messages"]
  empty,     \* empty_responses
  nudges,    \* gate_nudges
  started,   \* gate_started_at, -1 for None
  todos,     \* todo_finalize_nudges
  app,       \* the workspace: no app, or one that is verified ("green") or not
  plan,      \* the todo store: nothing left to do, or incomplete items
  budget,    \* OJAS_VERIFY_GATE_BUDGET_SECS of this installation
  issued,    \* tool_call ids handed out so far
  turn,      \* turns started
  steps,     \* supersteps of this turn
  outcome,   \* how the last turn ended
  idle,      \* history: model calls since tools last ran in this turn
  thoughts,  \* history: thinking-only responses in a row in this turn
  forced,    \* history: verify nudges this turn was given
  asked      \* history: this turn was asked about its plan

turnVars  == <<empty, nudges, started, todos>>
world     == <<app, plan, budget>>
histories == <<idle, thoughts, forced, asked>>
vars == <<node, hist, turnVars, world, issued, turn, steps, outcome, histories>>

TypeOK ==
  /\ node \in {"idle", "node_agent", "node_tools", "node_gate"}
  /\ hist \in Seq(Message)
  /\ empty \in Nat
  /\ nudges \in 0 .. MaxNudges
  /\ started \in Nat \cup {-1}
  /\ todos \in 0 .. 1
  /\ app \in {"none", "red", "green"}
  /\ plan \in {"clear", "open"}
  /\ issued \in 0 .. NumIds
  /\ turn \in 0 .. MaxTurns
  /\ steps \in 0 .. RecursionLimit
  /\ outcome \in {"none", "done", "failed"}
  /\ budget \in Budgets
  /\ idle \in Nat
  /\ thoughts \in Nat
  /\ forced \in Nat
  /\ asked \in BOOLEAN

Init ==
  /\ node = "idle"
  /\ hist = <<>>
  /\ empty = 0
  /\ nudges = 0
  /\ started = -1
  /\ todos = 0
  /\ app = "none"
  /\ plan = "clear"
  /\ issued = 0
  /\ turn = 0
  /\ steps = 0
  /\ outcome = "none"
  /\ budget \in Budgets
  /\ idle = 0
  /\ thoughts = 0
  /\ forced = 0
  /\ asked = FALSE

\* h, or the digest that _compact_messages puts in its place.
Compacted(h) == {h} \cup IF MayCompact THEN {<<Human>>} ELSE {}

\* The graph takes another superstep.
Runs(n) ==
  /\ node = n
  /\ steps < RecursionLimit
  /\ steps' = steps + 1

-----------------------------------------------------------------------------
(* run_turn seeds the graph.                                               *)

Seeds ==
  /\ node = "idle"
  /\ turn < MaxTurns
  /\ turn' = turn + 1
  /\ node' = "node_agent"
  /\ \E h \in Compacted(hist) : hist' = Append(h, Human)
  /\ steps' = 0
  /\ outcome' = "none"
  /\ idle' = 0
  /\ thoughts' = 0
  /\ forced' = 0
  /\ asked' = FALSE
  /\ UNCHANGED <<world, issued>>

\* Mutant: the gate's counter is not in initial_state.
StartTurnKeepsNudges ==
  /\ Seeds
  /\ empty' = 0
  /\ started' = 0
  /\ todos' = 0
  /\ UNCHANGED nudges

\* initial_state: the prompt on top of what was saved, per-turn counters reset,
\* "gate_started_at": 0.0. What put() saved last may be a digest.
StartTurn ==
  /\ Seeds
  /\ empty' = 0
  /\ nudges' = 0
  /\ started' = 0
  /\ todos' = 0

\* The graph stops with an exception, a cancel or a restart, or because the
\* recursion limit is reached.
Interrupt ==
  /\ node # "idle"
  /\ node' = "idle"
  /\ outcome' = "failed"
  /\ UNCHANGED <<hist, turnVars, world, issued, turn, steps, histories>>

-----------------------------------------------------------------------------
(* node_agent and should_continue.                                         *)

\* Mutant: the history is sent as it was saved.
PreparedUnrepaired == Compacted(hist)

\* _prepare_history.
Prepared == Compacted(Repair(hist))

\* The reminders of one call, which are not saved; the todo reminder, which
\* only ever follows a tool result, is left out.
Sent(h) == IF empty > 0 THEN Append(h, Human) ELSE h

NextIds(n) == issued + 1 .. issued + n

Says(h, ai) == hist' = Append(h, ai)

\* The model calls tools, one or two at once.
AgentCalls ==
  /\ Runs("node_agent")
  /\ \E n \in 1 .. 2, h \in Prepared :
       /\ issued + n <= NumIds
       /\ issued' = issued + n
       /\ Says(h, Ai(NextIds(n)))
  /\ empty' = 0
  /\ thoughts' = 0
  /\ idle' = idle + 1
  /\ node' = "node_tools"
  /\ UNCHANGED <<nudges, started, todos, world, turn, outcome, forced, asked>>

\* The model answers with visible text.
AgentAnswers ==
  /\ Runs("node_agent")
  /\ \E h \in Prepared : Says(h, Ai({}))
  /\ empty' = 0
  /\ thoughts' = 0
  /\ idle' = idle + 1
  /\ node' = "node_gate"
  /\ UNCHANGED <<nudges, started, todos, world, issued, turn, outcome, forced,
                 asked>>

\* Mutant: the streak is not counted.
AgentThinksForever ==
  /\ Runs("node_agent")
  /\ \E h \in Prepared : Says(h, Ai({}))
  /\ empty' = 1
  /\ thoughts' = thoughts + 1
  /\ idle' = idle + 1
  /\ node' = IF empty' <= MaxEmpty THEN "node_agent" ELSE "node_gate"
  /\ UNCHANGED <<nudges, started, todos, world, issued, turn, outcome, forced,
                 asked>>

\* Neither text nor calls: asked again, MaxEmpty times in a row.
AgentThinks ==
  /\ Runs("node_agent")
  /\ \E h \in Prepared : Says(h, Ai({}))
  /\ empty' = empty + 1
  /\ thoughts' = thoughts + 1
  /\ idle' = idle + 1
  /\ node' = IF empty' <= MaxEmpty THEN "node_agent" ELSE "node_gate"
  /\ UNCHANGED <<nudges, started, todos, world, issued, turn, outcome, forced,
                 asked>>

-----------------------------------------------------------------------------
(* node_tools.                                                             *)

\* All calls of the last message get a result, in any order of completion but
\* appended in the order of the calls; tools edit or verify the app and write
\* the plan.
Tools ==
  /\ Runs("node_tools")
  /\ LET n == Cardinality(hist[Len(hist)].ids)
     IN  hist' = hist \o [i \in 1 .. n |-> Result(issued - n + i)]
  /\ app' \in {app, "red"} \cup IF app = "none" THEN {} ELSE {"green"}
  /\ plan' \in {"clear", "open"}
  /\ idle' = 0
  /\ node' = "node_agent"
  /\ UNCHANGED <<turnVars, budget, issued, turn, outcome, thoughts, forced,
                 asked>>

-----------------------------------------------------------------------------
(* node_gate, gate_router.                                                 *)

\* Mutant: one nudge more.
ExhaustedAfter ==
  \/ nudges > MaxNudges
  \/ started # -1 /\ Now - started > budget

\* budget_exhausted: a reason to stop forcing.
Exhausted ==
  \/ nudges >= MaxNudges
  \/ started # -1 /\ Now - started > budget

Blocked == GateOn /\ app = "red" /\ ~Exhausted

\* The gate sends the model back with one more message.
SendsBack ==
  /\ hist' = Append(hist, Human)
  /\ node' = "node_agent"
  /\ UNCHANGED outcome

\* An app has not been verified for its current code.
GateForces ==
  /\ Runs("node_gate")
  /\ Blocked
  /\ SendsBack
  /\ nudges' = nudges + 1
  /\ started' = IF started # -1 THEN started ELSE Now
  /\ forced' = forced + 1
  /\ UNCHANGED <<empty, todos, world, issued, turn, idle, thoughts, asked>>

\* _todo_finalize_nudge: once per turn.
GateAsks ==
  /\ Runs("node_gate")
  /\ ~Blocked
  /\ TodoOn /\ todos < 1 /\ plan = "open"
  /\ SendsBack
  /\ todos' = todos + 1
  /\ asked' = TRUE
  /\ UNCHANGED <<empty, nudges, started, world, issued, turn, idle, thoughts,
                 forced>>

\* gate_action "pass": END.
GatePasses ==
  /\ Runs("node_gate")
  /\ ~Blocked
  /\ ~(TodoOn /\ todos < 1 /\ plan = "open")
  /\ node' = "idle"
  /\ outcome' = "done"
  /\ UNCHANGED <<hist, turnVars, world, issued, turn, histories>>

-----------------------------------------------------------------------------
GraphStep ==
  \/ AgentCalls \/ AgentAnswers \/ AgentThinks
  \/ Tools
  \/ GateForces \/ GateAsks \/ GatePasses

Next == StartTurn \/ GraphStep \/ Interrupt

Spec == Init /\ [][Next]_vars

-----------------------------------------------------------------------------
\* Whatever a session has been through - turns cut off between calls and
\* results, compaction, gate messages - the messages of a model call pair each
\* tool call with its result and do not end with the model's own turn.
InputAccepted ==
  node = "node_agent" =>
    \A h \in Prepared : /\ Accepted(Sent(h))
                        /\ Sent(h)[Len(Sent(h))].role # "ai"

\* A model that neither calls tools nor ends the turn is given up on after a
\* number of calls that depends on the settings alone.
IdleBound == idle <= (MaxEmpty + 1) * (MaxNudges + 2)

\* A turn ends with text of the model, or after a full streak of thinking-only
\* responses of this very turn.
EndsAnswered ==
  outcome = "done" => thoughts = 0 \/ thoughts > MaxEmpty

\* A turn ends with every app verified, unless the gate is off, asked in vain, in
\* this very turn, as often as it may, or finds its budget used up; the budget is
\* measured from the 0.0 that the turn started with.
EndsVerified ==
  outcome = "done" /\ GateOn =>
    app # "red" \/ forced >= MaxNudges \/ Now > budget

\* A turn that ends with an open plan was asked about it.
EndsPlanned ==
  outcome = "done" /\ TodoOn => plan = "clear" \/ asked

\* A turn ends in order: answered, verified and with its plan asked about.
EndsInOrder == EndsAnswered /\ EndsVerified /\ EndsPlanned

\* What node_gate's docstring says: a turn is not let go with an app that is not
\* verified before the model has been sent back once. The budget that may end this
\* is counted from "the first gate nudge" (agents/state.py).
SendsBackFirst ==
  outcome = "done" /\ GateOn /\ MaxNudges > 0 => app # "red" \/ forced > 0
=============================================================================
