------------------------------ MODULE SubAgents ------------------------------
(***************************************************************************)
(* A background sub-agent (tools/multi_agent.py 191-529): the thread that     *)
(* works for it, the watchdog thread that gives up on it, and the manifest     *)
(* file both of them write and AgentStatus reads.  A manifest is written by     *)
(* truncating the file and writing it anew, in two steps.  The watchdog's        *)
(* interrupt is an exception that strikes the worker at some later step, or       *)
(* never, when the worker hangs in a call.                                          *)
(***************************************************************************)
EXTENDS Integers

CONSTANTS
  IdleBudget, TotalBudget   \* eff_idle, eff_total, in watchdog ticks

ASSUME SubAgentAssumption ==
  /\ {IdleBudget, TotalBudget} \subseteq Nat
  /\ 0 < IdleBudget /\ IdleBudget <= TotalBudget

VARIABLES
  manifest,  \* status in the file; "" when it is empty, "garbled" when it does not parse
  worker,    \* _run_agent_job: none, running, opened, wrote, gone
  goal,      \* what the worker is writing
  result,    \* the result has been appended to outputFile
  dog,       \* _watchdog: none, missing, asleep, checking, opened, wrote, gone
  exc,       \* a SystemExit is pending for the worker
  noted,     \* _last_progress has an entry
  idle, age, \* time since the last progress and since the watchdog started, as far as it counts
  spoiled    \* history: a write was cut short, or both threads wrote

subVars == <<manifest, worker, goal, result, dog, exc, noted, idle, age, spoiled>>

Terminal == {"completed", "failed"}

SubInit ==
  /\ manifest = "none" /\ worker = "none" /\ goal = "none" /\ dog = "none"
  /\ result = FALSE /\ exc = FALSE /\ spoiled = FALSE
  /\ noted = FALSE /\ idle = 0 /\ age = 0

\* Writing at the start of a file that somebody else has filled since it was truncated
\* may leave the end of the longer text.
Written(status) == IF manifest = "" THEN {status} ELSE {status, "garbled"}

----------------------------------------------------------------------------
\* run_agent: manifest, progress entry, worker thread.  A thread that cannot be started
\* is the failure of the agent.
SpawnAgent ==
  /\ manifest = "none" /\ noted' = TRUE /\ idle' = 0
  /\ \/ manifest' = "running" /\ worker' = "running"
     \/ manifest' = "failed" /\ worker' = "gone"
  /\ UNCHANGED <<goal, result, dog, exc, age, spoiled>>

\* The watchdog's start() is in no try: when it raises, so does run_agent, and the
\* sub-agent works on without a watchdog.
StartWatchdog ==
  /\ worker # "none" /\ manifest # "failed" /\ dog = "none"
  /\ dog' \in {"asleep", "missing"} /\ age' = 0
  /\ UNCHANGED <<manifest, worker, goal, result, exc, noted, idle, spoiled>>

\* Every event of the sub-agent is progress, also when its entry is gone already.
Progress ==
  /\ worker = "running" /\ noted' = TRUE /\ idle' = 0
  /\ UNCHANGED <<manifest, worker, goal, result, dog, exc, age, spoiled>>

\* _persist_terminal_state by the worker: the graph ends with a result or raises.
WorkerOpens ==
  /\ worker = "running"
  /\ goal' \in Terminal /\ manifest' = "" /\ worker' = "opened"
  /\ spoiled' = (spoiled \/ dog \in {"opened", "wrote", "gone"})
  /\ UNCHANGED <<result, dog, exc, noted, idle, age>>

WorkerWrites ==
  /\ worker = "opened"
  /\ \E text \in Written(goal) : manifest' = text
  /\ worker' = "wrote"
  /\ UNCHANGED <<goal, result, dog, exc, noted, idle, age, spoiled>>

\* A write that fails raises: a result that cannot be recorded is a failure, a failure
\* that cannot be recorded ends the thread.
WorkerWriteFails ==
  /\ worker = "opened" /\ spoiled' = TRUE
  /\ IF goal = "completed" THEN worker' = "opened" /\ manifest' = ""
                           ELSE worker' = "gone" /\ UNCHANGED manifest
  /\ goal' = "failed"
  /\ UNCHANGED <<result, dog, exc, noted, idle, age>>

\* The result follows the status, or cannot be appended and is lost.
WorkerEnds ==
  /\ worker = "wrote" /\ worker' = "gone"
  /\ result' \in {FALSE, goal = "completed"}
  /\ UNCHANGED <<manifest, goal, dog, exc, noted, idle, age, spoiled>>

\* SystemExit is not an Exception: nothing is recorded.
Interrupted ==
  /\ exc /\ worker \in {"running", "opened", "wrote"} /\ worker' = "gone"
  /\ spoiled' = (spoiled \/ worker = "opened")
  /\ UNCHANGED <<manifest, goal, result, dog, exc, noted, idle, age>>

----------------------------------------------------------------------------
\* The watchdog wakes: the status first, then the budgets.
NotYetDone == dog' = "checking" /\ UNCHANGED noted

Wakes ==
  /\ dog = "asleep"
  /\ IF manifest \in Terminal THEN dog' = "gone" /\ noted' = FALSE ELSE NotYetDone
  /\ UNCHANGED <<manifest, worker, goal, result, exc, idle, age, spoiled>>

Idle    == IF noted THEN idle ELSE age
\* Mutant: only silence is limited.
IdleOnly == Idle >= IdleBudget
Tripped == Idle >= IdleBudget \/ age >= TotalBudget

Checks ==
  /\ dog = "checking"
  /\ IF Tripped
     THEN /\ dog' = "opened" /\ manifest' = ""
          /\ spoiled' = (spoiled \/ worker # "running")
     ELSE dog' = "asleep" /\ UNCHANGED <<manifest, spoiled>>
  /\ UNCHANGED <<worker, goal, result, exc, noted, idle, age>>

WatchdogWrites ==
  /\ dog = "opened"
  /\ \E text \in Written("failed") : manifest' = text
  /\ dog' = "wrote"
  /\ UNCHANGED <<worker, goal, result, exc, noted, idle, age, spoiled>>

\* Only a thread that is alive is interrupted; the progress entry goes either way.
Interrupts ==
  /\ dog = "wrote" /\ dog' = "gone"
  /\ exc' = (worker # "gone") /\ noted' = FALSE
  /\ UNCHANGED <<manifest, worker, goal, result, idle, age, spoiled>>

WatchdogWriteFails ==
  /\ dog = "opened" /\ dog' = "gone" /\ noted' = FALSE
  /\ spoiled' = TRUE
  /\ UNCHANGED <<manifest, worker, goal, result, exc, idle, age>>

Tick ==
  /\ idle' = IF idle < IdleBudget THEN idle + 1 ELSE idle
  /\ age' = IF age < TotalBudget THEN age + 1 ELSE age
  /\ UNCHANGED <<manifest, worker, goal, result, dog, exc, noted, spoiled>>

SubNext ==
  \/ SpawnAgent \/ StartWatchdog \/ Progress \/ WorkerOpens \/ WorkerWrites \/ WorkerWriteFails
  \/ WorkerEnds \/ Interrupted \/ Wakes \/ Checks \/ WatchdogWrites \/ Interrupts
  \/ WatchdogWriteFails \/ Tick

\* Time goes on, the watchdog runs, and a thread that has opened the file gets on with
\* it.  Nothing is assumed of the sub-agent's work, which may hang.
SubFairness ==
  /\ WF_subVars(Tick) /\ WF_subVars(StartWatchdog)
  /\ WF_subVars(Wakes \/ Checks \/ WatchdogWrites \/ Interrupts)
  /\ WF_subVars(WorkerWrites \/ WorkerEnds)

SubSpec == SubInit /\ [][SubNext]_subVars /\ SubFairness

----------------------------------------------------------------------------
\* Types of the manifest and of the two threads.
SubTypeOK ==
  /\ manifest \in {"none", "", "running", "garbled"} \cup Terminal
  /\ worker \in {"none", "running", "opened", "wrote", "gone"}
  /\ dog \in {"none", "missing", "asleep", "checking", "opened", "wrote", "gone"}
  /\ idle \in 0 .. IdleBudget /\ age \in 0 .. TotalBudget
  /\ result => goal = "completed"

\* A sub-agent that was spawned ends with a status that is final, even when it hangs or
\* keeps reporting progress for ever ("so even a sub-agent that keeps emitting noise
\* can't run forever", multi_agent.py 307), unless its watchdog could not be started, a
\* write failed or was interrupted, or both threads wrote.
SubAgentSettles ==
  (manifest = "running") ~> [] (manifest \in Terminal \/ spoiled \/ dog = "missing")

\* A manifest that the sub-agent has finished writing is not overwritten
\* (multi_agent.py 482: "to avoid overwriting a manifest that the agent already finished
\* writing").
FinishedKept ==
  [][(worker \in {"wrote", "gone"} /\ manifest \in Terminal) => manifest' = manifest]_subVars
=============================================================================
