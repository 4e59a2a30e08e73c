# A TLA+ model of Ojas, the coding agent of agentic-rag-v2

The repository is a multi-user server that runs an LLM coding agent per chat
session (FastAPI + LangGraph, Python) and a web client (React, TypeScript).
These modules model the parts of it whose behaviour depends on the order in which
things happen: the turns of a session, the agent graph that runs inside a turn,
the path of an event from the agent's thread to the page, what the agent leaves on
the host, the deployments and deletions around it, and the accounts, settings and
names everything hangs on. TLC checks small instances; TLAPS proves the central
statements for every value of the constants.

    tlc -workers 2 -config Turn_lifecycle.cfg MCTurnLifecycle
    tlapm TurnLifecycleProofs.tla

Contents: 1 the system, 2 modules and code, 3 runs, 4 proofs, 5 where the code
departs from its comments, 6 what is not modelled, 7 plan.

## 1. The system

| Component | State | Operations | Module |
|---|---|---|---|
| Turns of a session (`server/app.py` 1852-2020, `server/session_runner.py`) | `_active_turns`, the task of each turn, `_turn_cancelled`, messages rows, the session's checkpoint | POST `/messages`, POST `/cancel`, `run_turn`, `_drive` in an executor thread, the done-callback | TurnLifecycle, TurnPromise |
| Agent graph (`agents/graph.py`, `nodes.py`, `state.py`, `verify_gate.py`) | `RunnerState`: messages and per-turn counters | `node_agent`, `node_tools`, `node_gate` and their routers | AgentLoop |
| History repair (`nodes.py` 615-672) | none | `_repair_orphan_tool_calls` | ToolHistory |
| Model calls (`agents/_timeouts.py`, `nodes.py` 394-500) | producer threads, a bounded queue and a stop event per attempt | pull, put, idle timeout, retry | ModelStream |
| Inline reasoning (`nodes.py` 256-346, `session_runner.py` 514-525) | the splitter's buffer and channel | feed, flush, strip | ThinkTags |
| Event bus and log (`server/reporter.py` 44-285, `server/db.py` 729-783) | `_queue`, `_subscribers`, `dropped_count`, events table | `publish` (any thread), `_enqueue`, `_evict_one`, `_fanout` (loop), `subscribe`, `unsubscribe` | SessionBus |
| Browser stream (`web/src/lib/ws.ts`), stream endpoint (`app.py` 2720-2795) | `ws`, `backoffMs`, `reconnectTimer`, `manualClose` | `connect`, `onopen`, `onclose`, `onVisibility`, `close` | EventStream |
| Chat page (`web/src/pages/ChatPage.tsx`) | `lastEventTsRef`, turns on screen | live event, catch-up request, leaving the session | EventFeed |
| Sub-agents (`tools/multi_agent.py`) | manifest files, progress times | spawn, worker, watchdog | SubAgents |
| Background processes (`tools/bash.py`, `process_mgmt.py`) | `session_processes`, the OS's process table | start, stop by port or pid, stop all at the end of a turn, administrator's kill | Processes |
| Commits (`server/git_autocommit.py`, `tools/git.py`) | one git repository per project | prepare, commit, push; the agents' own git | Commits |
| Deployments (`app.py` 128-353, 3134-4530) | deploy jobs, app rows, files, units, routes, ports | build, activate, cancel, start, stop, delete, sweep, boot reconcile | Deployments |
| Deletion (`app.py` 1057-1568, 2117-2606) | delete jobs, everything of a session | cancel turn, stop processes, tear apps down, purge | Deletion |
| Provider, model, prices (`app.py` 5868-6148, `agents/provider_config.py`, `memory/token_counter.py`) | rows of `app_settings` and `model_pricing`, globals, caches, counters | swap, keys, client building, price lookup, counting | Settings |
| Accounts (`server/auth.py`, `app.py` 776-1043, 1783-1847, 5718-5866) | signing secret, users, tokens, projects, sessions, directories | sign-up, login, reset, deletion, default project | Accounts |
| Session names (`db.py` 526-660, `session_runner.py` 555-760) | names, `_AUTO_RENAME_HISTORY` | user's rename, automatic title | SessionNames |
| Compaction (`memory/checkpointer.py`) | checkpoint contents | on save, on model call, manual | its effect in TurnLifecycle, AgentLoop |

The remaining parts (repetition guard, permissions and hooks, command and path
validation, tools, other endpoints, tracing, prompts, web presentation, templates)
are listed in `PROJECT.json` with the reason they are not modelled.

Threads and processes. Everything under `server/` that is `async` runs on one
asyncio loop and is interrupted only at an `await`; endpoints that are plain `def`
run in a thread each. A turn's `_drive` and the blocking operations of a deploy run
in executor threads, sub-agents and stream producers in threads of their own; none
of them can be interrupted from outside. git, systemd and the started servers are
processes. The page is one JavaScript thread.

What is hard here, and where the properties aim:

- a cancelled task ends while its thread goes on (`app.py` 1905-1925, 3846-4530);
- registry entries read before an `await` and used after it (`app.py` 1905, 1945);
- two sides that may both close the same turn (`session_runner.py` 229, 255-321);
- counters that live in a checkpoint and must be reset per turn (203-217);
- histories cut off between tool calls and results, then sent to a provider that
  rejects them (`nodes.py` 615);
- three different reasons to send the model back, which must not feed one another
  for ever (`nodes.py` 1053, 1080, 1104);
- a bounded queue written from the loop only, filled by threads (`reporter.py` 192);
- a catch-up request racing live frames, with one-second timestamps
  (`ChatPage.tsx` 497, `db.py` 770);
- an attempt at a model call that is given up while its producer still pulls;
- pids, ports and git's HEAD: shared by all, checked at one time and used at another;
- a job of a dozen steps, each of which may fail, beside requests that change the same rows;
- a choice kept twice, in rows and in globals, written one field at a time.

`PROJECT.json` lists every hazard with its line and the properties that cover it.

## 2. Modules and code

`PROJECT.json`, `map`, names the source lines of every definition. Variables
described as "history" in a module are not in the code; they record what a
property needs and no guard reads them.

### TurnLifecycle, TurnPromise

One session. Turn `t` is the t-th POST and its task. Actions on the loop are the
code between two awaits, so `LoopFree` (nobody is inside the cancel handler) guards
them; the cancel handler itself is split in three (`TaskCancelled`, `CancelRead`,
`CancelPersist`) because worker threads run meanwhile: `held` is the history it has read and
writes back with the prompt, or does not, as its `except: pass` swallows a failure of either. A worker goes `queued` (in the pool),
`seeding` (it has read the checkpoint), `running`, `finalising` (past its look at
`_turn_cancelled`), and then returned, raised or - withdrawn from the pool -
dropped. `mem` is the graph's own copy of the messages, `ckpt` the saved one;
LangGraph never reads the latter back during a run, which is why they are two
variables and why `CompactingCheckpointer.put`, which compacts only what it saves,
can make them differ.

Decisions taken from the libraries the code relies on:

- cancelling a task that has not run its first step ends it without running any of
  its body (`TaskNeverStarts`); a turn whose prompt cannot be stored (`append_message` before the
  try, `session_runner.py` 87-125) ends in the same way, with nobody told;
- `run_in_executor` futures that are still queued are withdrawn, running ones are
  left alone;
- the 2 s of `wait_for` in `messages_post` cannot run out: a cancelled `run_turn`
  reaches its end without a further await. `PostResume` has no timeout branch
  for that reason;
- the done-callback that pops the registry was registered before the one that
  wakes the waiting POST (`PostResume` requires `~callback`). A POST that arrives
  between the end of a task and that callback is possible when both are ready in
  one loop iteration; `LoopRace` switches it on.

`TurnPromise` is what someone who watches only the events may rely on: accepted,
then withdrawn or opened, then closed with one verdict, for good. `phaseBar` and
`verdictBar` read it off TurnLifecycle's output variables.

### AgentLoop, ToolHistory

One superstep of the graph per action, routing included: `AgentCalls`,
`AgentAnswers`, `AgentThinks` (three kinds of model response), `Tools`,
`GateForces`, `GateAsks`, `GatePasses`; `StartTurn` is the seed of `_drive`,
`Interrupt` everything that ends a run early, after any superstep. Messages keep
their role and tool-call ids; text is dropped. ToolHistory is
`_repair_orphan_tool_calls` as operators, and `Accepted`, what providers require
of a request. `_prepare_history` repairs first and may then compact; the result is
both sent and written back to the state, as in `node_agent`.

### ModelStream, ThinkTags

ModelStream is one model call: `Pull`, `LookAtStop`, `Put` are the producer thread
from one shared access to the next, `GetChunk`, `GetDone`, `GetError`, `IdleTimeout`
and `Retry` the consumer. The provider may yield, end, raise or hang at any pull,
and an idle timeout may fire whenever the queue is empty, so a late item and a
timeout race freely. Old producers stay alive beside the new attempt's.

ThinkTags is the inline splitter of the live stream: a chunk of any length arrives
(`Feed`), tags are consumed one by one (`TakeTag`), and the rest is shown up to a tail
that may still become a tag (`ShowSafe`); `Stripped` is the regular expression that
strips the saved answer. A symbol shown is known by its place in the text, so that `panes`
says what was shown where, and in which order. The word in a tag is a constant; the run
gives it two letters, so that a chunk boundary falls inside it; letter case is left out.

### SubAgents

The worker thread, the watchdog with its two budgets and the manifest both write.
Writing truncates and then fills the file, in two steps, so a reader sees it empty
and two writers can garble it. The watchdog's interrupt is an exception that strikes at a
later step of the worker, or never if it hangs. The watchdog's own `start()` is outside the
`try`, and may leave the sub-agent without one (`dog = "missing"`).

### SessionBus, EventStream, EventFeed

SessionBus: `publish` is two actions, `Record` (stamp and row) and `HandOver`
(`call_soon_threadsafe`), so that threads interleave in between; `Enqueue`,
`FanoutTake`, `FanoutSend`, `FanoutFails` are `_enqueue` and `_fanout` from await
to await. Every subscription publishes a `context_update` (the "greeting"). Time is
in whole seconds, the resolution of `created_at`; an event may be stamped in one
second and stored in the next (`Straddles`). Sockets may fail on the server's side before or
after the page knows: `ServerSends` may fill the buffers of a connection that is gone, and
`ServerNotices` may find one broken that the page still holds open.

EventStream: `openEventStream`. Callbacks act on the variable `ws` whichever socket
they belong to, as in the code, so two sockets can be alive at once when a tab
becomes visible while one is still connecting.

EventFeed composes the two with the page: a socket that opens triggers GET
`/events?since=watermark`, which the server answers (`Serve`) and the page
applies (`CatchUp`) some time later; live frames move the watermark (`Message`). The
page starts with its history loaded and a watermark of one second.

### Processes, Commits

Processes has the operating system's table (owner, parent, zombie, listening) and
the rows that name processes by pid. A wrapper shell stays a zombie of the server
until the server starts another process; other pids may be given out again at
once. Each way to stop is a sequence of its own: read the rows, look at `ps`,
terminate, kill, drop the rows, with starts, ends and other stops in between. What `ps`
shows below some pids is `Tree`, the smallest set that holds them and the children
of its members; which is what the walk of the code computes, put in a form that can be
reasoned about. `via` in a call is history: every pid that led the call on, also between
its two looks at `ps`.

Commits is one repository with two sessions: a commit job is one action per git
command, and edits, other sessions' jobs, the agents' own git and POST `/push` fall
between any two. `current_branch` may fail and then reads as no branch at all (`Read`), and a
checkout may be done and reported as failed (`Mistold`, by a hook or the 30 s timeout; `cut` in the
job). `moved` in a job remembers that somebody else moved HEAD.
Host is the two side by side: an agent leaves both behind, and they share no state.

### Deployments, Deletion

A deploy job walks through `Pipeline`. Blocking operations run in the executor:
when the task is cancelled there, the thread's operation may still take effect
(`stray`). A failing operation starts the rollback the code has at that point.
Start, stop and delete requests, the sweep of finished jobs, `reap-orphans` and a
restart (`boot`) interleave at every step. `files` records which job wrote each
part of an app's directory, `route` and `unit` what caddy and systemd were told.
`Overlap` and `Undisturbed` read `met`, the history of what each job ran beside, the latter
also whose rows those jobs recorded.

Deletion EXTENDS Deployments with the delete jobs of sessions and projects and
the synchronous deletions. The asynchronous job keeps the loop from its first step
on except while it waits for the agent (`loop`), so only threads and requests run
beside it; a deploy whose thread has finished waits for the loop (`moved`). `late` is
history: the sessions that a turn, a deploy, a request or another deletion worked on
while they were being deleted, and those with a deploy that failed, was cancelled, or was
for an app of a session being deleted. The synchronous deletion drops the row it finds under
a slug it listed before (`RemoveApp`), whoever's app that is by now; a session whose
row goes that way is late as well, as its own deletion will no longer find the app.
The clean-up steps are best-effort as in the code: a directory, a checkpoint or a process - which is
only sent SIGTERM and unregistered - may stay without anybody noticing. `kept` is history: which
of these was left of which session.
`Traceless` says what is left of a session when nothing is, but for that.

### Settings, Accounts, SessionNames

Settings: rows and globals are read and written one by one, in requests that may
overlap, beside a price lookup that fills the cache, and somebody who builds a client: an
agent, for the active pair; a sub-agent, for the globals' model when it was spawned (`Inherits`); or
the provider test, for a pair of its own (`Asked`). What the caller wants comes before what is read
(`EffProvider`, `EffModel`), and a row that cannot be read counts as missing (`Reads`). A turn
counts tokens (`Record`), and so does the worker that a cancelled turn left behind, after its
summary and into the next turn's (`StrayRecord`).

Accounts: each statement is a transaction and each access to `auth.json` a step; requests run
in threads. Root logs in with the password of its row or with that of the environment
(`Environ`), whatever the row says; root's e-mail can be signed up like any other, and the row then
is a user's (`IsRoot`). `Purge` may leave directories behind (`kept`).

SessionNames: checking for a free name and writing it are two steps, and a title takes seconds,
during which the next turn may ask for another (`titling`).

### Parts of one run

Host (Processes, Commits) and Services (SubAgents, ModelStream, ThinkTags, Settings,
Accounts, SessionNames) are the conjunctions of these components' specifications, and what
the theorems are about. For TLC, MCHost and MCServices put these components, which share no
variable, under one run: `part` chooses one at the start, the others rest in a state they cannot
leave. A behaviour of such a run is a behaviour of one component, so nothing is
lost but the product of unrelated steps. Within Settings, `Apart` keeps building a
client, looking up prices and counting tokens from being under way together: they
touch different variables and each meets the requests.

## 3. Runs

| Run | Instance | Shows |
|---|---|---|
| `Turn_lifecycle` | 2 turns, overlapping POSTs, callback race, compaction, fair loop | types, `ClosesOnce`, `RowsAgree`, `NoLateAnswer`, refinement of TurnPromise (`KeepsPromise`); `CancelEnds` from the loop alone, `PromiseFulfilled` when threads end too |
| `Turn_serial` | 3 turns, one POST at a time | `Serialised`, and as long as nobody cancels `HistoryKept` |
| `Agent_session` | 2 turns of up to 10 supersteps, 3 tool calls, interruption anywhere, compaction, the default verify budget and one that the gate's clock allows | `InputAccepted`, `IdleBound`, `EndsInOrder`, and `RepairMends` on all histories of up to four messages |
| `Bus_events` | 3 events of two threads, queue of 2, 2 sockets, failing rows | `NoFrameUncounted`, `StreamIsSuffix`, `ThreadOrder`, `KeepsLifecycle` |
| `Feed_stream` | 1 event, 2 sockets, 2 seconds, queue of 1, failing requests | `PageServed`, `AskedOnce` |
| `Apps_deploys` | 2 deploys of 2 users' sessions, 2 slugs, 1 port, failures, cancels, 1 other event | `PortsApart`, `FilesAreOwn`, `AloneServed` |
| `Apps_deletion` | 2 sessions of a project, 1 deploy, 1 turn, 1 deletion of either kind, 1 other event | `NoTrace`, `NeverStuck` |
| `Host` | 4 pids, 2 agents, 4 starts, 1 stop; 2 sessions in one repository, 2 edits, 2 commit jobs, 1 git command, 1 push | `OnlyOwnStopped`, `TurnEndClean`; `CommitsWhereTold` |
| `Services` | one sub-agent (budgets 2 and 3); one model call (2 attempts, 2 chunks each, queue of 1); all texts of up to 3 pieces; 2 providers, models and requests, clients of three kinds, 2 calls; 3 account requests after root's, 2 at a time; 2 sessions, 2 renames, 2 titles at a time | `AnswerIsOneAttempt`, `SplitsAlike`, `ChoiceHolds`, `BillsTrue`, `TokensHold`, `OwnedApart`, `NamesApart`, `WorkEnds` |
| `Turn_zombie`, `Feed_gap`, `Agent_gate` | as above, the latter with the default verify budget | violations, see section 5 |

Each passing run holds no deadlock check because every instance stops by design
when its prompts, turns, events, jobs or requests are used up.

What the less obvious properties say:

- `HistoryKept`: without a cancel, each graph run reads back its own history and the
  prompts of all turns before it, unless a digest has replaced them.
- `PromiseFulfilled` and the refinement: an accepted prompt is closed with an event unless it is
  withdrawn, which it is when it was cancelled before its first step or could not be stored.
- `EndsInOrder`: a turn that ends by itself has answered or idled as often as it may, has
  had every app verified or asked in vain as often as it may, and was asked about an open plan.
  The gate may also find its budget used up; its clock starts at 0.0, so with a time of day
  that is always so, unless the budget is set to more seconds than have passed since 1970. The run
  has both; `Agent_gate` shows what the former means.
- `PageServed`: while the page stays there is a socket, or a timer or visibility
  change that opens one; after it has left nothing is opened.
- `AnswerIsOneAttempt`: answer and screen never mix attempts, and a producer that was
  given up pulls at most one more chunk.
- `OnlyOwnStopped`, `TurnEndClean`: a session signals only processes it started, unless a
  pid it rests on - registered, seen on the way, or to be killed - was given out twice; after an undisturbed clean-up none of its processes runs.
- `PortsApart`: two apps share a port only if a deployment for the one overlapped a
  deployment for the other, not necessarily those that wrote the two rows. `FilesAreOwn`: a
  part of an app's directory comes from another owner's deployment only if that one
  overlapped a deployment of the app's owner, or such a one met a request or a sweep.
  `AloneServed`: a deploy that nothing conflicting ran beside, and whose service came up,
  serves what it built; not conflicting are the same owner's other deploys, for other slugs,
  as long as those slugs are still his.
- `NoTrace`: a session deleted while nothing else worked on it, and whose deploys did not
  fail (section 5 says what those leave), leaves no row of a process and no bus; no process,
  checkpoint or workspace but one whose own removal failed; and no file or unit except in a
  directory that is by now the app of another session (of the same owner, who deployed over it),
  unless a teardown of an app failed. So one swallowed failure costs nothing
  but what it was about. `NeverStuck`: a deletion waits for the loop only.
- `CommitsWhereTold`: a job commits to no protected branch and to the branch it reports. Its
  exceptions are those of the code: HEAD was moved by somebody else, the job could not read
  which branch it was on, or a checkout was done and reported as failed, where the
  commit is on the session's own branch and not the reported one.
- `ChoiceHolds`: requests that do not overlap leave one choice in rows and globals, and a client
  built while none was under way, from rows that could be read, is for that choice unless its
  caller named a pair of its own; a sub-agent's is for it once there are rows at all (before
  that, rows and globals come from different defaults).
- `BillsTrue`: counts and prices belong to the model in use, and a turn during which the counters were
  not dropped shows its own calls, and beyond them at most those that workers of cancelled turns made
  meanwhile.
- `TokensHold`, `OwnedApart`, `NamesApart`: the exceptions are named in the formulas. Each
  is a race of two requests, but for the password of the environment (`TokensHold`), and
  sessions that root made for somebody and directories that could not be removed (`OwnedApart`).
- `WorkEnds`: a model call ends, and a sub-agent settles whichever of its threads dies or hangs,
  if its watchdog was started at all.

Several of these carry an "unless they overlapped" clause. The clause is the
finding: without it TLC violates the property, and section 5 says how. With it, the
property says that overlap is the only way to get there.

Bounds, and why they are enough:

- Turns: one being cancelled and one replacing it is where all pairwise races are;
  a third turn is used where one POST waits at a time (`Turn_serial`). One
  model message stands for the whole conversation of a turn, since the graph is
  AgentLoop's subject.
- Agent: `IdleBound` is (1+1)*(1+2) = 6 calls with these settings, and the bound is
  reached: the longest idle run needs nine supersteps with the gate's own. The real
  recursion limit is 100 000; the proof of `IdleBound` does not depend on it.
  Two turns, because what is wrong in a second turn is what the first one left behind.
- Bus: with room for two frames and three events plus two greetings, all three
  branches of `_enqueue` occur, also evictions from the middle of the queue.
- Feed: two sockets are the fewest that overlap or reconnect. One event suffices:
  the properties speak of one event's way to the page, and greetings compete
  with it for the queue and move the watermark. The second tick separates the seconds.
- Apps: two deploys give every pair (same slug or not, same owner or not); one
  port makes each allocation of two apps compete; one further event puts each request, sweep
  or restart at each step of the deploys. Two such events at a time are beyond the run.
- Deletion: a second session is what must survive; only its neighbour can be harmed by
  a deletion, and one deploy and one turn are what can be under way.
- Host: a wrapper, its child and grandchild, and one process of somebody else; four starts
  reuse a pid. Two edits and two jobs are one of each session, or two of one.
- Services: a queue of one is full as soon as a chunk waits; two attempts are one
  retry. Three pieces hold a tag, its partner and what is between or before them. Four account
  requests are sign-up, session, and two that race. Two sessions, two renames and two
  titles let a name be taken, freed and taken again. Two calls are one of a turn and one of the
  worker left by the turn before, or both of one. A caller's own pair is the other model of the
  active provider or of the other one: nothing is read differently for another pair. The settings begin
  without rows or with one pair (`Before`): every other is a swap away.

The views leave out what no later step and no property of the run depends on: `BusView`
and `FeedView` some variables, `DeployView` and `DeletionView` how a finished job
ended. `Bus_events` covers the counters that `FeedView` leaves out; the backoff, which
it leaves out too, guards nothing, and its type is proved (`FeedTypeCorrect`).
`Apps_deploys` and `Host` use symmetry: slugs, pids and agents are interchangeable, and
users together with their sessions and branches. Neither run has a liveness property.

Settings that are chosen: the time of day in `Agent_session` and `Agent_gate` is one of 2025
(1 750 000 000 s), the verify budget the default 1800 s or, in the former, 2 000 000 000 s as well, with
which the gate does force. `MaxEmpty = MaxNudges = 1` instead of the defaults. `Apps_deletion`
deploys full-stack apps only and has no cancelled deploys, which `Apps_deploys` has.

Fairness. `LoopFairness` is weak fairness of the asyncio loop, which always runs
what is ready; `CancelEnds` needs nothing more. `ThreadFairness`
adds that worker threads and the executor jobs of the last steps end: the model
stream has an idle timeout and bounded retries (`WorkEnds`), tools have timeouts, and the
graph a recursion limit. `PromiseFulfilled` states that assumption in
the formula. The rows that the handlers of a cancelled or failed turn write (270, 320) are
assumed to be written: if the database refuses them, run_turn ends without `turn_summary`. `StreamFairness`: the consumer and the producers' own steps run;
nothing is assumed of the provider, whose stream may hang for ever. `SubFairness`: the
watchdog thread runs; the worker may hang. No action of a client is ever assumed to happen.

## 4. Proofs

TurnLifecycleProofs, for any number of turns and any setting of the switches:

- `TypeCorrect`, `ClosesOnceHolds`, `RowsAgreeHolds` from one inductive invariant
  `IInv`: types, and for each turn `TurnInv`, which says in which combination of
  task state, worker state and output each turn is. The combination is what makes
  it inductive: that a cancelled turn may have a second `done` event follows only
  if one knows that its worker was `finalising` when the flag was set. The proof has one
  step per action; a frame lemma deals with turns an action does not touch.
- `NoLateAnswerHolds`: an action property, from types alone.
- `SerialisedHolds`: when POSTs do not overlap and none slips in before a callback,
  with its own invariant about the registry, the waiting POST and the callback.
- `HistoryKeptHolds`, under the same two assumptions: as long as nobody cancels, one
  worker is at a run at a time, so what is saved is its own copy or a digest of it; and
  every prompt that was answered is in whatever is saved or copied, or a digest is (`HistInv`).
- `KeepsPromiseSafely`: every step is a TurnPromise step or a stutter, using `IInv`
  for the steps that would otherwise change a closed turn's verdict.

AgentLoopProofs, for all settings: `IdleBounded`, `EndsAnsweredHolds`,
`EndsPlannedHolds`, `EndsVerifiedHolds` and `EndsInOrderHolds`, for any time of day and any
budgets; and `GateNeverForces`, which is the other side of `EndsVerified`: whenever the time of day
exceeds the budget, no turn is ever sent back to verify. The invariant behind
`IdleBounded` weighs each idle call against the nudges and the plan question given
so far. On histories of any length:

- `TypeOKHolds`.
- `RepairSparesAccepted`: the repair leaves an accepted history alone.
- `RepairMendsCutOff`: a history in which every result was asked for - by the last model
  message before it, with only results in between (`Asked`) - is accepted after the
  repair, whatever results are missing; a second repair changes nothing. On such a history
  the repair's pass over the results keeps all of them, so that it is the pass over the
  calls alone (`Repaired`), and that one is not a recursion.
- `InputAcceptedHolds`: the loop, however interrupted, saves only such histories, which
  do not end with the model's turn where the model is called (`Saved`); so every
  history sent is accepted.

EventFeedProofs, about the bus, for any number of events, publishing threads and sockets, any
`MAX_QUEUE` and any set of coalescable kinds:

- `BusTypeCorrect`, `NothingUncounted`, `LifecycleKept`: inductive as they stand, on
  top of a lemma on what `RemoveAt` leaves of a queue.
- `StreamComplete` needs `Owed`: a socket in the fan-out's snapshot has joined before
  the frame being sent, and that frame is the last one taken. A failed or
  unsubscribed socket may still be in the snapshot, which is why the
  statement is about `subs` only.
- `InThreadOrder` needs the order of everything further back: `OrderInv` relates the
  frames sent, queued, scheduled and held, pair by pair, and `IssuedInv` puts the
  events not yet published behind all of them. Taking the head of a queue
  and evicting from its middle are both handled as "a subsequence".

EventFeedProofs, about the composition:

- `FeedImplementsBus`: the feed implements the bus, so every theorem above holds of it.
- `FeedTypeCorrect`, `StreamKeepsTrying`, `NoSocketAfterClose`, the latter two by a
  lemma that reduces a step of the feed to a step of the stream; `PageServedHolds`
  joins them.
- `AskedOnceOnly`: `StampInv` says that a frame, wherever it is, carries the second of its
  event's row or the event was stored late; `RowInv` that events have one row;
  `WatermarkInv` that the watermark covers the rows of everything applied, and the
  `since` of each request the rows of everything applied when it was issued.

ModelCallProofs, for any number of attempts, any queue size and streams of any length:

- `StreamTypesHold`, `AnswerIsOneAttemptHolds`: what a producer has pulled is split over the
  answer, its queue and its hand, in order; what is shown ends with the answer; once
  told to stop, a producer is at most one pull behind.

And for any number of providers, models, requests and sessions:

- `ChoiceInvariant`, `ChoiceHoldsAlways`: a request marked as alone is the only one that
  writes to its settings, and whoever is not has marked them torn; every step of one
  that is alone is accounted for, and a client that nothing disturbs and no read fails for reads what
  stays put; what its caller wants is its own pair, nothing, or the globals' model, which
  stays what it was while nothing disturbs.
- `BillInvariant`, `BillsTrueHolds`: a lookup not overtaken holds the row's price, and a counter
  what was on it when the turn began, the turn's own calls, and at most those that a cancelled
  turn's worker made since, unless it was swapped; after a swap such a worker may still hold the
  counter that was dropped, in which case its calls count nowhere.

ServicesProofs, for any number of sessions and any titles:

- `NameTypesHold`, `FreeNameFound`, `NamesApartHolds`: two renames at one time are
  both marked, so what an unmarked check found free is free when it is used. That the search for a
  suffix ends with a free one is by finiteness of the sessions and the least number
  that is not taken.

And for any number of users and requests:

- `AccountInvariant` and `AccountTypesHold`, `TokensHoldAlways`, `OwnedApartAlways`: one invariant, a part
  per table, each with what requests under way may rely on. Tokens are signed
  with the secret on disk because who writes one is alone and finds none (`SecretInv`); an old
  password is held only by who was overtaken by a reset, and the environment's only by root's
  logins (`PasswordInv`); ids are never given
  out twice (`UserInv`), and the rows with root's role are those that root's logins made
  (`RootInv`); rows and directories of sessions are one step apart while they are
  made or taken away, except for what could not be removed (`SessionInv`).

For any budgets, and for any texts and any cuts into chunks:

- `SubInvariant`, `SettledStaysHolds`, `ResultToldHolds`: while nothing was spoiled, one of a
  sub-agent's two threads at a time is between opening the manifest and leaving it, and what a
  thread has written stands (`WritersApart`). So a final status stays final, which is the half
  of `SubAgentSettles` that is no liveness, and a result in the output file is of a manifest
  that says "completed".
- `TagInvariant` and `SplitsAlikeHolds`: however a text is cut into chunks, the panes show what
  reading it at once would, and what is stored of a text with paired tags is what was shown as
  the answer. Between two angles of a tag there is no third (`NoAngleWithin`), so no two tags
  share a place (`TagsApart`), and the tags of the buffer are the tags of the text that lie in it
  (`TagsOfPart`): the first tag found is the next one of the text. The heart is `TagHeld`, about
  `_partial_tail`: wherever the text is cut inside a tag, what has arrived of it is a prefix of
  an opening or a closing tag but for blanks (`Begun`), so everything from its angle on is held back.
  The invariant says that the buffer begins where no tag is cut, that the channel is the one of that place
  and that the panes are right up to there. `TagTypesHold` follows from it. That
  an opening tag has a next closing one and a place a last tag before it, for what is stored, are
  least numbers (`FirstOf`, `LastOf`), so no induction over the text is needed.
- `ServicesTypesHold`: the types of all six.

DeploymentsProofs, for any number of slugs, ports, sessions and deploys:

- `AppInvariant`: jobs that run at one time have met. `PortHeld`: a job with a port found it free,
  or it has met who took it. `IntrudersMet`: who is still at work on somebody
  else's app has met a deployment of theirs. `RowsAllow` and `JobsAllow`: each part of a
  directory, live or parked, was written by somebody the row's owner, or the job that is about
  to write the row, is allowed to have there; the latter from the operation on that writes it.
- `PortsApartHolds`, `FilesAreOwnHolds` follow.
- `SoleInvariant`, `AloneServedHolds`: for a job that nothing conflicts with (`Sole`), a part for
  its row, its unit, its files, its build and its route, each true from the operation on that
  writes it. `EffectApart`, `JobApart` and `RequestApart` show that no other step reaches them, except
  a regeneration, which for the same owner writes what the row says; one of the `Sole...` lemmas per
  operation shows what the job itself adds. `UndisturbedBefore`: who is undisturbed after a step
  was so before it, since nobody's slug or owner changes once it is known (`MetKnown`,
  `OwnersLate`).

HostProofs:

- `ProcInvariant`, `OnlyOwnStoppedHolds`: while no pid that a call rests on was given out twice, every
  pid in it is the session's own or nobody's. A child's session is its parent's, so the
  set of the session's processes is closed and holds `Tree` of its members.
- `CleanInvariant`, `TurnEndCleanHolds`: at each step of a clean-up that nothing disturbs, the
  running processes of the session are those it still has to deal with.
- `CommitInvariant`, `CommitsWhereToldHolds`: a job under which HEAD has not moved works on the
  branch HEAD is on, whose name it has read, or not read at all, or, after a checkout that was
  reported as failed, on its session's branch.
- `HostTypes`.

DeletionProofs, for any number of sessions, apps, deploys and deletions, with all the
steps of Deployments in between:

- `TypesInvariant`, `DeletionTypesHold`: types, and for each deletion which sessions and apps
  it has left at which step (`Shape`).
- `LoopInvariant`, `NoneStuckHolds`: an asynchronous deletion that runs keeps the event loop
  except while it waits for the agent, when another may have it; so a deletion that could have
  the loop always meets the guard of one of its steps (`Proceeds`), whatever deploys,
  requests, turns, other deletions and restarts have done. This is `NeverStuck` with the
  guards written out in place of ENABLED.
- `TraceInvariant`, `NoTraceHolds`. A deleted session's files may be anywhere a deploy of it
  wrote, so the invariant follows every part of every directory to its author.
  Rows name live sessions (`RowsLive`) and without a row, what is left was written by a deploy
  that is still at work or whose session is late (`Rowless`). A deploy or turn of a session that is
  gone or being deleted is at work only if the session is late (`Quiet`, and
  `StraysLate` for threads that outlive their task). For each deletion under way: the same
  of the apps it has torn down (`AppsCleared`), also while it is in the middle of one
  (`UnitDown`), and nothing is left of what it has purged (`Purged`); for those that
  are over, `Gone`.

Attempts at these proofs corrected five statements and one definition, each with a
counterexample beyond the bounds of the runs:

- `PortsApart` and `FilesAreOwn` named the deployments that wrote the two rows; with three deploys it
  may be an earlier one for the same slug that overlapped.
- `AloneServed` forgot slugs that change hands: with four deploys, one of the same owner may redeploy a
  slug that meanwhile was deleted and taken by somebody else, update that one's row, and
  regenerate the routes for him, which drops its own user's (hence the third part of
  `Undisturbed`).
- `OnlyOwnStopped` forgot pids met between the two looks at `ps`; with one of them given out again
  a call may follow it to a stranger's child (hence `via`).
- `NoTrace` forgot that a session of the same owner may redeploy over the app.
- `late` forgot the synchronous deletion of an app that has changed hands, after which the
  new session's own deletion finds no row.

All theorems of a module rest on its named assumptions about the constants only
(`TurnAssumption`, `DeployAssumption`, ...), which say that bounds are numbers, and that markers
like `Nobody` are no members of the sets they complement. The bounds (`NumDeploys`,
`MaxEvents`, `MaxStarts`, ...) may be any number, so they bound nothing in a theorem.

Model-checked only:

- liveness under fairness (`CancelEnds`, `PromiseFulfilled`, `WorkEnds`) and the ENABLED in
  `NeverStuck`: not expressible to the provers (`NoneStuckHolds` proves the guards; that a
  step whose guard holds has an outcome is what TLC adds);
- `RepairMends` for histories with results nobody asked for: the pass over the results
  is a fold; the loop never makes such a history, as `InputAcceptedHolds` shows;
- the liveness part of the refinement of TurnPromise; the safety part is `KeepsPromiseSafely`.

## 5. Where the code departs from its comments

Each of these is a run that TLC ends with a counterexample; the quotes are in
`PROJECT.json`.

1. `Turn_zombie`: the next turn reads the checkpoint while the cancelled turn's
   thread still writes it.
2. `Feed_gap`: an event of the watermark's second that was missed live is never
   replayed.
3. `Agent_gate`: a turn is let go with an app that is not verified, and the model was never
   sent back. `gate_started_at` is reset to 0.0 (`session_runner.py` 216), which
   `budget_exhausted` takes for a time (`verify_gate.py` 172), so the budget is used up before the gate
   first looks, while the docstring of `node_gate` (`nodes.py` 1104-1118) has it force. Also proved:
   `GateNeverForces`.

These are kept as definitions next to what holds; adding one to the configuration
named gives its counterexample:

| Definition | Configuration | Why it fails |
|---|---|---|
| `OneTurnAtATime` | `Turn_lifecycle` | two POSTs that waited for the same turn both start one |
| `AnswerIsOwn` | `Turn_lifecycle` | a turn that ends without visible text stores an earlier turn's answer |
| `NoBleed` | `Feed_stream` | the guard against late answers compares a constant with itself |
| `RunningRouted` | `Apps_deploys` | regenerating the routes drops those of running apps in several ways (below) |
| `HonestModel` | `Services` | prompts name the globals, clients are built from the rows |
| `DirectoriesGo` | `Services` | the directory of a session that root made for a user stays when the user goes |
| `FinishedKept` | `Services` | the watchdog reads "running", the worker completes, the watchdog writes "failed" |
| `TurnCommits` | `Host` | a session's first turn in a repository on `main` stays there because its own edits make the tree dirty (`git_autocommit.py` 170-174), is refused there (254-263), and commits nothing, against line 5 |
| `SessionsIsolated` | `Host` | `git add -A` commits what another session left in the shared tree |
| `UserNameKept` | `Services` | the title is suggested for a placeholder and written over the user's name |
| `StoredAsShown` | `Services` | a stray or unclosed tag is consumed on screen and stays in the row |

Met while modelling and not stated as properties:

- Turns: a cancel before the task's first step, or a database that refuses the prompt's row, ends an
  accepted prompt without any event (TurnPromise calls it withdrawn); a cancelled turn whose worker is past its
  check closes its text stream twice; the cancel handler reads the checkpoint, appends and writes
  (`session_runner.py` 295-309), and so drops what its own worker, still running, saved in between; the registry may lack a live turn after a
  race between callback and POST; a prompt saved by the cancel handler can be
  overwritten by the old worker's next checkpoint; a cancel during the port clean-up
  or the commit leaves the files of the turn uncommitted.
- Page: an event that is delivered live between request and answer of a catch-up is
  applied twice; a page whose session had no events has watermark 0 and sends no
  catch-up request although the comment calls that "full replay".
- Compaction: POST `/compact` updates `live_messages`, which is no channel of
  `RunnerState`.
- Repetition guard: "oldest entry is evicted" is not what the code does.
- Deployments: regenerating the fragments wipes other owners' routes and the
  placeholders of deploys in flight (`app.py` 3578); a rollback after the row is written
  leaves a running row without a route, and the rollback of a redeploy in place
  unlinks the running app's fragment; redeploying a paused app ends running but
  unrouted; a soft start failure is overwritten by "running"; partial files of a
  failed first deploy stay without a row; deleting a paused app leaves its directory
  under `.stopped`; a port is chosen long before it is recorded; a redeploy updates the row of
  whoever has the slug by then, regenerates the routes for that user, and so drops those
  of its own user's running apps (`app.py` 4430).
- Deletion: a job's cancel is honoured only before it starts and while it waits for the
  agent; a failing teardown is swallowed and the job reports "done" although
  `app.py` 2265 says "failed" if any step failed; another deploy's regeneration can
  write the fragment again; a project job raises IndexError if a session is added
  between POST and start; only the wrapper's pid is signalled; a zombie turn writes
  checkpoint and state directory again; the synchronous deletion stops at the first
  directory it cannot remove; a threadpool thread calls `task.cancel()`.
- Accounts: `auth.verify_token` does not exist, so endpoints that require a token
  that way always fail; two users whose e-mails have the same local part get the same
  default workspace; first requests that race write different secrets; the root row is
  checked and then created, which fails for the second of two; after a reset of root's password the old one from the environment
  still logs in (`auth.py` 234-241 against 204-206); root's e-mail can be signed up, with the role of a user
  (168-187), who then is what root's login finds; a user's deletion goes on when the clean-up failed
  (`app.py` 5804-5811), and directories then stay that no row leads to.
- Settings: an overridden provider is called with the active one's key and base URL
  (`nodes.py` 206-211), in the provider test, too (`app.py` 6010); a lookup that read an old price may
  cache it after the change; the calls of a cancelled turn's worker are shown by no turn, or by the next.
- Commits: a `current_branch` that fails or takes too long returns "", which is no protected branch, so
  the commit goes to whatever HEAD is on, `main` included (`git_autocommit.py` 82-85, 115-117, 160-161
  and 254, against 190); a checkout that is done but reported as failed lets the job report another branch
  than the one it commits to.
- Sub-agents: if the watchdog's thread cannot be started (`multi_agent.py` 442), nothing limits the sub-agent.
- Names: two turns that end while the placeholder stands both ask for a title, and the second is written over
  the first.
- Inline reasoning: text like `<thi<think></think>nk>` is shown with a tag.

## 6. What is not modelled

`PROJECT.json` lists every component with its status. Left out of the modelled ones:
attachments and questions of the agent (langgraph's interrupt) in a turn; the
staleness reminder of the plan; WebReporter's bookkeeping of blocks and the registry of
buses; certificates and the content of files in a deploy; PATCH of project settings
and the administrator's shell; the YAML and environment files behind the defaults;
the summary and the thresholds of compaction and POST `/compact`; failures of the database
inside a deletion, and inside the handlers that end a turn.

Not modelled at all: text classification of commands and paths, permissions (fixed rules,
answered in the calling thread), the repetition guard (a locked table that changes a
message), the tools' wrappers, prompts, tracing, presentation, templates,
installation scripts and plain CRUD endpoints, which have no state of their own to
get wrong; the bytes of messages, token arithmetic and formatting. A server restart
during a turn loses the registry and the threads together and is `Interrupt` to the
history. In TurnLifecycle, auto-rename, the commit and the processes of a session are steps
without effect; SessionNames, Commits and Processes are about these. The page's load
of its history is over when EventFeed begins. Memory order below the level of one
Python bytecode is not modelled: the interpreter lock makes each shared read and
write atomic.

## 7. Plan

All modules of the plan are written, and all safety properties but those named at the end of
section 4 are proved. What is left, in this order:

1. `TurnPromise` with the questions of the agent (langgraph's interrupt), and a cancel during
   the late awaits of `run_turn`, which is a listed hazard without a property.
2. POST `/compact` beside a turn, and the registry of buses beside a WebReporter, the
   other two hazards of stale state without one.
