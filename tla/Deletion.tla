------------------------------- MODULE Deletion -------------------------------
(***************************************************************************)
(* Deleting sessions and projects (server/app.py 1057-1568, 2117-2606)      *)
(* beside deploys, requests and turns.  The asynchronous job is one          *)
(* coroutine: it lets the event loop go only while it waits for the agent,   *)
(* so from there on nothing but threads runs beside it.  The synchronous      *)
(* DELETE runs in a thread and waits for nothing.                              *)
(***************************************************************************)
EXTENDS Deployments

CONSTANTS
  ProjectOf,    \* the project of each session
  NumDeletes,   \* deletions
  MaxPosts,     \* turns
  NoSession

ASSUME DeletionAssumption ==
  /\ {NumDeletes, MaxPosts} \subseteq Nat
  /\ {Nobody, NoSession} \cap Sessions = {}

VARIABLES
  projects,  \* rows of projects
  turn,      \* of each session: its task and its worker thread
  procs,     \* sessions with a registered process
  runs,      \* sessions with a process that runs
  ckpt,      \* sessions with a checkpoint or a state directory
  bus,       \* sessions with a SessionBus
  del,       \* _delete_jobs, and synchronous deletions
  loop,      \* the deletion that keeps the event loop, 0 if none does
  moved,     \* deploys whose thread is done with its operation and waits for the loop
  posts,     \* turns so far
  kept,      \* history: what a removal that may fail has left of a session
  late       \* history: sessions something else worked on while they were deleted

delVars == <<projects, turn, procs, runs, ckpt, bus, del, loop, moved, posts, kept, late>>
deletionVars == <<deployVars, delVars>>

Deletes == 1 .. NumDeletes
NoDel   == [status |-> "none", sync |-> FALSE, project |-> FALSE, target |-> NoSession, left |-> {},
            cur |-> NoSession, at |-> "none", apps |-> {}, app |-> Nobody, failed |-> FALSE, swallowed |-> FALSE,
            cancel |-> FALSE]

DeletionInit ==
  /\ DeployInit
  /\ projects = {ProjectOf[s] : s \in Sessions}
  /\ turn = [s \in Sessions |-> "none"]
  /\ procs = {} /\ runs = {} /\ ckpt = {} /\ bus = {} /\ kept = {}
  /\ del = [j \in Deletes |-> NoDel] /\ loop = 0 /\ moved = {} /\ posts = 0 /\ late = {}

Open(j)    == del[j].status \in {"pending", "running"}
Targets(j) == {s \in Sessions : IF del[j].project THEN ProjectOf[s] = ProjectOf[del[j].target]
                                ELSE s = del[j].target}
Under(s)   == \E j \in Deletes : Open(j) /\ s \in Targets(j)
\* Mutant: stopped apps are not removed.
RunningAppsOf(s) == {k \in Slugs : row[k].from = s /\ row[k].state = "running"}
AppsOf(s)  == {k \in Slugs : row[k].from = s}
Late(done) == late' = late \cup {s \in Sessions : Under(s) /\ done[s]}
Free       == loop = 0
Unmoved    == UNCHANGED <<projects, procs, runs, ckpt, bus, del, loop, moved, posts, kept>>

----------------------------------------------------------------------------
\* Turns, as far as a deletion meets them: a task and the thread that works for it.
Post(s) ==
  /\ Free /\ s \in sess /\ turn[s] = "none" /\ posts < MaxPosts /\ posts' = posts + 1
  /\ turn' = [turn EXCEPT ![s] = "running"] /\ bus' = bus \cup {s}
  /\ Late([t \in Sessions |-> t = s])
  /\ UNCHANGED <<deployVars, projects, procs, runs, kept, ckpt, del, loop, moved>>

\* The thread saves its state and starts a process, which is registered only for a
\* session with a row.
TurnWorks(s) ==
  /\ turn[s] # "none"
  /\ ckpt' = ckpt \cup {s}
  /\ procs' = (IF s \in sess THEN procs \cup {s} ELSE procs) /\ runs' = runs \cup {s}
  /\ Late([t \in Sessions |-> t = s])
  /\ UNCHANGED <<deployVars, projects, turn, bus, del, loop, moved, posts, kept>>

\* The task ends; a cancelled one may leave its thread behind.
TurnEnds(s) ==
  /\ \/ turn[s] = "running"    /\ Free /\ turn' = [turn EXCEPT ![s] = "none"]
     \/ turn[s] = "cancelling" /\ Free /\ turn' \in {[turn EXCEPT ![s] = w] : w \in {"none", "zombie"}}
     \/ turn[s] = "zombie"     /\ turn' = [turn EXCEPT ![s] = "none"]
  /\ UNCHANGED <<deployVars, late>> /\ Unmoved

----------------------------------------------------------------------------
Goes(j, to) == del' = [del EXCEPT ![j].at = to]
Ends(j, status) == del' = [del EXCEPT ![j] = [del[j] EXCEPT !.status = status, !.at = "none",
                                                            !.left = {}, !.cur = NoSession]]
              /\ loop' = (IF loop = j THEN 0 ELSE loop) /\ moved' = {}
At(j, step) == del[j].status = "running" /\ del[j].at = step /\ loop \in (IF del[j].sync THEN {0, loop} ELSE {j})
Cancelled(turns, s) == [turns EXCEPT ![s] = IF @ = "running" THEN "cancelling" ELSE @]
InProject(p) == {s \in sess : ProjectOf[s] = p}

\* POST /delete of a session or a project, or DELETE: one deletion of a target at a time,
\* unless it is synchronous.
AskDeletion(j, s, project, sync) ==
  /\ Free /\ del[j] = NoDel /\ \A i \in 1 .. j - 1 : del[i] # NoDel
  /\ s \in sess
  /\ sync \/ \A i \in Deletes : Open(i) /\ ~del[i].sync =>
                ~(del[i].project = project /\ (IF project THEN ProjectOf[del[i].target] = ProjectOf[s]
                                              ELSE del[i].target = s))
  /\ LET all == IF project THEN InProject(ProjectOf[s]) ELSE {s} IN
     /\ turn' = [t \in Sessions |-> IF t \in all /\ (project \/ sync) /\ turn[t] = "running"
                                    THEN "cancelling" ELSE turn[t]]
     /\ del' = [del EXCEPT ![j] = [NoDel EXCEPT !.status = IF sync THEN "running" ELSE "pending",
                                     !.at = IF sync THEN "next" ELSE "none", !.sync = sync,
                                     !.project = project, !.target = s, !.left = all]]
     /\ bus' = IF project \/ sync THEN bus ELSE bus \cup {s}
     /\ late' = late \cup {t \in all : turn[t] # "none" \/ Under(t)
                             \/ \E d \in Deploys : Active(d) /\ job[d].from = t}
  /\ UNCHANGED <<deployVars, projects, procs, runs, kept, ckpt, loop, moved, posts>>

\* POST /cancel of a deletion is a coroutine too.
AskCancel(j) ==
  /\ Free /\ Open(j) /\ ~del[j].sync /\ ~del[j].cancel
  /\ del' = [del EXCEPT ![j].cancel = TRUE]
  /\ UNCHANGED <<deployVars, projects, turn, procs, runs, kept, ckpt, bus, loop, moved, posts, late>>

\* The task starts and reads what there is to delete now.
Begin(j) ==
  /\ Free /\ del[j].status = "pending"
  /\ LET s == del[j].target
         gone == IF del[j].project THEN ProjectOf[s] \notin projects ELSE s \notin sess IN
     IF gone THEN Ends(j, "failed")
     ELSE /\ del' = [del EXCEPT ![j] = [del[j] EXCEPT !.status = "running", !.at = "next",
                       !.left = IF del[j].project THEN InProject(ProjectOf[s]) ELSE {s}]]
          /\ loop' = j /\ UNCHANGED moved
  /\ UNCHANGED <<deployVars, projects, turn, procs, runs, kept, ckpt, bus, posts, late>>

NextSession(j) ==
  /\ At(j, "next")
  /\ IF del[j].left = {} THEN Goes(j, "project") /\ UNCHANGED <<loop, moved>>
     ELSE IF del[j].cancel THEN Ends(j, "cancelled")
     ELSE \E s \in del[j].left :
            /\ del' = [del EXCEPT ![j] = [del[j] EXCEPT !.cur = s, !.left = del[j].left \ {s},
                                          !.at = IF del[j].sync THEN "processes" ELSE "agent"]]
            /\ UNCHANGED <<loop, moved>>
  /\ UNCHANGED <<deployVars, projects, turn, procs, runs, kept, ckpt, bus, posts, late>>

\* cancel_agent lets the loop go and waits 1.5 seconds for the task.
CancelAgent(j) ==
  LET s == del[j].cur IN
  /\ At(j, "agent")
  /\ IF turn[s] \in {"running", "cancelling"}
     THEN turn' = Cancelled(turn, s) /\ Goes(j, "wait") /\ loop' = 0 /\ moved' = {}
     ELSE Goes(j, "processes") /\ UNCHANGED <<turn, loop, moved>>
  /\ UNCHANGED <<deployVars, projects, procs, runs, kept, ckpt, bus, posts, late>>

\* Mutant: the cancelled agent is awaited without a limit.
AgentAwaitedForGood(j) ==
  /\ del[j].status = "running" /\ del[j].at = "wait" /\ Free /\ turn[del[j].cur] = "none"
  /\ Goes(j, "processes") /\ loop' = j
  /\ UNCHANGED <<deployVars, projects, turn, procs, runs, kept, ckpt, bus, posts, moved, late>>

\* The task has ended, or not in time.
AgentAwaited(j) ==
  /\ del[j].status = "running" /\ del[j].at = "wait" /\ Free
  /\ IF del[j].cancel THEN Ends(j, "cancelled")
     ELSE Goes(j, "processes") /\ loop' = j /\ UNCHANGED moved
  /\ late' = IF turn[del[j].cur] # "none" THEN late \cup {del[j].cur} ELSE late
  /\ UNCHANGED <<deployVars, projects, turn, procs, runs, kept, ckpt, bus, posts>>

\* A step that ignores its own failure has left what session s has of this kind.
Leaves(what, s) == MayFail /\ kept' = kept \cup {<<what, s>>}

\* Registered processes get a SIGTERM, whatever becomes of it, and none stays registered.
KillProcesses(j) ==
  LET s == del[j].cur IN
  /\ At(j, "processes")
  /\ procs' = procs \ {s}
  /\ \/ /\ runs' = IF s \in procs /\ <<"process", s>> \notin kept THEN runs \ {s} ELSE runs
        /\ UNCHANGED kept
     \/ s \in procs /\ UNCHANGED runs /\ Leaves("process", s)
  /\ Goes(j, "list")
  /\ UNCHANGED <<deployVars, projects, turn, ckpt, bus, loop, moved, posts, late>>

ListApps(j) ==
  /\ At(j, "list")
  /\ del' = [del EXCEPT ![j].apps = AppsOf(del[j].cur), ![j].at = "apps"]
  /\ UNCHANGED <<deployVars, projects, turn, procs, runs, kept, ckpt, bus, loop, moved, posts, late>>

\* One app after another: its unit and fragment, its directories, its rows.  What stays is
\* logged; the step is done all the same, but a directory that stays makes a synchronous
\* deletion leave the other apps alone.  It also drops the row by its slug, whoever's app that is by now,
\* though what was written for that one since stays.
TearDown(j, k) ==
  /\ At(j, "apps") /\ k \in del[j].apps
  /\ \E stays \in SUBSET {"unit", "route"} :
       /\ "unit" \in stays => MayFail /\ unit[k] # NoUnit
       /\ "route" \in stays => MayFail /\ route[k] # NoRoute
       /\ unit' = IF "unit" \in stays THEN unit ELSE [unit EXCEPT ![k] = NoUnit]
       /\ route' = IF "route" \in stays THEN route ELSE [route EXCEPT ![k] = NoRoute]
       /\ del' = [del EXCEPT ![j] = [del[j] EXCEPT !.at = "tree", !.app = k,
                                                   !.swallowed = @ \/ stays # {}]]
  /\ UNCHANGED <<sess, row, svc, files, parked, src, built, jobVars, req, count, met>>
  /\ UNCHANGED <<projects, turn, procs, runs, kept, ckpt, bus, loop, moved, posts, late>>

RemoveApp(j) ==
  LET k == del[j].app
      Next(apps) == [del[j] EXCEPT !.at = "apps", !.app = Nobody, !.apps = apps] IN
  /\ At(j, "tree")
  /\ \/ /\ files' = [files EXCEPT ![k] = Empty] /\ parked' = [parked EXCEPT ![k] = Empty]
        /\ svc' = svc \ {k}
        /\ row' = IF del[j].sync THEN [row EXCEPT ![k] = NoRow] ELSE row
        /\ del' = [del EXCEPT ![j] = Next(del[j].apps \ {k})]
     \/ /\ MayFail /\ (files[k] # Empty \/ parked[k] # Empty)
        /\ del' = [del EXCEPT ![j] = [Next(IF del[j].sync THEN {} ELSE del[j].apps \ {k})
                                       EXCEPT !.swallowed = TRUE]]
        /\ UNCHANGED <<files, parked, svc, row>>
  /\ late' = late \cup {s \in Sessions : Has(k) /\ row'[k] = NoRow /\ row[k].from # del[j].cur
                                          /\ unit[k].by # 0 /\ job[unit[k].by].from = s}
  /\ UNCHANGED <<sess, route, unit, src, built, jobVars, req, count, met>>
  /\ UNCHANGED <<projects, turn, procs, runs, kept, ckpt, bus, loop, moved, posts>>

AppsGone(j) ==
  /\ At(j, "apps") /\ del[j].apps = {}
  /\ Goes(j, "workspace")
  /\ UNCHANGED <<deployVars, projects, turn, procs, runs, kept, ckpt, bus, loop, moved, posts, late>>

\* The subdirectory is found through the project's row; rmtree ignores what it cannot remove.
RemoveWorkspace(j) ==
  LET s == del[j].cur
      found == ProjectOf[s] \in projects
      Cleared(f) == IF found THEN [f EXCEPT ![s] = 0] ELSE f IN
  /\ At(j, "workspace")
  /\ \/ src' = Cleared(src) /\ built' = Cleared(built) /\ UNCHANGED kept
     \/ found /\ src[s] # 0 /\ UNCHANGED <<src, built>> /\ Leaves("workspace", s)
  /\ Goes(j, "checkpoint")
  /\ UNCHANGED <<sess, appVars, jobVars, req, count, met>>
  /\ UNCHANGED <<projects, turn, procs, runs, ckpt, bus, loop, moved, posts, late>>

\* The checkpointer's delete_thread, SQL in its place, and the state directory swallow all.
DropCheckpoint(j) ==
  LET s == del[j].cur IN
  /\ At(j, "checkpoint")
  /\ \/ ckpt' = ckpt \ {s} /\ UNCHANGED kept
     \/ s \in ckpt /\ UNCHANGED ckpt /\ Leaves("checkpoint", s)
  /\ Goes(j, "bus")
  /\ UNCHANGED <<deployVars, projects, turn, procs, runs, bus, loop, moved, posts, late>>

ClearBus(j) ==
  /\ At(j, "bus")
  /\ bus' = bus \ {del[j].cur}
  /\ Goes(j, "rows")
  /\ UNCHANGED <<deployVars, projects, turn, procs, runs, kept, ckpt, loop, moved, posts, late>>

\* DELETE FROM sessions, with the rows that cascade.
Dropped(gone) ==
  /\ sess' = sess \ gone
  /\ row' = [k \in Slugs |-> IF row[k].from \in gone THEN NoRow ELSE row[k]]
  /\ procs' = procs \ gone
  /\ UNCHANGED <<svc, files, parked, route, unit, src, built, jobVars, req, count, met>>

DropRows(j) ==
  LET s == del[j].cur IN
  /\ At(j, "rows")
  /\ IF del[j].project THEN UNCHANGED <<deployVars, procs>> /\ Goes(j, "next")
     ELSE /\ Dropped({s})
          /\ del' = [del EXCEPT ![j].failed = @ \/ s \notin sess, ![j].at = "next"]
  /\ UNCHANGED <<projects, turn, runs, ckpt, bus, loop, moved, posts, kept, late>>

\* Mutant: foreign keys are not enforced.
DropProjectAlone(j) ==
  /\ At(j, "project") /\ Ends(j, "succeeded")
  /\ projects' = IF del[j].project THEN projects \ {ProjectOf[del[j].target]} ELSE projects
  /\ UNCHANGED <<deployVars, turn, procs, runs, ckpt, bus, posts, kept, late>>

\* A project's row goes last and takes its sessions' rows along.
DropProject(j) ==
  LET p == ProjectOf[del[j].target] IN
  /\ At(j, "project")
  /\ IF del[j].project
     THEN /\ Dropped(InProject(p)) /\ projects' = projects \ {p}
          /\ Ends(j, IF del[j].failed \/ p \notin projects THEN "failed" ELSE "succeeded")
     ELSE /\ UNCHANGED <<deployVars, projects, procs>>
          /\ Ends(j, IF del[j].failed THEN "failed" ELSE "succeeded")
  /\ UNCHANGED <<turn, runs, ckpt, bus, posts, kept, late>>

DeleteStep(j) ==
  \/ Begin(j) \/ NextSession(j) \/ CancelAgent(j) \/ AgentAwaited(j) \/ KillProcesses(j)
  \/ ListApps(j) \/ (\E k \in Slugs : TearDown(j, k)) \/ RemoveApp(j) \/ AppsGone(j)
  \/ RemoveWorkspace(j) \/ DropCheckpoint(j) \/ ClearBus(j) \/ DropRows(j) \/ DropProject(j)

----------------------------------------------------------------------------
\* Who wrote what is there for slug k.
Authors(k) == {files[k][p] : p \in Parts} \cup {parked[k][p] : p \in Parts} \cup {unit[k].by}

\* What else happens to the apps: steps of a deploy's task need the event loop, its
\* operation in a thread does not, but only one of them fits in beside a deletion.
\* A deployment that fails, one into an app of a session that is being deleted, and an app
\* whose row goes before all that was written for it, leave behind what no row leads to.
Touched(s) ==
  \/ \E d \in Deploys : (Active(d) \/ job'[d].status = "pending") /\ job'[d].from = s
  \/ \E k \in AppsOf(s) : \/ <<route[k], unit[k], files[k], parked[k]>>'
                              # <<route[k], unit[k], files[k], parked[k]>>
                          \/ req.slug = k
Abandoned(s) ==
  \E d \in Deploys :
    \/ job'[d].from = s /\ job'[d].status \in {"failed", "cancelled"}
    \/ job[d].from = s /\ Active(d) /\ Under(row[job[d].slug].from)
    \/ job[d].from = s /\ \E k \in Slugs : Has(k) /\ row'[k] = NoRow /\ d \in Authors(k)'
Beside == late' = late \cup {s \in Sessions : (Under(s) /\ Touched(s)) \/ Abandoned(s)}

OnLoop ==
  /\ Free
  /\ \/ \E d \in Deploys, s \in Sessions, k \in Slugs, full \in Kinds : Deploy(d, s, k, full)
     \/ \E d \in Deploys : \/ Cancel(d) \/ Validate(d) \/ OperationFails(d) \/ StartFails(d)
                           \/ Prepare(d) \/ RecordRow(d) \/ Finish(d) \/ Sweep(d)
  /\ UNCHANGED moved

InThread ==
  \/ /\ \/ \E s \in Sessions : turn[s] # "none" /\ Edit(s)
        \/ \E d \in Deploys : StrayEnds(d)
        \/ \E k \in Slugs : AskStart(k) \/ AskStop(k) \/ AskDelete(k)
        \/ RequestStep
        \/ Reap
     /\ UNCHANGED moved
  \/ \E d \in Deploys \ moved : Operate(d) /\ moved' = IF Free THEN {} ELSE moved \cup {d}

\* Nothing in memory survives a restart.
Crash ==
  /\ Restart
  /\ turn' = [s \in Sessions |-> "none"] /\ bus' = {} /\ loop' = 0 /\ moved' = {}
  /\ del' = [j \in Deletes |-> IF del[j] = NoDel THEN NoDel ELSE [NoDel EXCEPT !.status = "lost"]]
  /\ late' = late \cup {s \in Sessions : Under(s)}
  /\ UNCHANGED <<projects, procs, runs, ckpt, posts, kept>>

DeletionNext ==
  \/ \E s \in Sessions : Post(s) \/ TurnWorks(s) \/ TurnEnds(s)
  \/ \E j \in Deletes, s \in Sessions, project, sync \in BOOLEAN : AskDeletion(j, s, project, sync)
  \/ \E j \in Deletes : AskCancel(j) \/ DeleteStep(j)
  \/ (OnLoop \/ InThread) /\ Beside /\ UNCHANGED <<projects, turn, procs, runs, kept, ckpt, bus, del, loop, posts>>
  \/ Crash

DeletionSpec == DeletionInit /\ [][DeletionNext]_deletionVars
----------------------------------------------------------------------------
\* Types of jobs and turns; sessions belong to projects and only the running job is
\* being worked on.
DeletionTypeOK ==
  /\ DeployTypeOK
  /\ \A s \in Sessions : turn[s] \in {"none", "running", "cancelling", "zombie"}
  /\ procs \subseteq sess /\ runs \cup ckpt \cup bus \cup late \subseteq Sessions
  /\ kept \subseteq {"process", "workspace", "checkpoint"} \X Sessions
  /\ loop \in Deletes \cup {0} /\ moved \subseteq Deploys
  /\ loop # 0 => del[loop].status = "running" /\ ~del[loop].sync
  /\ \A j \in Deletes : Open(j) => del[j].left \subseteq Sessions /\ del[j].apps \subseteq Slugs
  /\ \A s \in sess : ProjectOf[s] \in projects

\* Nothing of session s is left but what the removal of just that has left.
Traceless(s) ==
  /\ s \notin procs \cup bus
  /\ s \in runs => <<"process", s>> \in kept
  /\ s \in ckpt => <<"checkpoint", s>> \in kept
  /\ src[s] # 0 => <<"workspace", s>> \in kept

\* What session s deployed over an app of another session of its owner is that app's.
Appless(s) ==
  \A k \in Slugs : \A d \in Authors(k) \ {0} :
    job[d].from = s => Has(k) /\ row[k].from # s

\* A session that was deleted while nothing else worked on it leaves no trace: no row of a
\* process, no bus, no process, checkpoint or workspace but one whose own removal failed, and,
\* unless something of an app stayed, no file or unit it deployed but in another session's
\* app.  One step's failure costs none of the others (_run_delete_job,
\* _purge_session_everything).
NoTrace ==
  \A s \in Sessions \ (sess \cup late) :
    Traceless(s) /\ ((\A j \in Deletes : ~del[j].swallowed) => Appless(s))

\* A deletion never has to wait for anything but the event loop: not for the agent it
\* cancels, nor for an app it cannot remove.
NeverStuck ==
  \A j \in Deletes : Open(j) /\ (del[j].sync \/ loop \in {0, j}) => ENABLED DeleteStep(j)
=============================================================================
