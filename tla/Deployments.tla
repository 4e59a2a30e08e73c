----------------------------- MODULE Deployments -----------------------------
(***************************************************************************)
(* Deployed apps (server/app.py 128-353, 2002-2114, 3134-4530, 5395-5495,  *)
(* server/db.py 1145-1410): the rows of deployed_apps, what is on disk for *)
(* them, and the deploy jobs, toggle requests and restarts that change it. *)
(*                                                                         *)
(* A deploy job is an asyncio task that hands one blocking operation after *)
(* another to an executor thread.  Cancelling the task does not stop the   *)
(* thread: its operation may still take effect afterwards (stray).         *)
(* Toggle and delete requests run in threads of their own, so every step   *)
(* of theirs may fall between any two steps of a job.                      *)
(***************************************************************************)
EXTENDS Integers, FiniteSets, Sequences

CONSTANTS
  Sessions, Slugs, Nobody,
  OwnerOf,       \* the user who owns each session
  Ready,         \* sessions that have built something to deploy
  NumPorts,      \* ports 9100..9899 of the apps
  NumDeploys,    \* POSTs /deploy
  MaxEvents,     \* start, stop and delete requests, restarts, POSTs /admin/reap-orphans and edits
  Kinds,         \* deploys asked for: of full-stack apps, of static ones
  MayFail,       \* may blocking operations fail
  MayCancel      \* may deploys be cancelled

ASSUME DeployAssumption ==
  /\ {NumPorts, NumDeploys, MaxEvents} \subseteq Nat
  /\ Kinds \cup {MayFail, MayCancel} \subseteq BOOLEAN
  /\ Nobody \notin Slugs /\ \A s \in Sessions : OwnerOf[s] # Nobody

VARIABLES
  sess,    \* rows of sessions
  row,     \* rows of deployed_apps, by slug
  svc,     \* slugs with an ojas_services row
  files,   \* /opt/ojas-apps/<slug>: which job wrote each part
  parked,  \* /opt/ojas-apps/.stopped/<slug>
  route,   \* /etc/caddy/routes.d/<slug>.caddy
  unit,    \* ojas-app-<slug>.service
  src,     \* version of each session's sources, 0 without a workspace
  built,   \* version its dist/ was built from
  job,     \* _deploy_jobs
  stray,   \* the operation a cancelled job's thread is still in
  req,     \* the toggle or delete request under way
  count,   \* requests, restarts, reaps and edits so far
  met      \* history: what each job ran beside

appVars == <<row, svc, files, parked, route, unit>>
jobVars == <<job, stray>>
deployVars == <<sess, appVars, src, built, jobVars, req, count, met>>

Deploys == 1 .. NumDeploys
Ports   == 1 .. NumPorts

NoRow  == [owner |-> Nobody, from |-> Nobody, state |-> "none", port |-> 0, by |-> 0]
Parts  == {"dir", "root", "static", "pwa", "backend", "deps"}
Empty  == [p \in Parts |-> 0]
NoUnit == [port |-> 0, enabled |-> FALSE, on |-> 0, by |-> 0]   \* on: the port it listens on
NoJob  == [status |-> "none", at |-> "none", slug |-> Nobody, from |-> Nobody, full |-> FALSE,
           was |-> NoRow, port |-> 0, owner |-> Nobody, asked |-> 0, ver |-> 0]
NoReq  == [kind |-> "none", slug |-> Nobody, at |-> 0, app |-> NoRow]

Has(k) == row[k] # NoRow

\* Blocking operations run in the executor; "prepare", "row" and "finish" are code of
\* the task itself.  Operations only a full-stack app needs are skipped otherwise.
Pipeline == <<"eager", "prepare", "rebuild", "copy", "pwa", "backend", "deps", "port",
              "unit", "enable", "row", "regen", "start", "finish">>
FullOnly == {"backend", "deps", "port", "unit", "enable", "start"}
OwnCode  == {"prepare", "row", "finish"}

After(op, full) ==
  LET i == CHOOSE n \in DOMAIN Pipeline : Pipeline[n] = op
      Later == {n \in DOMAIN Pipeline : n > i /\ (full \/ Pipeline[n] \notin FullOnly)}
  IN  Pipeline[CHOOSE n \in Later : \A m \in Later : n <= m]

InFlight(d) == job[d].status \in {"pending", "running"}
Active(d)   == InFlight(d) \/ stray[d] # "none"
Ended       == {"succeeded", "failed", "cancelled"}

DeployInit ==
  /\ sess = Sessions
  /\ row = [k \in Slugs |-> NoRow] /\ svc = {}
  /\ files = [k \in Slugs |-> Empty] /\ parked = [k \in Slugs |-> Empty]
  /\ route = [k \in Slugs |-> [kind |-> "none", port |-> 0]]
  /\ unit = [k \in Slugs |-> NoUnit]
  /\ src = [s \in Sessions |-> 1] /\ built = [s \in Sessions |-> IF s \in Ready THEN 1 ELSE 0]
  /\ job = [d \in Deploys |-> NoJob] /\ stray = [d \in Deploys |-> "none"]
  /\ req = NoReq
  /\ count = 0
  /\ met = [d \in Deploys |-> {}]

----------------------------------------------------------------------------
\* The state machine of a row.
Transitions ==
  [running  |-> {"stopped", "starting", "error"}, stopped |-> {"running", "starting"},
   starting |-> {"running", "error", "stopped"},  error   |-> {"stopped", "starting"}]

\* set_deployed_app_state on a row r: silently refused for a missing row or an
\* illegal step.
InState(r, new) ==
  IF r # NoRow /\ (new = r.state \/ new \in Transitions[r.state])
  THEN [r EXCEPT !.state = new] ELSE r

SetState(k, new) == row' = [row EXCEPT ![k] = InState(@, new)]

\* What a fragment for a running app serves: its files, or its files and its port.
RouteOf(r) == IF r.port # 0 THEN [kind |-> "full", port |-> r.port]
              ELSE [kind |-> "static", port |-> 0]
NoRoute     == [kind |-> "none", port |-> 0]
Placeholder == [kind |-> "deploying", port |-> 0]

\* Mutant: static apps get no route.
RegeneratedFullStackOnly(owner, rows) ==
  [k \in Slugs |->
     IF rows[k].state = "running" /\ rows[k].owner \in {owner, Nobody} /\ rows[k].port # 0
     THEN RouteOf(rows[k]) ELSE route[k]]

\* Only the owner's rows (and those nobody owns) are read, but every fragment that is
\* not among them is wiped.
Regenerated(owner, rows) ==
  [k \in Slugs |->
     IF /\ rows[k].state = "running"
        /\ owner = Nobody \/ rows[k].owner \in {owner, Nobody}
     THEN RouteOf(rows[k]) ELSE NoRoute]

\* A rename fails when the target holds anything.
Bare(tree) == \A p \in Parts \ {"dir"} : tree[p] = 0
ToLive(k)   == files'  = [files EXCEPT ![k] = parked[k]] /\ parked' = [parked EXCEPT ![k] = Empty]
ToParked(k) == parked' = [parked EXCEPT ![k] = files[k]] /\ files'  = [files EXCEPT ![k] = Empty]

\* _apply_app_state_to_disk; `ok` says whether it returns or raises.
Placed(k, state, ok) ==
  IF state = "stopped"
  THEN IF files[k] = Empty THEN ok /\ UNCHANGED <<files, parked>>
       ELSE IF Bare(parked[k]) THEN ok /\ ToParked(k) ELSE ~ok /\ UNCHANGED <<files, parked>>
  ELSE IF parked[k] = Empty THEN ok /\ UNCHANGED <<files, parked>>
       ELSE IF Bare(files[k]) THEN ok /\ ToLive(k) ELSE ~ok /\ UNCHANGED <<files, parked>>

----------------------------------------------------------------------------
\* History: job d runs beside another job e, or beside a request on its slug or of
\* another owner.
Conflicts(r, d) == r.kind # "none" /\ (r.slug = job'[d].slug \/ r.app.owner # OwnerOf[job'[d].from])

Meet ==
  LET active == {d \in Deploys : job'[d].status \in {"pending", "running"} \/ stray'[d] # "none"}
  IN  met' = [d \in Deploys |->
                IF d \notin active THEN met[d]
                ELSE met[d] \cup (active \ {d})
                            \cup (IF Conflicts(req', d) \/ Conflicts(req, d) THEN {0} ELSE {})]
Overlap(d, e) == d \in met[e] \/ e \in met[d]

\* Nothing conflicting happened beside d: other jobs were the same owner's, for other
\* slugs, and the apps they recorded were his, too (a slug may have changed hands since
\* the job was posted; it then regenerates the routes of whoever has it now).
Undisturbed(d) ==
  /\ 0 \notin met[d]
  /\ \A e \in met[d] : /\ job[e].slug # job[d].slug
                       /\ OwnerOf[job[e].from] = OwnerOf[job[d].from]
                       /\ job[e].owner \in {Nobody, OwnerOf[job[d].from]}

\* The agent edits the sources of a session; dist/ is now stale.
Edit(s) ==
  /\ s \in sess /\ src[s] > 0 /\ count < MaxEvents /\ count' = count + 1
  /\ src' = [src EXCEPT ![s] = @ + 1]
  /\ UNCHANGED <<sess, appVars, built, jobVars, req, met>>

\* Mutant: anybody may deploy to any slug.
MayUseAnySlug(s, k) == s \in sess /\ k \in Slugs
MayUse(s, k) == Has(k) => row[k].owner = OwnerOf[s]

\* POST /deploy: a slug of one's own is redeployed in place, any other must be free;
\* a session's app keeps its slug.
Deploy(d, s, k, full) ==
  /\ job[d] = NoJob /\ \A e \in 1 .. d - 1 : job[e] # NoJob
  /\ s \in sess /\ built[s] # 0
  /\ MayUse(s, k)
  /\ \A other \in Slugs \ {k} : row[other].from # s
  /\ job' = [job EXCEPT ![d] = [NoJob EXCEPT !.status = "pending", !.at = "validate", !.slug = k,
                                 !.from = s, !.full = full, !.was = row[k], !.asked = src[s]]]
  /\ UNCHANGED <<sess, appVars, src, built, stray, req, count>>
  /\ Meet

\* A finished job, without what nobody reads again.
Closed(j, status) == [j EXCEPT !.status = status, !.at = "none", !.was = NoRow, !.asked = 0, !.ver = 0]

\* _rollback_caddy and _set_terminal: the fragment goes, whatever it was.
RollBack(d, status) ==
  /\ route' = [route EXCEPT ![job[d].slug] = NoRoute]
  /\ job' = [job EXCEPT ![d] = Closed(@, status)]
  /\ UNCHANGED <<sess, row, svc, files, parked, unit, src, built, req, count>>

\* The task starts with a look at the bundle.
Validate(d) ==
  /\ job[d].status = "pending"
  /\ \/ /\ job' = [job EXCEPT ![d].status = "running", ![d].at = "eager"]
        /\ UNCHANGED <<sess, appVars, src, built, req, count>>
     \/ MayFail /\ RollBack(d, "failed")
  /\ UNCHANGED stray /\ Meet

----------------------------------------------------------------------------
\* The blocking operations.  Each says what the thread of job d does to the disk.
WritePlaceholder(k) ==
  /\ route' = [route EXCEPT ![k] = Placeholder]
  /\ UNCHANGED <<row, svc, files, parked, unit, built>>

\* npm run build when a source is newer than dist/index.html.
Rebuild(s) ==
  /\ built' = [built EXCEPT ![s] = IF src[s] > @ THEN src[s] ELSE @]
  /\ UNCHANGED appVars

\* A static site replaces the whole directory, a full-stack one its static/ only.
CopyDist(d) ==
  LET k == job[d].slug IN
  /\ built[job[d].from] # 0
  /\ files' = [files EXCEPT ![k] =
       IF job[d].full THEN [@ EXCEPT !["dir"] = d, !["static"] = d, !["pwa"] = 0]
       ELSE [Empty EXCEPT !["dir"] = d, !["root"] = d]]
  /\ UNCHANGED <<row, svc, parked, route, unit, built>>

\* Fills in what the build left out; does nothing without a directory.
InjectPwa(d) ==
  LET k == job[d].slug IN
  /\ files' = [files EXCEPT ![k] =
       IF @[IF job[d].full THEN "static" ELSE "root"] = 0 THEN @ ELSE [@ EXCEPT !["pwa"] = d]]
  /\ UNCHANGED <<row, svc, parked, route, unit, built>>

CopyBackend(d) ==
  /\ files' = IF built[job[d].from] = 0 THEN files
              ELSE [files EXCEPT ![job[d].slug] =
                      [@ EXCEPT !["dir"] = d, !["backend"] = d, !["deps"] = 0]]
  /\ UNCHANGED <<row, svc, parked, route, unit, built>>

\* The virtualenv and pip install -r.
InstallDeps(d) ==
  /\ built[job[d].from] # 0
  /\ files' = [files EXCEPT ![job[d].slug] = [@ EXCEPT !["dir"] = d, !["deps"] = d]]
  /\ UNCHANGED <<row, svc, parked, route, unit, built>>

WriteUnit(d) ==
  /\ unit' = [unit EXCEPT ![job[d].slug] = [@ EXCEPT !.port = job[d].port, !.by = d]]
  /\ UNCHANGED <<row, svc, files, parked, route, built>>

\* systemctl enable fails for a unit that is not there.
EnableService(k) ==
  /\ unit[k].port # 0
  /\ unit' = [unit EXCEPT ![k].enabled = TRUE]
  /\ UNCHANGED <<row, svc, files, parked, route, built>>

Regenerate(owner) ==
  /\ route' = Regenerated(owner, row)
  /\ UNCHANGED <<row, svc, files, parked, unit, built>>

\* systemctl restart; a unit that is not there cannot be started.
StartService(k) ==
  /\ unit[k].port # 0
  /\ unit' = [unit EXCEPT ![k].enabled = TRUE, ![k].on = unit[k].port]
  /\ UNCHANGED <<row, svc, files, parked, route, built>>

\* Mutant: the rows are not asked.
PortsNobodyListensOn == {p \in Ports : \A k \in Slugs : unit[k].on # p}
\* _allocate_app_port: the lowest port in no row and not being listened on.
FreePorts == {p \in Ports : \A k \in Slugs : row[k].port # p /\ unit[k].on # p}
PortOf(d) ==
  LET r == row[job[d].slug] IN
  IF r.port # 0 THEN {r.port} ELSE {p \in FreePorts : \A q \in FreePorts : p <= q}

Effect(op, d) ==
  \/ op = "eager"   /\ WritePlaceholder(job[d].slug)
  \/ op = "rebuild" /\ Rebuild(job[d].from)
  \/ op = "copy"    /\ CopyDist(d)
  \/ op = "pwa"     /\ InjectPwa(d)
  \/ op = "backend" /\ CopyBackend(d)
  \/ op = "deps"    /\ InstallDeps(d)
  \/ op = "port"    /\ PortOf(d) # {} /\ UNCHANGED <<appVars, built>>
  \/ op = "unit"    /\ WriteUnit(d)
  \/ op = "enable"  /\ EnableService(job[d].slug)
  \/ op = "regen"   /\ Regenerate(job[d].owner)
  \/ op = "start"   /\ StartService(job[d].slug)

Advance(d) == job' = [job EXCEPT ![d].at = After(@, job[d].full)]

\* An operation ends well and the task goes on to the next one.
Operate(d) ==
  LET at == job[d].at IN
  /\ job[d].status = "running"
  /\ Effect(at, d)
  /\ \E p \in IF at = "port" THEN PortOf(d) ELSE {job[d].port} :
       job' = [job EXCEPT ![d].at = After(at, job[d].full), ![d].port = p,
                          ![d].ver = IF at = "copy" THEN built[job[d].from] ELSE @]
  /\ UNCHANGED <<sess, src, stray, req, count>>
  /\ Meet

\* What makes an operation fail by itself.
Doomed(d) ==
  CASE job[d].at \in {"copy", "deps"} -> built[job[d].from] = 0
    [] job[d].at = "port"   -> PortOf(d) = {}
    [] job[d].at \in {"enable", "start"} -> unit[job[d].slug].port = 0
    [] OTHER -> FALSE

\* An operation raises.  The first and the last of them swallow what goes wrong.
OperationFails(d) ==
  /\ job[d].status = "running" /\ job[d].at \notin OwnCode \cup {"eager", "pwa", "start"}
  /\ MayFail \/ Doomed(d)
  /\ RollBack(d, "failed")
  /\ UNCHANGED stray /\ Meet

\* A service that does not start leaves the row "starting"; the job goes on.
StartFails(d) ==
  /\ job[d].status = "running" /\ job[d].at = "start"
  /\ MayFail \/ Doomed(d)
  /\ IF job[d].owner = Nobody THEN row' = row ELSE SetState(job[d].slug, "starting")
  /\ unit' = [unit EXCEPT ![job[d].slug].on = 0]
  /\ Advance(d)
  /\ UNCHANGED <<sess, svc, files, parked, route, src, built, stray, req, count>>
  /\ Meet

\* After the placeholder: a paused app's directory comes back, then mkdir.
Prepare(d) ==
  LET k == job[d].slug
      tree == IF parked[k] # Empty THEN parked[k] ELSE files[k]
  IN
  /\ job[d].status = "running" /\ job[d].at = "prepare"
  /\ IF parked[k] # Empty /\ ~Bare(files[k])
     THEN RollBack(d, "failed")
     ELSE /\ files' = [files EXCEPT ![k] = [tree EXCEPT !["dir"] = IF tree["dir"] = 0 THEN d ELSE tree["dir"]]]
          /\ parked' = [parked EXCEPT ![k] = Empty]
          /\ Advance(d)
          /\ UNCHANGED <<sess, row, svc, route, unit, src, built, req, count>>
  /\ UNCHANGED stray /\ Meet

\* Recording the deployment.  A redeploy updates whatever row there still is.
RecordRow(d) ==
  LET k == job[d].slug
      port == IF job[d].full THEN job[d].port ELSE 0
      new == [owner |-> OwnerOf[job[d].from], from |-> job[d].from, state |-> "running",
              port |-> port, by |-> d]
  IN
  /\ job[d].status = "running" /\ job[d].at = "row"
  /\ IF job[d].was = NoRow /\ (Has(k) \/ job[d].from \notin sess)
     THEN RollBack(d, "failed")
     ELSE /\ row' = [row EXCEPT ![k] =
                IF job[d].was = NoRow THEN new
                ELSE IF @ = NoRow THEN @
                ELSE [@ EXCEPT !.port = IF job[d].full THEN port ELSE row[k].port, !.by = d]]
          /\ svc' = svc \cup {k}
          /\ job' = [job EXCEPT ![d].at = "regen", ![d].owner = row'[k].owner]
          /\ UNCHANGED <<sess, files, parked, route, unit, src, built, req, count>>
  /\ UNCHANGED stray /\ Meet

\* The result is read back from the row, which must still be there.
Finish(d) ==
  /\ job[d].status = "running" /\ job[d].at = "finish"
  /\ IF ~Has(job[d].slug)
     THEN RollBack(d, "failed")
     ELSE /\ SetState(job[d].slug, "running")
          /\ job' = [job EXCEPT ![d].status = "succeeded"]
          /\ UNCHANGED <<sess, svc, files, parked, route, unit, src, built, req, count>>
  /\ UNCHANGED stray /\ Meet

\* POST /cancel: the task ends at once, an operation already in a thread does not.
Cancel(d) ==
  /\ MayCancel /\ job[d].status = "running"
  /\ RollBack(d, "cancelled")
  /\ stray' \in {[stray EXCEPT ![d] = op] : op \in {"none", job[d].at} \ OwnCode}
  /\ Meet

StrayEnds(d) ==
  /\ stray[d] # "none"
  /\ Effect(stray[d], d) \/ UNCHANGED <<appVars, built>>
  /\ stray' = [stray EXCEPT ![d] = "none"]
  /\ UNCHANGED <<sess, src, job, req, count>>
  /\ Meet

\* The sweeper drops a job some minutes after its end.
Sweep(d) ==
  /\ job[d].status \in Ended
  /\ job' = [job EXCEPT ![d] = Closed(@, "swept")]
  /\ UNCHANGED <<sess, appVars, src, built, stray, req, count, met>>

----------------------------------------------------------------------------
\* Requests: start, stop and delete of a deployed app, step by step.
Requests == count < MaxEvents /\ req = NoReq
Asked == count' = count + 1
To(step) == req' = [req EXCEPT !.at = step]

AskStart(k) ==
  /\ Requests /\ Has(k) /\ row[k].state # "running"
  /\ SetState(k, "starting")
  /\ req' = [kind |-> "start", slug |-> k, at |-> 1, app |-> row[k]] /\ Asked
  /\ UNCHANGED <<sess, svc, files, parked, route, unit, src, built, jobVars>>
  /\ Meet

AskStop(k) ==
  /\ Requests /\ Has(k) /\ row[k].state # "stopped"
  /\ unit' = [unit EXCEPT ![k].on = IF row[k].port # 0 THEN 0 ELSE @]
  /\ req' = [kind |-> "stop", slug |-> k, at |-> 2, app |-> row[k]] /\ Asked
  /\ UNCHANGED <<sess, row, svc, files, parked, route, src, built, jobVars>>
  /\ Meet

\* _remove_app_service_files: stop, disable, remove the unit.
AskDelete(k) ==
  /\ Requests /\ Has(k)
  /\ unit' = [unit EXCEPT ![k] = NoUnit]
  /\ req' = [kind |-> "delete", slug |-> k, at |-> 2, app |-> row[k]] /\ Asked
  /\ UNCHANGED <<sess, row, svc, files, parked, route, src, built, jobVars>>
  /\ Meet

ServiceStarts ==
  /\ req.kind = "start" /\ req.at = 1
  /\ \/ /\ IF req.app.port = 0 THEN UNCHANGED <<appVars, built>> ELSE StartService(req.slug)
        /\ To(2)
     \/ /\ req.app.port # 0 /\ (MayFail \/ unit[req.slug].port = 0)
        /\ SetState(req.slug, "error")
        /\ req' = NoReq
        /\ UNCHANGED <<svc, files, parked, route, unit, built>>
  /\ UNCHANGED <<sess, src, jobVars, count>>
  /\ Meet

RequestedState == IF req.kind = "stop" THEN "stopped" ELSE "running"

DirectoryMoves ==
  /\ req.kind \in {"start", "stop"} /\ req.at = 2
  /\ \E ok \in BOOLEAN : /\ Placed(req.slug, RequestedState, ok)
                        /\ IF ok THEN To(3) ELSE req' = NoReq
  /\ UNCHANGED <<sess, row, svc, route, unit, src, built, jobVars, count>>
  /\ Meet

\* Only the live directory goes; a failure leaves the fragment, but not the row.
DirectoryGoes ==
  /\ req.kind = "delete" /\ req.at = 2
  /\ \/ /\ files' = [files EXCEPT ![req.slug] = Empty] /\ To(3)
        /\ UNCHANGED <<row, svc>>
     \/ /\ MayFail /\ files[req.slug] # Empty /\ req' = NoReq
        /\ row' = [row EXCEPT ![req.slug] = NoRow] /\ svc' = svc \ {req.slug}
        /\ UNCHANGED files
  /\ UNCHANGED <<sess, parked, route, unit, src, built, jobVars, count>>
  /\ Meet

RowChanges ==
  /\ req.at = 3
  /\ IF req.kind = "delete"
     THEN row' = [row EXCEPT ![req.slug] = NoRow] /\ svc' = svc \ {req.slug}
     ELSE SetState(req.slug, RequestedState) /\ UNCHANGED svc
  /\ To(4)
  /\ UNCHANGED <<sess, files, parked, route, unit, src, built, jobVars, count>>
  /\ Meet

RequestEnds ==
  /\ req.at = 4
  /\ Regenerate(req.app.owner)
  /\ req' = NoReq
  /\ UNCHANGED <<sess, src, jobVars, count>>
  /\ Meet

----------------------------------------------------------------------------
\* _reconcile_deployed_apps_on_boot: rows first, then what has no row.
Reconcile ==
  LET Moves(k, state) == IF state = "stopped" THEN files[k] # Empty /\ Bare(parked[k])
                         ELSE parked[k] # Empty /\ Bare(files[k])
      Stopped(k) == row[k].state = "stopped"
  IN
  /\ files' = [k \in Slugs |->
       IF ~Has(k) THEN Empty
       ELSE IF ~Moves(k, row[k].state) THEN files[k]
       ELSE IF Stopped(k) THEN Empty ELSE parked[k]]
  /\ parked' = [k \in Slugs |->
       IF ~Has(k) THEN Empty
       ELSE IF ~Moves(k, row[k].state) THEN parked[k]
       ELSE IF Stopped(k) THEN files[k] ELSE Empty]
  /\ route' = [k \in Slugs |-> IF Has(k) THEN route[k] ELSE NoRoute]
  /\ unit' = [k \in Slugs |-> IF row[k].port # 0 THEN unit[k] ELSE NoUnit]

\* The server stops, whatever was going on, and boots again.
Restart ==
  /\ count < MaxEvents /\ count' = count + 1
  /\ Reconcile
  /\ svc' = {k \in Slugs : Has(k)}
  /\ job' = [d \in Deploys |-> IF job[d] = NoJob THEN NoJob ELSE Closed(job[d], "swept")]
  /\ stray' = [d \in Deploys |-> "none"] /\ req' = NoReq
  /\ UNCHANGED <<sess, row, src, built, met>>

\* POST /admin/reap-orphans runs the same code beside everything else.
Reap ==
  /\ count < MaxEvents /\ count' = count + 1
  /\ Reconcile
  /\ svc' = {k \in svc : Has(k)}
  /\ met' = [d \in Deploys |-> IF Active(d) THEN met[d] \cup {0} ELSE met[d]]
  /\ UNCHANGED <<sess, row, src, built, jobVars, req>>

RequestStep ==
  ServiceStarts \/ DirectoryMoves \/ DirectoryGoes \/ RowChanges \/ RequestEnds

JobStep(d) ==
  \/ Validate(d) \/ Operate(d) \/ OperationFails(d) \/ StartFails(d)
  \/ Prepare(d) \/ RecordRow(d) \/ Finish(d) \/ StrayEnds(d) \/ Sweep(d)

DeployNext ==
  \/ \E s \in Sessions : Edit(s)
  \/ \E d \in Deploys, s \in Sessions, k \in Slugs, full \in Kinds : Deploy(d, s, k, full)
  \/ \E d \in Deploys : Cancel(d) \/ JobStep(d)
  \/ \E k \in Slugs : AskStart(k) \/ AskStop(k) \/ AskDelete(k)
  \/ RequestStep
  \/ Restart \/ Reap

DeploySpec == DeployInit /\ [][DeployNext]_deployVars
----------------------------------------------------------------------------
\* Types of the deployed apps' state.
Tree == [Parts -> 0 .. NumDeploys]
AppRow == [owner : {OwnerOf[s] : s \in Sessions}, from : Sessions,
           state : {"running", "stopped", "starting", "error"}, port : 0 .. NumPorts, by : Deploys]
DeployTypeOK ==
  /\ sess \subseteq Sessions /\ svc \subseteq Slugs
  /\ row \in [Slugs -> AppRow \cup {NoRow}]
  /\ files \in [Slugs -> Tree] /\ parked \in [Slugs -> Tree]
  /\ route \in [Slugs -> [kind : {"none", "deploying", "static", "full"}, port : 0 .. NumPorts]]
  /\ unit \in [Slugs -> [port : 0 .. NumPorts, enabled : BOOLEAN, on : 0 .. NumPorts,
                      by : 0 .. NumDeploys]]
  /\ \A s \in Sessions : 0 <= built[s] /\ built[s] <= src[s]
  /\ \A d \in Deploys :
       /\ job[d].status \in {"none", "pending", "running", "swept"} \cup Ended
       /\ job[d].was \in AppRow \cup {NoRow}
       /\ met[d] \subseteq Deploys \cup {0}

\* What job d has put in place for its slug is what is served there: its own files,
\* through a route of the right kind to the port of its own service, built from
\* sources no older than those the request found.
Serves(d) ==
  LET k == job[d].slug
      mine == IF job[d].full THEN {"static", "backend", "deps"} ELSE {"root"}
  IN  /\ row[k].state = "running" /\ row[k].by = d
      /\ route[k] = RouteOf(row[k])
      /\ \A p \in mine : files[k][p] = d
      /\ row[k].port # 0 => unit[k].port = row[k].port /\ unit[k].enabled
      /\ job[d].ver >= job[d].asked

\* A new app, or a running one of the same kind.
Plain(d) ==
  \/ job[d].was = NoRow
  \/ job[d].was.state = "running" /\ (job[d].full <=> job[d].was.port # 0)

\* A deployment that nothing conflicting ran beside, and whose service came up, serves
\* exactly what it built when it reports success, whatever the same owner's other deploys
\* did meanwhile (_run_deploy_job).
AloneServed ==
  [][\A d \in Deploys :
       /\ job[d].status = "running" /\ job'[d].status = "succeeded"
       /\ Plain(d) /\ Undisturbed(d)
       /\ job[d].full => unit[job[d].slug].on = job[d].port
       => Serves(d)']_deployVars

\* Two apps are recorded on one port only if deployments of theirs overlapped: the port is
\* chosen long before it is recorded (_allocate_app_port).
PortsApart ==
  \A k, l \in Slugs :
    k # l /\ row[k].port # 0 /\ row[k].port = row[l].port
    => \E d, e \in Deploys : job[d].slug = k /\ job[e].slug = l /\ Overlap(d, e)

\* What is served under a slug was written for the app's owner, unless the deployment
\* that wrote it overlapped one of the owner's, or that one met a conflicting request.
FilesAreOwn ==
  \A k \in Slugs : \A p \in {"static", "backend", "deps"} :
    LET d == files[k][p] IN
    Has(k) /\ d # 0 /\ OwnerOf[job[d].from] # row[k].owner
    => \E e \in Deploys : /\ job[e].slug = k /\ OwnerOf[job[e].from] = row[k].owner
                          /\ Overlap(d, e) \/ 0 \in met[e]

\* Every running app is reachable once nothing is happening to it any more ("Re-emit
\* per-slug Caddy fragments for EVERY running app", app.py 3579).
RunningRouted ==
  \A k \in Slugs :
    /\ row[k].state = "running" /\ req.slug # k
    /\ \A d \in Deploys : Active(d) => job[d].slug # k
    => route[k] = RouteOf(row[k])
=============================================================================
