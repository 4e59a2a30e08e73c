-------------------------- MODULE DeploymentsProofs --------------------------
EXTENDS Deployments, TLAPS

(***************************************************************************)
(* What is proved about deployed apps: two apps share a port, and a file lies *)
(* under somebody else's slug, only if their deployments overlapped.  A job   *)
(* that runs has met every other that runs, so what has to be shown is that    *)
(* nothing else brings the two together: a port is taken from where it is       *)
(* free, and whoever records an app has written every part of it himself.        *)
(* And a deployment that nothing conflicts with serves what it built: what      *)
(* each of its operations leaves is touched by nobody else until it ends.        *)
(***************************************************************************)
Own    == {"static", "backend", "deps"}
Owner(d) == OwnerOf[job[d].from]
States == {"none", "running", "stopped", "starting", "error"}
Owners == {OwnerOf[s] : s \in Sessions} \cup {Nobody}
Rows   == [owner : Owners, from : Sessions \cup {Nobody},
           state : States, port : Nat, by : Nat]
Operations == {"eager", "prepare", "rebuild", "copy", "pwa", "backend", "deps", "port",
               "unit", "enable", "row", "regen", "start", "finish"}
Stages == Operations \cup {"none", "validate"}
Jobs   == [status : {"none", "pending", "running", "swept"} \cup Ended, at : Stages,
           slug : Slugs \cup {Nobody}, from : Sessions \cup {Nobody}, full : BOOLEAN,
           was : Rows, port : Nat, owner : Owners,
           asked : Nat, ver : Nat]
Reqs   == [kind : {"none", "start", "stop", "delete"}, slug : Slugs \cup {Nobody}, at : 0 .. 4,
           app : Rows]

AppTypes ==
  /\ row \in [Slugs -> Rows]
  /\ files \in [Slugs -> [Parts -> Nat]] /\ parked \in [Slugs -> [Parts -> Nat]]
  /\ src \in [Sessions -> Nat] /\ built \in [Sessions -> Nat]
  /\ job \in [Deploys -> Jobs] /\ stray \in [Deploys -> Operations \cup {"none"}]
  /\ req \in Reqs /\ (req # NoReq => req.kind # "none" /\ req.slug \in Slugs)
  /\ met \in [Deploys -> SUBSET (Deploys \cup {0})]

JobInv(d) ==
  /\ job[d] = NoJob \/ (job[d].slug \in Slugs /\ job[d].from \in Sessions)
  /\ stray[d] # "none" => job[d] # NoJob
  /\ job[d].status = "running" => job[d].at \in Operations
  /\ job[d].status = "pending" => job[d].at = "validate"

JobsInv == \A d \in Deploys : JobInv(d)

\* Who deploys has built something.
BuiltInv == \A d \in Deploys : job[d] # NoJob => built[job[d].from] # 0

ActiveMet == \A d, e \in Deploys : d # e /\ Active(d) /\ Active(e) => e \in met[d]

\* Deployments for slugs k and l overlapped.
Crossed(k, l) == \E d, e \in Deploys : job[d].slug = k /\ job[e].slug = l /\ Overlap(d, e)

\* A job that holds a port has found it free, or in its own app's row.
PortHeld ==
  \A d \in Deploys :
    job[d].status = "running" /\ job[d].full /\ job[d].at \in {"unit", "enable", "row"} =>
      \A l \in Slugs \ {job[d].slug} :
        row[l].port # 0 /\ row[l].port = job[d].port => Crossed(job[d].slug, l)

\* Job d may have left a file under slug k when its app belongs to o.
Excused(d, k, o) ==
  \/ Owner(d) = o
  \/ \E e \in Deploys : job[e].slug = k /\ Owner(e) = o /\ (Overlap(d, e) \/ 0 \in met[e])

Allowed(tree, k, o, p) == tree[k][p] # 0 => Excused(tree[k][p], k, o)

\* Whoever is still at work on an app of somebody else's has met a deployment of theirs.
IntrudersMet ==
  \A d \in Deploys : Active(d) /\ Has(job[d].slug) => Excused(d, job[d].slug, row[job[d].slug].owner)

\* The parts of directories were written by jobs.
Posted == {d \in Deploys : job[d].slug \in Slugs}
TreesPosted ==
  \A k \in Slugs, p \in Own : {files[k][p], parked[k][p]} \subseteq Posted \cup {0}

RowsAllow ==
  \A k \in Slugs, p \in Own :
    Has(k) => Allowed(files, k, row[k].owner, p) /\ Allowed(parked, k, row[k].owner, p)

\* Job d has taken back what was parked; has written part p.
Runs(d, stages) == job[d].status = "running" /\ job[d].at \in stages
Prepared == {"rebuild", "copy", "pwa", "backend", "deps", "port", "unit", "enable", "row"}
Beyond(d, p) ==
  IF ~job[d].full \/ p = "static" THEN {"pwa", "backend", "deps", "port", "unit", "enable", "row"}
  ELSE IF p = "backend" THEN {"deps", "port", "unit", "enable", "row"}
  ELSE {"port", "unit", "enable", "row"}

JobsAllow ==
  \A d \in Deploys, p \in Own :
    /\ Runs(d, Prepared) => Allowed(parked, job[d].slug, Owner(d), p)
    /\ Runs(d, Beyond(d, p)) => Allowed(files, job[d].slug, Owner(d), p)

AppInv ==
  /\ AppTypes /\ JobsInv /\ BuiltInv /\ ActiveMet /\ PortsApart /\ PortHeld
  /\ IntrudersMet /\ TreesPosted /\ RowsAllow /\ JobsAllow

-----------------------------------------------------------------------------
\* The order of a job's operations.
LEMMA PipelineIs ==
  /\ DOMAIN Pipeline = 1 .. 14
  /\ Pipeline[1] = "eager" /\ Pipeline[2] = "prepare" /\ Pipeline[3] = "rebuild"
  /\ Pipeline[4] = "copy" /\ Pipeline[5] = "pwa" /\ Pipeline[6] = "backend"
  /\ Pipeline[7] = "deps" /\ Pipeline[8] = "port" /\ Pipeline[9] = "unit"
  /\ Pipeline[10] = "enable" /\ Pipeline[11] = "row" /\ Pipeline[12] = "regen"
  /\ Pipeline[13] = "start" /\ Pipeline[14] = "finish"
BY DEF Pipeline

LEMMA AfterIs ==
  ASSUME NEW full \in BOOLEAN, NEW i \in 1 .. 14, NEW j \in 1 .. 14, i < j,
         full \/ Pipeline[j] \notin FullOnly,
         \A m \in 1 .. 14 : i < m /\ m < j => ~full /\ Pipeline[m] \in FullOnly
  PROVE  After(Pipeline[i], full) = Pipeline[j]
<1> DEFINE Later == {n \in DOMAIN Pipeline : n > i /\ (full \/ Pipeline[n] \notin FullOnly)}
<1>1. (CHOOSE n \in DOMAIN Pipeline : Pipeline[n] = Pipeline[i]) = i
  BY PipelineIs
<1>2. j \in Later /\ \A m \in Later : j <= m
  BY PipelineIs
<1>3. \A n \in Later : (\A m \in Later : n <= m) => n = j
  BY <1>2, PipelineIs
<1>4. (CHOOSE n \in Later : \A m \in Later : n <= m) = j
  <2> HIDE DEF Later
  <2> QED
    BY <1>2, <1>3
<1> QED
  BY <1>1, <1>4 DEF After

LEMMA NextOperation ==
  ASSUME NEW full \in BOOLEAN
  PROVE  /\ After("eager", full) = "prepare" /\ After("prepare", full) = "rebuild"
         /\ After("rebuild", full) = "copy" /\ After("copy", full) = "pwa"
         /\ After("pwa", full) = IF full THEN "backend" ELSE "row"
         /\ After("backend", full) = IF full THEN "deps" ELSE "row"
         /\ After("deps", full) = IF full THEN "port" ELSE "row"
         /\ After("port", full) = IF full THEN "unit" ELSE "row"
         /\ After("unit", full) = IF full THEN "enable" ELSE "row"
         /\ After("enable", full) = "row" /\ After("row", full) = "regen"
         /\ After("regen", full) = IF full THEN "start" ELSE "finish"
         /\ After("start", full) = "finish"
<1>1. \A i \in {1, 2, 3, 4, 10, 11, 13} : After(Pipeline[i], full) = Pipeline[i + 1]
  <2>1. ASSUME NEW i \in {1, 2, 3, 4, 10, 11, 13} PROVE After(Pipeline[i], full) = Pipeline[i + 1]
    <3>1. i \in 1 .. 14 /\ i + 1 \in 1 .. 14 /\ \A m \in 1 .. 14 : ~(i < m /\ m < i + 1)
      OBVIOUS
    <3>2. Pipeline[i + 1] \notin FullOnly
      BY PipelineIs DEF FullOnly
    <3> QED
      BY <3>1, <3>2, AfterIs
  <2> QED
    BY <2>1
<1>2. full => \A i \in {5, 6, 7, 8, 9, 12} : After(Pipeline[i], full) = Pipeline[i + 1]
  <2>1. ASSUME full, NEW i \in {5, 6, 7, 8, 9, 12} PROVE After(Pipeline[i], full) = Pipeline[i + 1]
    <3>1. i \in 1 .. 14 /\ i + 1 \in 1 .. 14 /\ \A m \in 1 .. 14 : ~(i < m /\ m < i + 1)
      OBVIOUS
    <3>2. full \/ Pipeline[i + 1] \notin FullOnly
      BY <2>1
    <3> QED
      BY <3>1, <3>2, AfterIs
  <2> QED
    BY <2>1
<1>3. ~full => \A i \in {5, 6, 7, 8, 9} : After(Pipeline[i], full) = Pipeline[11]
  <2>1. ASSUME ~full, NEW i \in {5, 6, 7, 8, 9} PROVE After(Pipeline[i], full) = Pipeline[11]
    <3>1. \A m \in 1 .. 14 : i < m /\ m < 11 => m \in {6, 7, 8, 9, 10}
      OBVIOUS
    <3>2. \A m \in {6, 7, 8, 9, 10} : Pipeline[m] \in FullOnly
      BY PipelineIs DEF FullOnly
    <3>3. Pipeline[11] \notin FullOnly
      BY PipelineIs DEF FullOnly
    <3> QED
      BY <2>1, <3>1, <3>2, <3>3, AfterIs
  <2> QED
    BY <2>1
<1>4. ~full => After(Pipeline[12], full) = Pipeline[14]
  <2>1. \A m \in 1 .. 14 : 12 < m /\ m < 14 => Pipeline[m] \in FullOnly
    BY PipelineIs DEF FullOnly
  <2>2. Pipeline[14] \notin FullOnly
    BY PipelineIs DEF FullOnly
  <2> QED
    BY <2>1, <2>2, AfterIs
<1>5. /\ full => After(Pipeline[5], full) = Pipeline[6] /\ After(Pipeline[6], full) = Pipeline[7]
                 /\ After(Pipeline[7], full) = Pipeline[8] /\ After(Pipeline[8], full) = Pipeline[9]
                 /\ After(Pipeline[9], full) = Pipeline[10] /\ After(Pipeline[12], full) = Pipeline[13]
      /\ After(Pipeline[1], full) = Pipeline[2] /\ After(Pipeline[2], full) = Pipeline[3]
      /\ After(Pipeline[3], full) = Pipeline[4] /\ After(Pipeline[4], full) = Pipeline[5]
      /\ After(Pipeline[10], full) = Pipeline[11] /\ After(Pipeline[11], full) = Pipeline[12]
      /\ After(Pipeline[13], full) = Pipeline[14]
  BY <1>1, <1>2
<1> QED
  BY <1>3, <1>4, <1>5, PipelineIs

-----------------------------------------------------------------------------
\* Rows.  Only a job that records its deployment makes one or changes a port.
SameApp(k) ==
  row'[k] # NoRow => /\ row[k] # NoRow /\ row'[k].owner = row[k].owner /\ row'[k].from = row[k].from
                     /\ row'[k].port = row[k].port
                     /\ row[k] \in AppRow => row'[k] \in AppRow

LEMMA StateSet ==
  ASSUME AppTypes, NEW k \in Slugs, NEW new \in States \ {"none"}, SetState(k, new)
  PROVE  row' \in [Slugs -> Rows] /\ \A l \in Slugs : SameApp(l)
<1>1. row[k] \in Rows
  BY DEF AppTypes
<1>2. row' = [row EXCEPT ![k] = InState(row[k], new)]
  BY DEF SetState
<1>3. InState(row[k], new) \in Rows /\ InState(row[k], new).owner = row[k].owner
      /\ InState(row[k], new).port = row[k].port /\ InState(row[k], new).from = row[k].from
      /\ (row[k] = NoRow => InState(row[k], new) = NoRow)
  BY <1>1 DEF InState, Rows, States
<1>4. row[k] \in AppRow => InState(row[k], new) \in AppRow
  BY DEF InState, AppRow, States
<1> QED
  BY <1>2, <1>3, <1>4 DEF AppTypes, SameApp

LEMMA JobRuns ==
  ASSUME AppTypes, JobsInv, NEW d \in Deploys, job[d] # NoJob
  PROVE  job[d].slug \in Slugs /\ job[d].from \in Sessions
BY DEF JobsInv, JobInv

LEMMA Records ==
  ASSUME AppTypes, JobsInv, NEW d \in Deploys, RecordRow(d)
  PROVE  LET k == job[d].slug IN
         /\ k \in Slugs /\ row' \in [Slugs -> Rows] /\ Runs(d, {"row"})
         /\ \A l \in Slugs \ {k} : row'[l] = row[l]
         /\ \/ row'[k] = row[k]
            \/ /\ row[k] # NoRow /\ row'[k].owner = row[k].owner /\ row'[k].from = row[k].from
               /\ row'[k].port = IF job[d].full THEN job[d].port ELSE row[k].port
            \/ /\ row[k] = NoRow /\ row'[k].owner = Owner(d) /\ row'[k].from = job[d].from
               /\ job[d].from \in sess
               /\ row'[k].port = IF job[d].full THEN job[d].port ELSE 0
         /\ row[k] \in AppRow \cup {NoRow} /\ job[d].port \in 0 .. NumPorts
            => row'[k] \in AppRow \cup {NoRow}
<1> DEFINE k == job[d].slug
           port == IF job[d].full THEN job[d].port ELSE 0
           new == [owner |-> OwnerOf[job[d].from], from |-> job[d].from, state |-> "running",
                   port |-> port, by |-> d]
<1>1. Runs(d, {"row"}) /\ job[d] \in Jobs /\ d \in Nat
  BY DEF RecordRow, Runs, AppTypes, Deploys
<1>2. k \in Slugs /\ job[d].from \in Sessions
  BY <1>1, JobRuns DEF Runs, NoJob
<1>3. new \in Rows /\ row[k] \in Rows /\ job[d].port \in Nat
  BY <1>1, <1>2 DEF Rows, Jobs, States, AppTypes, Owners
<1>4. CASE row' = row
  BY <1>1, <1>2, <1>4 DEF AppTypes
<1>5. CASE /\ ~(job[d].was = NoRow /\ (Has(k) \/ job[d].from \notin sess))
           /\ row' = [row EXCEPT ![k] =
                IF job[d].was = NoRow THEN new
                ELSE IF row[k] = NoRow THEN row[k]
                ELSE [row[k] EXCEPT !.port = IF job[d].full THEN port ELSE row[k].port, !.by = d]]
  <2>1. CASE job[d].was = NoRow
    <3>1. row[k] = NoRow /\ row' = [row EXCEPT ![k] = new] /\ job[d].from \in sess
      BY <1>5, <2>1 DEF Has
    <3>2. job[d].port \in 0 .. NumPorts => new \in AppRow
      BY <1>2, DeployAssumption DEF AppRow
    <3> QED
      BY <1>1, <1>2, <1>3, <3>1, <3>2 DEF AppTypes, Owner
  <2>2. CASE job[d].was # NoRow /\ row[k] = NoRow
    <3>1. row' = [row EXCEPT ![k] = row[k]]
      BY <1>5, <2>2
    <3> QED
      BY <1>1, <1>2, <3>1 DEF AppTypes
  <2>3. CASE job[d].was # NoRow /\ row[k] # NoRow
    <3> DEFINE other == [row[k] EXCEPT !.port = IF job[d].full THEN port ELSE row[k].port, !.by = d]
    <3>1. row' = [row EXCEPT ![k] = other]
      BY <1>5, <2>3
    <3>2. /\ other \in Rows /\ other.owner = row[k].owner /\ other.from = row[k].from
          /\ other.port = IF job[d].full THEN job[d].port ELSE row[k].port
      BY <1>1, <1>3 DEF Rows
    <3>3. row[k] \in AppRow /\ job[d].port \in 0 .. NumPorts => other \in AppRow
      BY <2>3, DeployAssumption DEF AppRow
    <3> QED
      BY <1>1, <1>2, <2>3, <3>1, <3>2, <3>3 DEF AppTypes
  <2> QED
    BY <2>1, <2>2, <2>3
<1>6. CASE RollBack(d, "failed")
  BY <1>4, <1>6 DEF RollBack
<1> HIDE DEF k, port, new
<1> QED
  BY <1>4, <1>5, <1>6, Zenon DEF RecordRow, k, port, new

LEMMA RowsChange ==
  ASSUME AppTypes, JobsInv, DeployNext
  PROVE  /\ row' \in [Slugs -> Rows]
         /\ (\E d \in Deploys : RecordRow(d)) \/ \A l \in Slugs : SameApp(l)
<1>1. CASE UNCHANGED row
  BY <1>1 DEF AppTypes, SameApp
<1>2. CASE \/ \E s \in Sessions : Edit(s)
           \/ \E d \in Deploys, s \in Sessions, k \in Slugs, full \in Kinds : Deploy(d, s, k, full)
           \/ \E d \in Deploys : Cancel(d)
           \/ \E k \in Slugs : AskStop(k) \/ AskDelete(k)
           \/ Restart \/ Reap
  BY <1>1, <1>2 DEF Edit, Deploy, Cancel, RollBack, AskStop, AskDelete, Restart, Reap, appVars
<1>3. ASSUME NEW k \in Slugs, AskStart(k) PROVE row' \in [Slugs -> Rows] /\ \A l \in Slugs : SameApp(l)
  BY <1>3, StateSet DEF AskStart, States
<1>4. ASSUME NEW d \in Deploys, JobStep(d), ~RecordRow(d)
      PROVE  row' \in [Slugs -> Rows] /\ \A l \in Slugs : SameApp(l)
  <2>1. CASE StartFails(d) \/ Finish(d)
    <3>1. job[d].slug \in Slugs
      BY <2>1, JobRuns DEF StartFails, Finish, NoJob
    <3>2. UNCHANGED row \/ SetState(job[d].slug, "starting") \/ SetState(job[d].slug, "running")
      BY <2>1 DEF StartFails, Finish, RollBack
    <3> QED
      BY <1>1, <3>1, <3>2, StateSet DEF States, SameApp
  <2>2. \A op \in Stages : Effect(op, d) => UNCHANGED row
    BY DEF Effect, WritePlaceholder, Rebuild, CopyDist, InjectPwa, CopyBackend, InstallDeps,
           WriteUnit, EnableService, Regenerate, StartService, appVars
  <2>3. CASE Operate(d) \/ StrayEnds(d)
    <3>1. job[d].at \in Stages /\ stray[d] \in Stages
      BY DEF AppTypes, Jobs, Stages
    <3>2. UNCHANGED row
      BY <2>2, <2>3, <3>1 DEF Operate, StrayEnds, appVars
    <3> QED
      BY <3>2 DEF AppTypes, SameApp
  <2>4. CASE Validate(d) \/ OperationFails(d) \/ Prepare(d) \/ Sweep(d)
    <3>1. UNCHANGED row
      BY <2>4 DEF Validate, OperationFails, Prepare, Sweep, RollBack, appVars
    <3> QED
      BY <3>1 DEF AppTypes, SameApp
  <2> QED
    BY <1>4, <2>1, <2>3, <2>4 DEF JobStep
<1>5. CASE RequestStep
  <2>0. NoRow \in Rows
    BY DEF NoRow, Rows, States, Owners
  <2>1. \/ UNCHANGED row
        \/ row' = [row EXCEPT ![req.slug] = NoRow]
        \/ req.kind # "none" /\ \E new \in {"error", "stopped", "running"} : SetState(req.slug, new)
    <3>1. CASE ServiceStarts
      BY <3>1 DEF ServiceStarts, StartService, appVars
    <3>2. CASE DirectoryMoves \/ DirectoryGoes \/ RequestEnds
      BY <3>2 DEF DirectoryMoves, DirectoryGoes, RequestEnds, Regenerate
    <3>3. CASE RowChanges
      <4>1. req.kind # "none"
        BY <3>3 DEF RowChanges, AppTypes, NoReq
      <4> QED
        BY <3>3, <4>1 DEF RowChanges, RequestedState
    <3> QED
      BY <1>5, <3>1, <3>2, <3>3 DEF RequestStep
  <2>2. req.kind # "none" => req.slug \in Slugs
    BY DEF AppTypes, NoReq
  <2>3. CASE row' = [row EXCEPT ![req.slug] = NoRow]
    BY <2>0, <2>3 DEF AppTypes, SameApp
  <2>4. CASE req.kind # "none" /\ \E new \in {"error", "stopped", "running"} : SetState(req.slug, new)
    BY <2>2, <2>4, StateSet DEF States
  <2> QED
    BY <1>1, <2>1, <2>3, <2>4 DEF SameApp
<1>6. ASSUME NEW d \in Deploys, RecordRow(d) PROVE row' \in [Slugs -> Rows]
  BY <1>6, Records
<1> QED
  BY <1>2, <1>3, <1>4, <1>5, <1>6 DEF DeployNext

-----------------------------------------------------------------------------
\* Directories.  A job at work writes its own parts; all else moves what is there.
Unparked(k, p) == parked'[k][p] \in {0, parked[k][p]}
Moved(k, p)    == /\ files'[k][p] \in {0, files[k][p], parked[k][p]}
                  /\ parked'[k][p] \in {0, files[k][p], parked[k][p]}

\* What an operation writes.
LEMMA Writes ==
  ASSUME AppTypes, NEW d \in Deploys, job[d] # NoJob, JobsInv, NEW op \in Stages, Effect(op, d)
  PROVE  /\ files' \in [Slugs -> [Parts -> Nat]] /\ UNCHANGED parked
         /\ \A k \in Slugs, p \in Parts :
              files'[k][p] \in {0, files[k][p]} \/ (files'[k][p] = d /\ k = job[d].slug)
         /\ op = "copy" =>
              /\ files'[job[d].slug]["static"] = IF job[d].full THEN d ELSE 0
              /\ ~job[d].full => \A p \in Own : files'[job[d].slug][p] = 0
         /\ op = "backend" /\ built[job[d].from] # 0 => files'[job[d].slug]["backend"] = d
         /\ op = "deps" => files'[job[d].slug]["deps"] = d
<1> DEFINE k == job[d].slug
<1>1. d \in Nat /\ 0 \in Nat /\ k \in Slugs
  BY JobRuns DEF Deploys
<1>2. CASE op \notin {"copy", "pwa", "backend", "deps"}
  <2>1. UNCHANGED <<files, parked>>
    BY <1>2 DEF Effect, WritePlaceholder, Rebuild, WriteUnit, EnableService, Regenerate,
       StartService, appVars
  <2> QED
    BY <1>2, <2>1 DEF AppTypes
<1>3. CASE op \in {"copy", "pwa", "backend", "deps"}
  <2>1. \E tree \in [Parts -> Nat] :
          /\ files' = [files EXCEPT ![k] = tree] /\ UNCHANGED parked
          /\ \A p \in Parts : tree[p] \in {0, files[k][p], d}
          /\ op = "copy" => /\ tree["static"] = IF job[d].full THEN d ELSE 0
                            /\ ~job[d].full => \A p \in Own : tree[p] = 0
          /\ op = "backend" /\ built[job[d].from] # 0 => tree["backend"] = d
          /\ op = "deps" => tree["deps"] = d
    <3>1. files[k] \in [Parts -> Nat] /\ Empty \in [Parts -> Nat]
      BY <1>1 DEF AppTypes, Empty
    <3>2. CASE op = "copy"
      <4>1. files' = [files EXCEPT ![k] =
               IF job[d].full THEN [files[k] EXCEPT !["dir"] = d, !["static"] = d, !["pwa"] = 0]
               ELSE [Empty EXCEPT !["dir"] = d, !["root"] = d]] /\ UNCHANGED parked
        BY <3>2 DEF Effect, CopyDist
      <4>2. CASE job[d].full
        <5> DEFINE tree == [files[k] EXCEPT !["dir"] = d, !["static"] = d, !["pwa"] = 0]
        <5>1. /\ tree \in [Parts -> Nat] /\ tree["static"] = d
              /\ \A p \in Parts : tree[p] \in {0, files[k][p], d}
          BY <1>1, <3>1 DEF Parts
        <5>2. files' = [files EXCEPT ![k] = tree] /\ UNCHANGED parked
          BY <4>1, <4>2
        <5> HIDE DEF tree
        <5> QED
          BY <3>2, <4>2, <5>1, <5>2
      <4>3. CASE ~job[d].full
        <5> DEFINE tree == [Empty EXCEPT !["dir"] = d, !["root"] = d]
        <5>1. /\ tree \in [Parts -> Nat]
              /\ \A p \in Own : tree[p] = 0
              /\ \A p \in Parts : tree[p] \in {0, d}
          BY <1>1, <3>1 DEF Parts, Own, Empty
        <5> QED
          BY <3>2, <4>1, <4>3, <5>1 DEF Own
      <4> QED
        BY <4>2, <4>3
    <3>3. CASE op = "pwa"
      <4> DEFINE tree == IF files[k][IF job[d].full THEN "static" ELSE "root"] = 0 THEN files[k]
                         ELSE [files[k] EXCEPT !["pwa"] = d]
      <4>1. files' = [files EXCEPT ![k] = tree] /\ UNCHANGED parked
        BY <3>3 DEF Effect, InjectPwa
      <4>2. tree \in [Parts -> Nat] /\ \A p \in Parts : tree[p] \in {files[k][p], d}
        BY <1>1, <3>1 DEF Parts
      <4> QED
        BY <3>3, <4>1, <4>2
    <3>4. CASE op = "backend"
      <4> DEFINE tree == [files[k] EXCEPT !["dir"] = d, !["backend"] = d, !["deps"] = 0]
      <4>1. UNCHANGED parked /\ files' = IF built[job[d].from] = 0 THEN files
                                        ELSE [files EXCEPT ![k] = tree]
        BY <1>1, <3>4 DEF Effect, CopyBackend
      <4>2. /\ tree \in [Parts -> Nat] /\ tree["backend"] = d
            /\ \A p \in Parts : tree[p] \in {0, files[k][p], d}
        BY <1>1, <3>1 DEF Parts
      <4>3. files = [files EXCEPT ![k] = files[k]]
        BY <1>1 DEF AppTypes
      <4> HIDE DEF tree
      <4> QED
        BY <3>1, <3>4, <4>1, <4>2, <4>3
    <3>5. CASE op = "deps"
      <4> DEFINE tree == [files[k] EXCEPT !["dir"] = d, !["deps"] = d]
      <4>1. files' = [files EXCEPT ![k] = tree] /\ UNCHANGED parked
        BY <1>1, <3>5 DEF Effect, InstallDeps
      <4>2. /\ tree \in [Parts -> Nat] /\ tree["deps"] = d
            /\ \A p \in Parts : tree[p] \in {0, files[k][p], d}
        BY <1>1, <3>1 DEF Parts
      <4> QED
        BY <3>5, <4>1, <4>2
    <3> QED
      BY <1>3, <3>2, <3>3, <3>4, <3>5
  <2>2. PICK tree \in [Parts -> Nat] :
          /\ files' = [files EXCEPT ![k] = tree] /\ UNCHANGED parked
          /\ \A p \in Parts : tree[p] \in {0, files[k][p], d}
          /\ op = "copy" => /\ tree["static"] = IF job[d].full THEN d ELSE 0
                            /\ ~job[d].full => \A p \in Own : tree[p] = 0
          /\ op = "backend" /\ built[job[d].from] # 0 => tree["backend"] = d
          /\ op = "deps" => tree["deps"] = d
    BY <2>1
  <2>3. /\ files'[k] = tree /\ \A l \in Slugs \ {k} : files'[l] = files[l]
        /\ files' \in [Slugs -> [Parts -> Nat]]
    BY <1>1, <2>2 DEF AppTypes
  <2> QED
    BY <2>2, <2>3
<1> QED
  BY <1>2, <1>3

LEMMA TreesChange ==
  ASSUME AppTypes, JobsInv, DeployNext
  PROVE  /\ files' \in [Slugs -> [Parts -> Nat]] /\ parked' \in [Slugs -> [Parts -> Nat]]
         /\ \A k \in Slugs, p \in Parts :
              \/ /\ Unparked(k, p)
                 /\ \/ files'[k][p] \in {0, files[k][p], parked[k][p]}
                    \/ \E d \in Deploys : Active(d) /\ job[d].slug = k /\ files'[k][p] = d
              \/ /\ Moved(k, p)
                 /\ \/ Restart \/ Reap
                    \/ RequestStep /\ req.slug = k /\ req.kind # "none"
<1> DEFINE Tree0 == [Parts -> Nat]
<1>a. Empty \in Tree0 /\ \A p \in Parts : Empty[p] = 0
  BY DEF Empty
<1>b. \A k \in Slugs : files[k] \in Tree0 /\ parked[k] \in Tree0
  BY DEF AppTypes
<1>1. CASE UNCHANGED <<files, parked>>
  BY <1>1 DEF AppTypes, Unparked
<1>2. CASE \/ \E s \in Sessions : Edit(s)
           \/ \E d \in Deploys, s \in Sessions, k \in Slugs, full \in Kinds : Deploy(d, s, k, full)
           \/ \E d \in Deploys : Cancel(d)
           \/ \E k \in Slugs : AskStart(k) \/ AskStop(k) \/ AskDelete(k)
  <2>1. UNCHANGED <<files, parked>>
    BY <1>2 DEF Edit, Deploy, Cancel, RollBack, AskStart, AskStop, AskDelete, appVars
  <2> QED
    BY <1>1, <2>1
<1>3. ASSUME NEW d \in Deploys, Prepare(d)
      PROVE  /\ files' \in [Slugs -> [Parts -> Nat]] /\ parked' \in [Slugs -> [Parts -> Nat]]
             /\ \A k \in Slugs, p \in Parts :
                  /\ Unparked(k, p)
                  /\ \/ files'[k][p] \in {0, files[k][p], parked[k][p]}
                     \/ Active(d) /\ job[d].slug = k /\ files'[k][p] = d
  <2> DEFINE k == job[d].slug
             old == IF parked[k] # Empty THEN parked[k] ELSE files[k]
             tree == [old EXCEPT !["dir"] = IF old["dir"] = 0 THEN d ELSE old["dir"]]
  <2>1. k \in Slugs /\ d \in Nat
    BY <1>3, JobRuns DEF Prepare, NoJob, Deploys
  <2>a. Active(d) /\ job[d].slug = k
    BY <1>3 DEF Prepare, Active, InFlight
  <2>2. CASE files' = [files EXCEPT ![k] = tree] /\ parked' = [parked EXCEPT ![k] = Empty]
    <3>1. old \in Tree0 /\ \A p \in Parts : old[p] \in {files[k][p], parked[k][p]}
      BY <1>b, <2>1
    <3>2. tree \in Tree0 /\ \A p \in Parts : tree[p] \in {old[p], d}
      BY <2>1, <3>1 DEF Parts
    <3>3. /\ files'[k] = tree /\ parked'[k] = Empty
          /\ \A l \in Slugs \ {k} : files'[l] = files[l] /\ parked'[l] = parked[l]
          /\ files' \in [Slugs -> Tree0] /\ parked' \in [Slugs -> Tree0]
      <4> HIDE DEF tree
      <4> QED
        BY <1>a, <2>1, <2>2, <3>2 DEF AppTypes
    <3> HIDE DEF tree, old
    <3>4. ASSUME NEW l \in Slugs, NEW p \in Parts
          PROVE  /\ Unparked(l, p)
                 /\ \/ files'[l][p] \in {0, files[l][p], parked[l][p]}
                    \/ Active(d) /\ job[d].slug = l /\ files'[l][p] = d
      <4>1. CASE l = k
        <5> HIDE DEF k
        <5> QED
          BY <4>1, <1>a, <2>a, <3>1, <3>2, <3>3 DEF Unparked
      <4>2. CASE l # k
        <5> HIDE DEF k
        <5> QED
          BY <4>2, <3>3 DEF Unparked
      <4> QED
        BY <4>1, <4>2
    <3> QED
      BY <3>3, <3>4
  <2>3. CASE RollBack(d, "failed")
    <3>1. UNCHANGED <<files, parked>>
      BY <2>3 DEF RollBack
    <3> QED
      BY <3>1, <1>b DEF AppTypes, Unparked
  <2> QED
    BY <1>3, <2>2, <2>3 DEF Prepare
<1>4. ASSUME NEW d \in Deploys, Operate(d) \/ StrayEnds(d)
      PROVE  /\ files' \in [Slugs -> [Parts -> Nat]] /\ parked' \in [Slugs -> [Parts -> Nat]]
             /\ \A k \in Slugs, p \in Parts :
                  /\ Unparked(k, p)
                  /\ \/ files'[k][p] \in {0, files[k][p]}
                     \/ Active(d) /\ job[d].slug = k /\ files'[k][p] = d
  <2>1. Active(d) /\ job[d] # NoJob
    <3>1. CASE Operate(d)
      BY <3>1 DEF Operate, Active, InFlight, NoJob
    <3>2. CASE StrayEnds(d)
      BY <3>2 DEF StrayEnds, Active, JobsInv, JobInv
    <3> QED
      BY <1>4, <3>1, <3>2
  <2>2. job[d].at \in Stages /\ stray[d] \in Stages
    BY DEF AppTypes, Jobs, Stages
  <2>3. UNCHANGED <<files, parked>> \/ \E op \in Stages : Effect(op, d)
    BY <1>4, <2>2 DEF Operate, StrayEnds, appVars
  <2>4. CASE UNCHANGED <<files, parked>>
    BY <2>4 DEF AppTypes, Unparked
  <2>5. CASE \E op \in Stages : Effect(op, d)
    BY <2>1, <2>5, Writes DEF AppTypes, Unparked
  <2> QED
    BY <2>3, <2>4, <2>5
<1>5. ASSUME NEW d \in Deploys, JobStep(d), ~Prepare(d), ~Operate(d), ~StrayEnds(d)
      PROVE  UNCHANGED <<files, parked>>
  BY <1>5 DEF JobStep, Validate, OperationFails, StartFails, RecordRow, Finish, Sweep, RollBack, appVars
<1>6. CASE RequestStep
  <2> DEFINE k == req.slug
  <2>1. CASE ToLive(k) /\ k \in Slugs
    <3>1. /\ files'[k] = parked[k] /\ parked'[k] = Empty
          /\ \A l \in Slugs \ {k} : files'[l] = files[l] /\ parked'[l] = parked[l]
          /\ files' \in [Slugs -> Tree0] /\ parked' \in [Slugs -> Tree0]
      BY <1>a, <1>b, <2>1 DEF ToLive, AppTypes
    <3> QED
      BY <1>a, <1>b, <3>1 DEF Unparked, Moved
  <2>2. CASE ToParked(k) /\ k \in Slugs /\ req.kind # "none"
    <3>1. /\ parked'[k] = files[k] /\ files'[k] = Empty
          /\ \A l \in Slugs \ {k} : files'[l] = files[l] /\ parked'[l] = parked[l]
          /\ files' \in [Slugs -> Tree0] /\ parked' \in [Slugs -> Tree0]
      BY <1>a, <1>b, <2>2 DEF ToParked, AppTypes
    <3> QED
      BY <1>6, <1>a, <1>b, <2>2, <3>1 DEF Unparked, Moved
  <2>3. CASE files' = [files EXCEPT ![k] = Empty] /\ UNCHANGED parked
    <3>1. files' \in [Slugs -> Tree0] /\ \A l \in Slugs : files'[l] \in {Empty, files[l]}
      BY <1>a, <1>b, <2>3 DEF AppTypes
    <3> QED
      BY <1>a, <1>b, <2>3, <3>1 DEF Unparked, AppTypes
  <2>4. CASE DirectoryMoves
    <3>1. req.kind # "none" /\ k \in Slugs
      BY <2>4 DEF DirectoryMoves, AppTypes, NoReq
    <3>2. UNCHANGED <<files, parked>> \/ ToLive(k) \/ ToParked(k)
      BY <2>4 DEF DirectoryMoves, Placed
    <3> QED
      BY <1>1, <2>1, <2>2, <3>1, <3>2
  <2>5. CASE DirectoryGoes
    BY <1>1, <2>3, <2>5 DEF DirectoryGoes
  <2>6. CASE ServiceStarts \/ RowChanges \/ RequestEnds
    BY <1>1, <2>6 DEF ServiceStarts, StartService, RowChanges, RequestEnds, Regenerate, appVars
  <2> QED
    BY <1>6, <2>4, <2>5, <2>6 DEF RequestStep
<1>7. CASE Restart \/ Reap
  <2>1. Reconcile
    BY <1>7 DEF Restart, Reap
  <2>2. \A k \in Slugs : files'[k] \in {Empty, files[k], parked[k]} /\ parked'[k] \in {Empty, files[k], parked[k]}
    BY <2>1 DEF Reconcile
  <2>3. DOMAIN files' = Slugs /\ DOMAIN parked' = Slugs /\ files' = [k \in Slugs |-> files'[k]]
        /\ parked' = [k \in Slugs |-> parked'[k]]
    BY <2>1 DEF Reconcile
  <2>4. files' \in [Slugs -> Tree0] /\ parked' \in [Slugs -> Tree0]
    BY <1>a, <1>b, <2>2, <2>3
  <2> QED
    BY <1>7, <1>a, <1>b, <2>2, <2>4 DEF Moved
<1> QED
  BY <1>1, <1>2, <1>3, <1>4, <1>5, <1>6, <1>7 DEF DeployNext

-----------------------------------------------------------------------------
\* Jobs.
Same(d) ==
  /\ job'[d].slug = job[d].slug /\ job'[d].from = job[d].from /\ job'[d].full = job[d].full
  /\ job'[d].was \in {job[d].was, NoRow}
  /\ job'[d].port = job[d].port \/ (Operate(d) /\ job'[d].port \in PortOf(d))
  /\ job[d] # NoJob => job'[d] # NoJob
New(d) ==
  /\ job[d] = NoJob /\ job'[d].slug \in Slugs /\ job'[d].from \in Sessions
  /\ built[job'[d].from] # 0 /\ MayUse(job'[d].from, job'[d].slug) /\ UNCHANGED row
  /\ job'[d].port = 0 /\ job'[d].was = row[job'[d].slug] /\ job'[d].from \in sess

\* A step of a job's own task, and what it leads to.
GoesOn(d) ==
  \/ Validate(d) /\ job'[d].at = "eager"
  \/ /\ Operate(d) /\ job'[d].at = After(job[d].at, job[d].full)
     /\ IF job[d].at = "port" THEN job'[d].port \in PortOf(d) ELSE job'[d].port = job[d].port
  \/ StartFails(d) /\ job[d].at = "start" /\ job'[d].at = "finish"
  \/ Prepare(d) /\ job[d].at = "prepare" /\ job'[d].at = "rebuild" /\ job'[d].port = job[d].port
     /\ parked'[job[d].slug] = Empty
  \/ RecordRow(d) /\ job[d].at = "row" /\ job'[d].at = "regen"

LEMMA ClosedIs ==
  ASSUME AppTypes, NEW d \in Deploys, NEW status \in Ended \cup {"swept"}
  PROVE  LET c == Closed(job[d], status) IN
         /\ c \in Jobs /\ c.status = status /\ c.at = "none" /\ c # NoJob
         /\ c.slug = job[d].slug /\ c.from = job[d].from /\ c.full = job[d].full
         /\ c.was = NoRow /\ c.port = job[d].port
<1>1. job[d] \in Jobs /\ NoRow \in Rows
  BY DEF AppTypes, NoRow, Rows, States, Owners
<1>2. status # "none"
  BY DEF Ended
<1> QED
  BY <1>1, <1>2 DEF Closed, Jobs, Stages, NoJob

\* One job's record changes.
JobOnly(d) ==
  /\ job' = [job EXCEPT ![d] = job'[d]] /\ job'[d] \in Jobs /\ Same(d)
  /\ \/ job'[d].status \in Ended \cup {"swept"}
     \/ /\ job'[d].status = "running" /\ job[d].status \in {"running", "pending"}
        /\ job'[d].at \in Operations /\ GoesOn(d)

LEMMA RolledBack ==
  ASSUME AppTypes, NEW d \in Deploys, NEW status \in Ended, RollBack(d, status)
  PROVE  JobOnly(d)
<1>1. job' = [job EXCEPT ![d] = Closed(job[d], status)]
  BY DEF RollBack
<1>2. job'[d] = Closed(job[d], status)
  BY <1>1 DEF AppTypes
<1>3. /\ job'[d] \in Jobs /\ job'[d].status = status /\ job'[d] # NoJob
      /\ job'[d].slug = job[d].slug /\ job'[d].from = job[d].from /\ job'[d].full = job[d].full
      /\ job'[d].was = NoRow /\ job'[d].port = job[d].port
  BY <1>2, ClosedIs
<1> QED
  BY <1>1, <1>2, <1>3 DEF JobOnly, Same

LEMMA TaskGoes ==
  ASSUME AppTypes, JobsInv, NEW d \in Deploys,
         Validate(d) \/ Operate(d) \/ OperationFails(d) \/ StartFails(d) \/ Prepare(d)
         \/ RecordRow(d) \/ Finish(d) \/ Sweep(d)
  PROVE  JobOnly(d)
<1>a. job[d] \in Jobs /\ job[d].full \in BOOLEAN /\ job[d].port \in Nat
  BY DEF AppTypes, Jobs
<1>1. CASE RollBack(d, "failed")
  BY <1>1, RolledBack DEF Ended
<1>2. CASE Validate(d) /\ ~RollBack(d, "failed")
  <2>1. job' = [job EXCEPT ![d].status = "running", ![d].at = "eager"] /\ job[d].status = "pending"
    BY <1>2 DEF Validate
  <2>2. job'[d] = [job[d] EXCEPT !.status = "running", !.at = "eager"]
    BY <2>1 DEF AppTypes
  <2>3. job' = [job EXCEPT ![d] = job'[d]]
    BY <2>1, <2>2 DEF AppTypes
  <2>4. /\ job'[d] \in Jobs /\ job'[d].status = "running" /\ job'[d].at = "eager"
        /\ job'[d].slug = job[d].slug /\ job'[d].from = job[d].from /\ job'[d].full = job[d].full
        /\ job'[d].was = job[d].was /\ job'[d].port = job[d].port
    BY <1>a, <2>2 DEF Jobs, Stages, Operations
  <2> QED
    BY <1>2, <2>1, <2>3, <2>4 DEF JobOnly, Same, NoJob, GoesOn, Operations
<1>3. CASE Operate(d)
  <2>1. job[d].status = "running" /\ job[d].at \in Operations /\ Effect(job[d].at, d)
    BY <1>3 DEF Operate, JobsInv, JobInv
  <2>2. job[d].at # "finish"
    BY <2>1 DEF Effect
  <2>3. After(job[d].at, job[d].full) \in Operations
    BY <1>a, <2>1, <2>2, NextOperation DEF Operations
  <2>4. PICK p \in IF job[d].at = "port" THEN PortOf(d) ELSE {job[d].port} :
          job' = [job EXCEPT ![d].at = After(job[d].at, job[d].full), ![d].port = p,
                    ![d].ver = IF job[d].at = "copy" THEN built[job[d].from] ELSE job[d].ver]
    BY <1>3 DEF Operate
  <2>5. p \in Nat /\ built[job[d].from] \in Nat
    <3>1. job[d].slug \in Slugs /\ job[d].from \in Sessions
      BY <2>1, JobRuns DEF NoJob
    <3>2. \A q \in PortOf(d) : q \in Nat
      BY <3>1 DEF PortOf, FreePorts, Ports, AppTypes, Rows
    <3> QED
      BY <1>a, <2>4, <3>1, <3>2 DEF AppTypes
  <2>6. job'[d] = [job[d] EXCEPT !.at = After(job[d].at, job[d].full), !.port = p,
                     !.ver = IF job[d].at = "copy" THEN built[job[d].from] ELSE job[d].ver]
    BY <2>4 DEF AppTypes
  <2>7. job' = [job EXCEPT ![d] = job'[d]]
    BY <2>4, <2>6 DEF AppTypes
  <2>8. /\ job'[d] \in Jobs /\ job'[d].status = "running" /\ job'[d].port = p
        /\ job'[d].at = After(job[d].at, job[d].full)
        /\ job'[d].slug = job[d].slug /\ job'[d].from = job[d].from /\ job'[d].full = job[d].full
        /\ job'[d].was = job[d].was
    BY <1>a, <2>1, <2>3, <2>5, <2>6 DEF Jobs, Stages
  <2>9. GoesOn(d)
    BY <1>3, <2>4, <2>8 DEF GoesOn
  <2>10. Same(d)
    <3>1. job'[d].port = job[d].port \/ (Operate(d) /\ job'[d].port \in PortOf(d))
      BY <1>3, <2>4, <2>8
    <3>2. job'[d] # NoJob
      BY <2>8 DEF NoJob
    <3> QED
      BY <2>8, <3>1, <3>2 DEF Same
  <2> QED
    BY <2>1, <2>3, <2>7, <2>8, <2>9, <2>10 DEF JobOnly
<1>4. CASE Advance(d) /\ (StartFails(d) \/ (Prepare(d) /\ parked'[job[d].slug] = Empty))
  <2>1. job[d].status = "running" /\ job[d].at \in {"start", "prepare"}
        /\ (StartFails(d) => job[d].at = "start") /\ (job[d].at = "start" => StartFails(d))
    BY <1>4 DEF StartFails, Prepare
  <2>2. job' = [job EXCEPT ![d].at = After(job[d].at, job[d].full)]
    BY <1>4 DEF Advance
  <2>3. job'[d] = [job[d] EXCEPT !.at = After(job[d].at, job[d].full)]
    BY <2>2 DEF AppTypes
  <2>4. job' = [job EXCEPT ![d] = job'[d]]
    BY <2>2, <2>3 DEF AppTypes
  <2>5. After(job[d].at, job[d].full) = IF job[d].at = "start" THEN "finish" ELSE "rebuild"
    BY <1>a, <2>1, NextOperation
  <2>6. /\ job'[d] \in Jobs /\ job'[d].status = "running" /\ job'[d].port = job[d].port
        /\ job'[d].at = IF job[d].at = "start" THEN "finish" ELSE "rebuild"
        /\ job'[d].slug = job[d].slug /\ job'[d].from = job[d].from /\ job'[d].full = job[d].full
        /\ job'[d].was = job[d].was /\ job'[d].port = job[d].port
    BY <1>a, <2>1, <2>3, <2>5 DEF Jobs, Stages, Operations
  <2>7. GoesOn(d)
    BY <1>4, <2>1, <2>6 DEF GoesOn
  <2> QED
    BY <2>1, <2>4, <2>6, <2>7 DEF JobOnly, Same, NoJob, Operations
<1>5. CASE RecordRow(d) /\ ~RollBack(d, "failed")
  <2>1. /\ job[d].status = "running" /\ job[d].at = "row"
        /\ job' = [job EXCEPT ![d].at = "regen", ![d].owner = row'[job[d].slug].owner]
    BY <1>5 DEF RecordRow
  <2>2. PICK o \in Owners : o = row'[job[d].slug].owner
    <3>1. row'[job[d].slug] \in Rows
      BY <1>5, Records
    <3> QED
      BY <3>1 DEF Rows
  <2>3. job'[d] = [job[d] EXCEPT !.at = "regen", !.owner = o]
    BY <2>1, <2>2 DEF AppTypes
  <2>4. job' = [job EXCEPT ![d] = job'[d]]
    BY <2>1, <2>2, <2>3 DEF AppTypes
  <2>5. /\ job'[d] \in Jobs /\ job'[d].status = "running" /\ job'[d].at = "regen"
        /\ job'[d].slug = job[d].slug /\ job'[d].from = job[d].from /\ job'[d].full = job[d].full
        /\ job'[d].was = job[d].was /\ job'[d].port = job[d].port
    <3>1. job[d].status = "running" /\ o \in Owners
      BY <2>1
    <3> QED
      BY <1>a, <2>3, <3>1 DEF Jobs, Stages, Operations
  <2>6. GoesOn(d)
    BY <1>5, <2>1, <2>5 DEF GoesOn
  <2> QED
    BY <2>1, <2>4, <2>5, <2>6 DEF JobOnly, Same, NoJob, Operations
<1>6. CASE Finish(d) /\ ~RollBack(d, "failed")
  <2>1. job' = [job EXCEPT ![d].status = "succeeded"]
    BY <1>6 DEF Finish
  <2>2. job'[d] = [job[d] EXCEPT !.status = "succeeded"] /\ job' = [job EXCEPT ![d] = job'[d]]
    BY <2>1 DEF AppTypes
  <2>3. /\ job'[d] \in Jobs /\ job'[d].status = "succeeded"
        /\ job'[d].slug = job[d].slug /\ job'[d].from = job[d].from /\ job'[d].full = job[d].full
        /\ job'[d].was = job[d].was /\ job'[d].port = job[d].port
    BY <1>a, <2>2 DEF Jobs, Ended
  <2> QED
    BY <2>2, <2>3 DEF JobOnly, Same, NoJob, Ended
<1>7. CASE Sweep(d)
  <2>1. job' = [job EXCEPT ![d] = Closed(job[d], "swept")]
    BY <1>7 DEF Sweep
  <2>2. job'[d] = Closed(job[d], "swept")
    BY <2>1 DEF AppTypes
  <2>3. /\ job'[d] \in Jobs /\ job'[d].status = "swept" /\ job'[d] # NoJob
        /\ job'[d].slug = job[d].slug /\ job'[d].from = job[d].from /\ job'[d].full = job[d].full
        /\ job'[d].was = NoRow /\ job'[d].port = job[d].port
    BY <2>2, ClosedIs
  <2> QED
    BY <2>1, <2>2, <2>3 DEF JobOnly, Same
<1>8. CASE StartFails(d)
  BY <1>4, <1>8 DEF StartFails
<1>9. CASE Prepare(d) /\ ~RollBack(d, "failed")
  <2>1. Advance(d) /\ parked' = [parked EXCEPT ![job[d].slug] = Empty] /\ job[d].slug \in Slugs
    BY <1>9, JobRuns DEF Prepare, NoJob
  <2>2. parked'[job[d].slug] = Empty
    BY <2>1 DEF AppTypes
  <2> QED
    BY <1>4, <1>9, <2>1, <2>2
<1> QED
  BY <1>1, <1>2, <1>3, <1>5, <1>6, <1>7, <1>8, <1>9 DEF OperationFails


\* What any step does to a job.
Turn(d) ==
  \/ job'[d] = job[d] /\ stray'[d] \in {stray[d], "none"}
  \/ New(d) /\ job'[d].status = "pending" /\ job'[d].at = "validate" /\ stray'[d] = "none"
  \/ /\ Same(d) /\ job[d] # NoJob /\ job'[d].status \in Ended \cup {"swept"}
     /\ stray'[d] # "none" => Active(d)
  \/ /\ Same(d) /\ InFlight(d) /\ job'[d].status = "running" /\ job'[d].at \in Operations
     /\ GoesOn(d) /\ stray'[d] = stray[d]

LEMMA JobsChange ==
  ASSUME AppTypes, JobsInv, DeployNext
  PROVE  /\ job' \in [Deploys -> Jobs] /\ stray' \in [Deploys -> Operations \cup {"none"}]
         /\ \A d \in Deploys : Turn(d)
<1>1. CASE UNCHANGED jobVars
  BY <1>1 DEF jobVars, AppTypes, Turn
<1>2. CASE \/ \E s \in Sessions : Edit(s)
           \/ \E k \in Slugs : AskStart(k) \/ AskStop(k) \/ AskDelete(k)
           \/ RequestStep \/ Reap
  BY <1>1, <1>2 DEF Edit, AskStart, AskStop, AskDelete, RequestStep, ServiceStarts, DirectoryMoves,
     DirectoryGoes, RowChanges, RequestEnds, Reap
<1>3. ASSUME NEW d \in Deploys, NEW s \in Sessions, NEW k \in Slugs, NEW full \in Kinds,
             Deploy(d, s, k, full)
      PROVE  /\ job' \in [Deploys -> Jobs] /\ stray' \in [Deploys -> Operations \cup {"none"}]
             /\ \A e \in Deploys : Turn(e)
  <2> DEFINE new == [NoJob EXCEPT !.status = "pending", !.at = "validate", !.slug = k,
                       !.from = s, !.full = full, !.was = row[k], !.asked = src[s]]
  <2>1. job' = [job EXCEPT ![d] = new] /\ UNCHANGED stray /\ job[d] = NoJob
    BY <1>3 DEF Deploy
  <2>2. full \in BOOLEAN /\ row[k] \in Rows /\ src[s] \in Nat
    BY DeployAssumption DEF AppTypes
  <2>3. /\ new \in Jobs /\ new.slug = k /\ new.from = s /\ new.status = "pending"
        /\ new.at = "validate" /\ new.port = 0 /\ new.was = row[k]
    BY <2>2 DEF NoJob, NoRow, Jobs, Stages, Owners
  <2> HIDE DEF new
  <2>4. stray[d] = "none"
    BY <2>1 DEF JobsInv, JobInv
  <2>5. job'[d] = new /\ \A e \in Deploys \ {d} : job'[e] = job[e]
    BY <2>1 DEF AppTypes
  <2>6. MayUse(s, k) /\ UNCHANGED row /\ built[s] # 0 /\ s \in sess
    BY <1>3 DEF Deploy, appVars
  <2> QED
    BY <2>1, <2>3, <2>4, <2>5, <2>6 DEF AppTypes, Turn, New
<1>4. ASSUME NEW d \in Deploys, JobOnly(d), job[d] # NoJob,
             stray' \in [Deploys -> Operations \cup {"none"}],
             \A e \in Deploys \ {d} : stray'[e] = stray[e],
             InFlight(d) \/ stray'[d] = stray[d],
             job'[d].status = "running" => stray'[d] = stray[d]
      PROVE  /\ job' \in [Deploys -> Jobs] /\ stray' \in [Deploys -> Operations \cup {"none"}]
             /\ \A e \in Deploys : Turn(e)
  <2>1. job' \in [Deploys -> Jobs] /\ \A e \in Deploys \ {d} : job'[e] = job[e]
    BY <1>4 DEF JobOnly, AppTypes
  <2>2. Turn(d)
    BY <1>4 DEF JobOnly, Turn, InFlight, Active, Ended
  <2> QED
    BY <1>4, <2>1, <2>2 DEF Turn
<1>5. ASSUME NEW d \in Deploys, Cancel(d)
      PROVE  /\ job' \in [Deploys -> Jobs] /\ stray' \in [Deploys -> Operations \cup {"none"}]
             /\ \A e \in Deploys : Turn(e)
  <2>1. RollBack(d, "cancelled") /\ job[d].status = "running"
    BY <1>5 DEF Cancel
  <2>2. PICK op \in {"none", job[d].at} \ OwnCode : stray' = [stray EXCEPT ![d] = op]
    BY <1>5 DEF Cancel
  <2>3. op \in Operations \cup {"none"}
    BY <2>1 DEF JobsInv, JobInv
  <2>4. JobOnly(d) /\ job'[d].status = "cancelled"
    <3>1. job'[d] = Closed(job[d], "cancelled")
      BY <2>1 DEF RollBack, AppTypes
    <3> QED
      BY <2>1, <3>1, RolledBack, ClosedIs DEF Ended
  <2> QED
    BY <1>4, <2>1, <2>2, <2>3, <2>4 DEF AppTypes, InFlight, NoJob
<1>6. ASSUME NEW d \in Deploys, JobStep(d)
      PROVE  /\ job' \in [Deploys -> Jobs] /\ stray' \in [Deploys -> Operations \cup {"none"}]
             /\ \A e \in Deploys : Turn(e)
  <2>1. CASE StrayEnds(d)
    BY <2>1 DEF StrayEnds, AppTypes, Turn
  <2>2. CASE ~StrayEnds(d)
    <3>1. /\ Validate(d) \/ Operate(d) \/ OperationFails(d) \/ StartFails(d) \/ Prepare(d)
             \/ RecordRow(d) \/ Finish(d) \/ Sweep(d)
      BY <1>6, <2>2 DEF JobStep
    <3>2. UNCHANGED stray
      BY <3>1 DEF Validate, Operate, OperationFails, StartFails, Prepare, RecordRow, Finish, Sweep
    <3>a. job[d].status # "none"
      BY <3>1 DEF Validate, Operate, OperationFails, StartFails, Prepare, RecordRow, Finish, Sweep,
         Ended
    <3>3. JobOnly(d)
      BY <3>1, TaskGoes
    <3> QED
      BY <1>4, <3>2, <3>3, <3>a DEF AppTypes, NoJob
  <2> QED
    BY <2>1, <2>2
<1>7. CASE Restart
  <2>1. job' = [d \in Deploys |-> IF job[d] = NoJob THEN NoJob ELSE Closed(job[d], "swept")]
        /\ stray' = [d \in Deploys |-> "none"]
    BY <1>7 DEF Restart
  <2>2. ASSUME NEW d \in Deploys
        PROVE  job'[d] \in Jobs /\ stray'[d] = "none" /\ Turn(d)
    <3>1. CASE job[d] = NoJob
      BY <2>1, <3>1 DEF AppTypes, Turn
    <3>2. CASE job[d] # NoJob
      <4>1. job'[d] = Closed(job[d], "swept") /\ stray'[d] = "none"
        BY <2>1, <3>2
      <4> QED
        BY <3>2, <4>1, ClosedIs DEF Turn, Same
    <3> QED
      BY <3>1, <3>2
  <2> QED
    BY <2>1, <2>2
<1> QED
  BY <1>2, <1>3, <1>5, <1>6, <1>7 DEF DeployNext

LEMMA Starts ==
  ASSUME AppTypes, JobsInv, NEW d \in Deploys, Turn(d)
  PROVE  /\ New(d) \/ Same(d)
         /\ Active(d)' => Active(d) \/ New(d)
         /\ job[d] # NoJob => Same(d)
BY DEF Turn, Same, New, Active, InFlight, Ended, JobsInv, JobInv

-----------------------------------------------------------------------------
\* Workspaces, requests and what jobs have met.
LEMMA BuildsChange ==
  ASSUME AppTypes, JobsInv, DeployNext
  PROVE  /\ src' \in [Sessions -> Nat] /\ built' \in [Sessions -> Nat]
         /\ \A s \in Sessions : built[s] # 0 => built'[s] # 0
<1>1. CASE UNCHANGED <<src, built>>
  BY <1>1 DEF AppTypes
<1>2. CASE \/ \E d \in Deploys, s \in Sessions, k \in Slugs, full \in Kinds : Deploy(d, s, k, full)
           \/ \E d \in Deploys : Cancel(d)
           \/ \E k \in Slugs : AskStart(k) \/ AskStop(k) \/ AskDelete(k)
           \/ Restart \/ Reap
  BY <1>1, <1>2 DEF Deploy, Cancel, RollBack, AskStart, AskStop, AskDelete, Restart, Reap
<1>3. ASSUME NEW s \in Sessions, Edit(s)
      PROVE  src' \in [Sessions -> Nat] /\ UNCHANGED built
  BY <1>3 DEF Edit, AppTypes
<1>4. CASE RequestStep
  <2>1. UNCHANGED <<src, built>>
    BY <1>4 DEF RequestStep, ServiceStarts, StartService, DirectoryMoves, DirectoryGoes, RowChanges,
       RequestEnds, Regenerate
  <2> QED
    BY <1>1, <2>1
<1>5. ASSUME NEW d \in Deploys, Operate(d) \/ StrayEnds(d)
      PROVE  /\ src' \in [Sessions -> Nat] /\ built' \in [Sessions -> Nat]
             /\ \A s \in Sessions : built[s] # 0 => built'[s] # 0
  <2>1. ASSUME NEW op, Effect(op, d) PROVE UNCHANGED built \/ Rebuild(job[d].from)
    BY <2>1 DEF Effect, WritePlaceholder, CopyDist, InjectPwa, CopyBackend, InstallDeps,
       WriteUnit, EnableService, Regenerate, StartService
  <2>2. (UNCHANGED built \/ Rebuild(job[d].from)) /\ UNCHANGED src
    BY <1>5, <2>1 DEF Operate, StrayEnds
  <2>3. job[d].from \in Sessions
    <3>1. CASE Operate(d)
      BY <3>1, JobRuns DEF Operate, NoJob
    <3>2. CASE StrayEnds(d)
      BY <3>2, JobRuns DEF StrayEnds, JobsInv, JobInv
    <3> QED
      BY <1>5, <3>1, <3>2
  <2> QED
    BY <2>2, <2>3 DEF Rebuild, AppTypes
<1>6. ASSUME NEW d \in Deploys, JobStep(d), ~Operate(d), ~StrayEnds(d)
      PROVE  UNCHANGED <<src, built>>
  BY <1>6 DEF JobStep, Validate, OperationFails, StartFails, Prepare, RecordRow, Finish, Sweep, RollBack
<1> QED
  BY <1>1, <1>2, <1>3, <1>4, <1>5, <1>6 DEF DeployNext, AppTypes

LEMMA RequestChanges ==
  ASSUME AppTypes, DeployNext
  PROVE  req' \in Reqs /\ (req' # NoReq => req'.kind # "none" /\ req'.slug \in Slugs)
<1>1. CASE UNCHANGED req
  BY <1>1 DEF AppTypes
<1>2. CASE req' = NoReq
  BY <1>2 DEF NoReq, Reqs, NoRow, Rows, States, Owners
<1>3. ASSUME NEW k \in Slugs, AskStart(k) \/ AskStop(k) \/ AskDelete(k)
      PROVE  req' \in Reqs /\ req'.kind # "none" /\ req'.slug \in Slugs
  <2>1. row[k] \in Rows
    BY DEF AppTypes
  <2>2. \E kind \in {"start", "stop", "delete"}, at \in {1, 2} :
          req' = [kind |-> kind, slug |-> k, at |-> at, app |-> row[k]]
    BY <1>3 DEF AskStart, AskStop, AskDelete
  <2> QED
    BY <2>1, <2>2 DEF Reqs
<1>4. CASE RequestStep
  <2>1. \/ req' = NoReq
        \/ /\ req.kind # "none" \/ req.at = 3
           /\ \E step \in {2, 3, 4} : To(step)
    BY <1>4 DEF RequestStep, ServiceStarts, DirectoryMoves, DirectoryGoes, RowChanges, RequestEnds
  <2>2. CASE /\ req.kind # "none" \/ req.at = 3
             /\ \E step \in {2, 3, 4} : To(step)
    <3>1. req # NoReq
      BY <2>2 DEF NoReq
    <3>2. PICK step \in {2, 3, 4} : req' = [req EXCEPT !.at = step]
      BY <2>2 DEF To
    <3> QED
      BY <3>1, <3>2 DEF AppTypes, Reqs
  <2> QED
    BY <1>2, <2>1, <2>2
<1>5. CASE \/ \E s \in Sessions : Edit(s)
           \/ \E d \in Deploys, s \in Sessions, k \in Slugs, full \in Kinds : Deploy(d, s, k, full)
           \/ \E d \in Deploys : Cancel(d)
           \/ Restart \/ Reap
  BY <1>1, <1>2, <1>5 DEF Edit, Deploy, Cancel, RollBack, Restart, Reap
<1>6. ASSUME NEW d \in Deploys, JobStep(d) PROVE UNCHANGED req
  BY <1>6 DEF JobStep, Validate, Operate, StrayEnds, OperationFails, StartFails, Prepare, RecordRow,
     Finish, Sweep, RollBack
<1> QED
  BY <1>1, <1>3, <1>4, <1>5, <1>6 DEF DeployNext

\* What a step beside others adds.
Meets(d) ==
  /\ met'[d] \in SUBSET (Deploys \cup {0}) /\ met[d] \subseteq met'[d]
  /\ \A e \in Deploys : Active(d)' /\ Active(e)' /\ d # e => e \in met'[d]

LEMMA MeetIs ==
  ASSUME AppTypes, Meet, NEW d \in Deploys
  PROVE  /\ Meets(d) /\ met' \in [Deploys -> SUBSET (Deploys \cup {0})]
         /\ Active(d)' /\ (Conflicts(req, d) \/ Conflicts(req', d)) => 0 \in met'[d]
<1> DEFINE active == {e \in Deploys : job'[e].status \in {"pending", "running"} \/ stray'[e] # "none"}
<1>1. met' = [e \in Deploys |->
                IF e \notin active THEN met[e]
                ELSE met[e] \cup (active \ {e})
                            \cup (IF Conflicts(req', e) \/ Conflicts(req, e) THEN {0} ELSE {})]
  BY DEF Meet
<1>2. \A e \in Deploys : e \in active <=> Active(e)'
  BY DEF Active, InFlight
<1>3. active \subseteq Deploys
  OBVIOUS
<1> HIDE DEF active
<1>4. met' \in [Deploys -> SUBSET (Deploys \cup {0})]
  BY <1>1, <1>3 DEF AppTypes
<1>5. met'[d] = IF d \notin active THEN met[d]
                ELSE met[d] \cup (active \ {d})
                            \cup (IF Conflicts(req', d) \/ Conflicts(req, d) THEN {0} ELSE {})
  BY <1>1
<1> QED
  BY <1>2, <1>4, <1>5 DEF Meets


\* Requests move what belongs to one app.
Taken(k) == RequestStep /\ req.slug = k /\ req.kind # "none"

LEMMA MetGrows ==
  ASSUME AppTypes, JobsInv, ActiveMet, DeployNext
  PROVE  /\ met' \in [Deploys -> SUBSET (Deploys \cup {0})]
         /\ \A d \in Deploys : Meets(d)
         /\ \A d \in Deploys : Restart => ~Active(d)'
         /\ \A d \in Deploys : Reap /\ Active(d)' => 0 \in met'[d]
         /\ \A d \in Deploys : Taken(job[d].slug) /\ Active(d)' => 0 \in met'[d]
<1>1. ASSUME Meet
      PROVE  /\ met' \in [Deploys -> SUBSET (Deploys \cup {0})] /\ \A d \in Deploys : Meets(d)
             /\ \A d \in Deploys : Active(d)' /\ Conflicts(req, d) => 0 \in met'[d]
  <2>1. Deploys # {} => met' \in [Deploys -> SUBSET (Deploys \cup {0})]
    BY <1>1, MeetIs
  <2>2. met' = [d \in Deploys |-> met'[d]]
    BY <1>1 DEF Meet
  <2>3. Deploys = {} => met' \in [Deploys -> SUBSET (Deploys \cup {0})]
    BY <2>2
  <2> QED
    BY <1>1, <2>1, <2>3, MeetIs
<1>2. ASSUME met' \in [Deploys -> SUBSET (Deploys \cup {0})],
             \A d \in Deploys : met[d] \subseteq met'[d] /\ (Active(d)' => Active(d))
      PROVE  \A d \in Deploys : Meets(d)
  BY <1>2 DEF Meets, ActiveMet
<1>3. ASSUME Restart
      PROVE  /\ met' \in [Deploys -> SUBSET (Deploys \cup {0})]
             /\ \A d \in Deploys : Meets(d) /\ ~Active(d)'
  <2>1. \A d \in Deploys : job'[d].status \notin {"pending", "running"} /\ stray'[d] = "none"
    <3>1. job' = [d \in Deploys |-> IF job[d] = NoJob THEN NoJob ELSE Closed(job[d], "swept")]
          /\ stray' = [d \in Deploys |-> "none"]
      BY <1>3 DEF Restart
    <3>2. ASSUME NEW d \in Deploys, job[d] # NoJob PROVE Closed(job[d], "swept").status = "swept"
      BY ClosedIs
    <3> QED
      BY <3>1, <3>2 DEF NoJob
  <2>2. \A d \in Deploys : ~Active(d)'
    BY <2>1 DEF Active, InFlight
  <2>3. UNCHANGED met
    BY <1>3 DEF Restart
  <2> QED
    BY <1>2, <2>2, <2>3 DEF AppTypes
<1>4. ASSUME Reap
      PROVE  /\ met' \in [Deploys -> SUBSET (Deploys \cup {0})]
             /\ \A d \in Deploys : Meets(d) /\ (Active(d)' => 0 \in met'[d])
  <2>1. met' = [d \in Deploys |-> IF Active(d) THEN met[d] \cup {0} ELSE met[d]] /\ UNCHANGED jobVars
    BY <1>4 DEF Reap
  <2>2. \A d \in Deploys : Active(d)' => Active(d)
    BY <2>1 DEF Active, InFlight, jobVars
  <2>3. met' \in [Deploys -> SUBSET (Deploys \cup {0})]
    BY <2>1 DEF AppTypes
  <2> QED
    BY <1>2, <2>1, <2>2, <2>3
<1>5. ASSUME (\E s \in Sessions : Edit(s)) \/ \E d \in Deploys : Sweep(d)
      PROVE  /\ met' \in [Deploys -> SUBSET (Deploys \cup {0})]
             /\ \A d \in Deploys : Meets(d)
  <2>1. UNCHANGED met
    BY <1>5 DEF Edit, Sweep
  <2>2. ASSUME \E s \in Sessions : Edit(s), NEW d \in Deploys PROVE Active(d)' => Active(d)
    <3>1. UNCHANGED jobVars
      BY <2>2 DEF Edit
    <3> QED
      BY <3>1 DEF jobVars, Active, InFlight
  <2>3. ASSUME \E d \in Deploys : Sweep(d) PROVE \A d \in Deploys : Active(d)' => Active(d)
    <3>1. PICK d \in Deploys : Sweep(d)
      BY <2>3
    <3>2. UNCHANGED stray /\ job' = [job EXCEPT ![d] = Closed(job[d], "swept")]
      BY <3>1 DEF Sweep
    <3>3. job'[d].status = "swept" /\ \A e \in Deploys \ {d} : job'[e] = job[e]
      BY <3>2, ClosedIs DEF AppTypes
    <3> QED
      BY <3>2, <3>3 DEF Active, InFlight
  <2>4. \A d \in Deploys : Active(d)' => Active(d)
    BY <1>5, <2>2, <2>3
  <2> QED
    BY <1>2, <1>5, <2>1, <2>4 DEF AppTypes
<1>6. ASSUME RequestStep
      PROVE  \A d \in Deploys : Taken(job[d].slug) /\ Active(d)' => 0 \in met'[d]
  <2>1. Meet /\ UNCHANGED job
    BY <1>6 DEF RequestStep, ServiceStarts, DirectoryMoves, DirectoryGoes, RowChanges, RequestEnds, jobVars
  <2>2. \A d \in Deploys : Taken(job[d].slug) => Conflicts(req, d)
    BY <2>1 DEF Taken, Conflicts
  <2> QED
    BY <1>1, <2>1, <2>2
<1>7. Meet \/ Restart \/ Reap \/ (\E s \in Sessions : Edit(s)) \/ (\E d \in Deploys : Sweep(d))
  BY DEF DeployNext, Deploy, Cancel, JobStep, Validate, Operate, StrayEnds, OperationFails, StartFails,
     Prepare, RecordRow, Finish, AskStart, AskStop, AskDelete, RequestStep, ServiceStarts,
     DirectoryMoves, DirectoryGoes, RowChanges, RequestEnds
<1> QED
  <2>1. met' \in [Deploys -> SUBSET (Deploys \cup {0})] /\ \A d \in Deploys : Meets(d)
    BY <1>1, <1>3, <1>4, <1>5, <1>7
  <2>2. \A d \in Deploys : Taken(job[d].slug) /\ Active(d)' => 0 \in met'[d]
    BY <1>6 DEF Taken
  <2> QED
    BY <1>3, <1>4, <2>1, <2>2


-----------------------------------------------------------------------------
\* What was so stays so: jobs keep what they were posted for and what they have met.
ExcusedThen(d, k, o) ==
  \/ OwnerOf[job'[d].from] = o
  \/ \E e \in Deploys : /\ job'[e].slug = k /\ OwnerOf[job'[e].from] = o
                        /\ d \in met'[e] \/ e \in met'[d] \/ 0 \in met'[e]
CrossedThen(k, l) ==
  \E d, e \in Deploys : job'[d].slug = k /\ job'[e].slug = l /\ (d \in met'[e] \/ e \in met'[d])

\* AppInv without the properties that have lemmas of their own.
Basis == AppTypes /\ JobsInv /\ ActiveMet

LEMMA PostedStay ==
  ASSUME Basis, DeployNext, NEW d \in Deploys, job[d].slug \in Slugs
  PROVE  Same(d) /\ job'[d].slug \in Slugs
<1>1. job[d] # NoJob
  BY DeployAssumption DEF NoJob
<1>2. Turn(d)
  BY JobsChange DEF Basis
<1> QED
  BY <1>1, <1>2 DEF Turn, Same, New

LEMMA StillCrossed ==
  ASSUME Basis, DeployNext, NEW k \in Slugs, NEW l \in Slugs, Crossed(k, l)
  PROVE  CrossedThen(k, l) /\ CrossedThen(l, k)
<1>1. PICK d \in Deploys, e \in Deploys : job[d].slug = k /\ job[e].slug = l /\ Overlap(d, e)
  BY DEF Crossed
<1>2. met[d] \subseteq met'[d] /\ met[e] \subseteq met'[e]
  BY MetGrows DEF Basis, Meets
<1> QED
  BY <1>1, <1>2, PostedStay DEF CrossedThen, Overlap, Same

LEMMA StillExcused ==
  ASSUME Basis, DeployNext, NEW d \in Posted, NEW k \in Slugs, NEW o, Excused(d, k, o)
  PROVE  ExcusedThen(d, k, o)
<1>1. d \in Deploys /\ Same(d)
  BY PostedStay DEF Posted
<1>2. CASE Owner(d) = o
  BY <1>1, <1>2 DEF Owner, Same, ExcusedThen
<1>3. CASE \E e \in Deploys : job[e].slug = k /\ Owner(e) = o /\ (Overlap(d, e) \/ 0 \in met[e])
  <2>1. PICK e \in Deploys : job[e].slug = k /\ Owner(e) = o /\ (Overlap(d, e) \/ 0 \in met[e])
    BY <1>3
  <2>2. met[d] \subseteq met'[d] /\ met[e] \subseteq met'[e]
    BY <1>1, MetGrows DEF Basis, Meets
  <2>3. Same(e)
    BY <2>1, PostedStay
  <2> QED
    BY <2>1, <2>2, <2>3 DEF ExcusedThen, Overlap, Owner, Same
<1> QED
  BY <1>2, <1>3 DEF Excused

\* Two that are at work have met.
LEMMA WorkMeets ==
  ASSUME Basis, NEW d \in Deploys, NEW e \in Deploys, Active(d), Active(e)
  PROVE  /\ job[d].slug \in Slugs /\ job[e].slug \in Slugs /\ d \in Posted
         /\ Excused(d, job[e].slug, Owner(e))
         /\ job[d].slug # job[e].slug => Crossed(job[d].slug, job[e].slug)
<1>1. job[d] # NoJob /\ job[e] # NoJob
  <2>1. ASSUME NEW i \in Deploys, Active(i) PROVE job[i] # NoJob
    <3>1. CASE InFlight(i)
      BY <3>1 DEF InFlight, NoJob
    <3>2. CASE stray[i] # "none"
      BY <3>2 DEF Basis, JobsInv, JobInv
    <3> QED
      BY <2>1, <3>1, <3>2 DEF Active
  <2> QED
    BY <2>1
<1>2. job[d].slug \in Slugs /\ job[e].slug \in Slugs
  BY <1>1, JobRuns DEF Basis
<1>3. d # e => e \in met[d]
  BY DEF Basis, ActiveMet
<1> QED
  BY <1>2, <1>3 DEF Posted, Excused, Crossed, Overlap

-----------------------------------------------------------------------------
\* Ports.
LEMMA PortsStay ==
  ASSUME Basis, PortsApart, PortHeld, DeployNext
  PROVE  PortsApart' /\ PortHeld'
<1>0. AppTypes /\ JobsInv
  BY DEF Basis
<1>a. \A d \in Deploys : Turn(d)
  BY <1>0, JobsChange
<1>1. ASSUME NEW e \in Deploys, RecordRow(e), NEW l \in Slugs, l # job[e].slug,
             NEW p \in Nat, p # 0, row'[job[e].slug].port = p, row[l].port = p
      PROVE  Crossed(job[e].slug, l)
  <2>1. /\ job[e].slug \in Slugs /\ job[e].status = "running" /\ job[e].at = "row"
        /\ row'[job[e].slug].port \in {row[job[e].slug].port, 0}
           \/ (job[e].full /\ row'[job[e].slug].port = job[e].port)
    BY <1>0, <1>1, Records DEF Runs
  <2>2. CASE row[job[e].slug].port = p
    BY <1>1, <2>1, <2>2 DEF PortsApart, Crossed
  <2>3. CASE job[e].full /\ job[e].port = p
    BY <1>1, <2>1, <2>3 DEF PortHeld
  <2> QED
    BY <1>1, <2>1, <2>2, <2>3
<1>2. ASSUME NEW k \in Slugs, NEW l \in Slugs, k # l, row'[k].port # 0, row'[k].port = row'[l].port
      PROVE  CrossedThen(k, l)
  <2>1. /\ row' \in [Slugs -> Rows]
        /\ (\E e \in Deploys : RecordRow(e)) \/ \A m \in Slugs : SameApp(m)
    BY <1>0, RowsChange
  <2>2. row'[k] # NoRow /\ row'[l] # NoRow /\ row'[k].port \in Nat
    BY <1>2, <2>1 DEF NoRow, Rows
  <2>3. CASE \A m \in Slugs : SameApp(m)
    <3>1. row[k].port = row[l].port /\ row[k].port # 0
      BY <1>2, <2>2, <2>3 DEF SameApp
    <3>2. Crossed(k, l)
      BY <1>2, <3>1 DEF PortsApart, Crossed
    <3> QED
      BY <3>2, StillCrossed
  <2>4. CASE \E e \in Deploys : RecordRow(e)
    <3>1. PICK e \in Deploys : RecordRow(e)
      BY <2>4
    <3>2. \A m \in Slugs \ {job[e].slug} : row'[m] = row[m]
      BY <1>0, <3>1, Records
    <3>3. CASE k = job[e].slug
      BY <1>1, <1>2, <2>2, <3>1, <3>2, <3>3, StillCrossed
    <3>4. CASE l = job[e].slug
      BY <1>1, <1>2, <2>2, <3>1, <3>2, <3>4, StillCrossed
    <3>5. CASE k # job[e].slug /\ l # job[e].slug
      <4>1. Crossed(k, l)
        BY <1>2, <3>2, <3>5 DEF PortsApart, Crossed
      <4> QED
        BY <4>1, StillCrossed
    <3> QED
      BY <3>3, <3>4, <3>5
  <2> QED
    BY <2>1, <2>3, <2>4
<1>3. ASSUME NEW d \in Deploys, job'[d].status = "running", job'[d].full,
             job'[d].at \in {"unit", "enable", "row"}, NEW l \in Slugs \ {job'[d].slug},
             row'[l].port # 0, row'[l].port = job'[d].port
      PROVE  CrossedThen(job'[d].slug, l)
  <2>1. /\ job[d].status = "running" /\ job'[d].slug = job[d].slug /\ job'[d].full = job[d].full
        /\ job[d].slug \in Slugs /\ Active(d)
        /\ \/ job'[d] = job[d]
           \/ GoesOn(d)
    <3>1. Turn(d)
      BY <1>a
    <3>2. job'[d] = job[d] \/ (GoesOn(d) /\ Same(d) /\ InFlight(d))
      BY <1>3, <3>1 DEF Turn, Ended
    <3>3. GoesOn(d) => job[d].status = "running"
      BY <1>3 DEF GoesOn, Validate, Operate, StartFails, Prepare, RecordRow
    <3>4. job[d].status = "running" /\ job'[d].slug = job[d].slug /\ job'[d].full = job[d].full
      BY <1>3, <3>2, <3>3 DEF Same
    <3>5. Active(d)
      BY <3>4 DEF Active, InFlight
    <3> QED
      BY <3>2, <3>4, <3>5, WorkMeets
  <2>2. row' \in [Slugs -> Rows] /\ row'[l] # NoRow /\ l \in Slugs
    BY <1>0, <1>3, RowsChange DEF NoRow
  <2>3. CASE row'[l].port = row[l].port
    <3>1. CASE job[d].at \in {"unit", "enable", "row"} /\ job'[d].port = job[d].port
      <4>1. Crossed(job[d].slug, l)
        BY <1>3, <2>1, <2>3, <3>1 DEF PortHeld
      <4> QED
        BY <2>1, <2>2, <4>1, StillCrossed
    <3>2. CASE job[d].at = "port" /\ job'[d].port \in PortOf(d)
      <4>1. CASE row[job[d].slug].port # 0
        <5>1. row[job[d].slug].port = row[l].port
          BY <1>3, <2>3, <3>2, <4>1 DEF PortOf
        <5>2. Crossed(job[d].slug, l)
          BY <1>3, <2>1, <2>2, <4>1, <5>1 DEF PortsApart, Crossed
        <5> QED
          BY <2>1, <2>2, <5>2, StillCrossed
      <4>2. CASE row[job[d].slug].port = 0
        <5>1. job'[d].port \in FreePorts
          BY <3>2, <4>2 DEF PortOf
        <5> QED
          BY <1>3, <2>2, <2>3, <5>1 DEF FreePorts
      <4> QED
        BY <4>1, <4>2
    <3>3. job'[d] = job[d] \/ (Operate(d) /\ GoesOn(d))
      BY <1>3, <2>1 DEF GoesOn
    <3>4. CASE Operate(d) /\ GoesOn(d)
      <4>1. /\ job'[d].at = After(job[d].at, job[d].full)
            /\ IF job[d].at = "port" THEN job'[d].port \in PortOf(d) ELSE job'[d].port = job[d].port
        BY <1>3, <2>1, <3>4 DEF GoesOn, Validate, StartFails, Prepare, RecordRow
      <4>2. job[d].at \in Operations \ {"finish"} /\ job[d].full \in BOOLEAN
        BY <1>0, <2>1, <3>4 DEF JobsInv, JobInv, AppTypes, Jobs, Operate, Effect
      <4>3. job[d].at \in {"port", "unit", "enable"}
        BY <1>3, <2>1, <4>1, <4>2, NextOperation DEF Operations
      <4> QED
        BY <3>1, <3>2, <4>1, <4>3
    <3> QED
      BY <1>3, <3>1, <3>3, <3>4
  <2>4. CASE row'[l].port # row[l].port
    <3>1. ~SameApp(l)
      BY <2>2, <2>4 DEF SameApp
    <3>2. PICK e \in Deploys : RecordRow(e)
      BY <1>0, <2>2, <3>1, RowsChange
    <3>3. l = job[e].slug /\ Active(e)
      BY <1>0, <2>2, <2>4, <3>2, Records DEF RecordRow, Active, InFlight
    <3>4. Crossed(job[d].slug, l)
      BY <1>3, <2>1, <3>3, WorkMeets
    <3> QED
      BY <2>1, <2>2, <3>4, StillCrossed
  <2> QED
    BY <2>3, <2>4
<1>4. PortsApart'
  BY <1>2 DEF PortsApart, CrossedThen, Overlap
<1>5. PortHeld'
  BY <1>3 DEF PortHeld, Crossed, CrossedThen, Overlap
<1> QED
  BY <1>4, <1>5

-----------------------------------------------------------------------------
\* Files.
LEMMA PartsPosted ==
  ASSUME Basis, TreesPosted, DeployNext
  PROVE  /\ \A k \in Slugs, p \in Own :
              {files'[k][p], parked'[k][p]} \subseteq Posted \cup {0}
         /\ TreesPosted'
<1>1. ASSUME NEW k \in Slugs, NEW p \in Own
      PROVE  {files'[k][p], parked'[k][p]} \subseteq Posted \cup {0}
  <2>1. ASSUME NEW d \in Deploys, Active(d) PROVE d \in Posted
    BY <2>1, WorkMeets
  <2>2. {files[k][p], parked[k][p]} \subseteq Posted \cup {0}
    BY DEF TreesPosted
  <2> QED
    BY <2>1, <2>2, TreesChange DEF Basis, Unparked, Moved, Own, Parts
<1>2. \A d \in Posted : d \in Deploys /\ job'[d].slug \in Slugs
  BY PostedStay DEF Posted
<1>3. Posted' = {d \in Deploys : job'[d].slug \in Slugs}
  BY DEF Posted
<1>4. TreesPosted'
  BY <1>1, <1>2, <1>3 DEF TreesPosted
<1> QED
  BY <1>1, <1>4

LEMMA IntrudersStay ==
  ASSUME Basis, IntrudersMet, DeployNext
  PROVE  IntrudersMet'
<1>0. AppTypes /\ JobsInv
  BY DEF Basis
<1>1. ASSUME NEW d \in Deploys, Active(d)', row'[job'[d].slug] # NoRow
      PROVE  ExcusedThen(d, job'[d].slug, row'[job'[d].slug].owner)
  <2>1. Turn(d) /\ (Active(d) \/ New(d)) /\ (Active(d) => Same(d))
    <3>1. Turn(d)
      BY <1>0, JobsChange
    <3>2. Active(d) => job[d] # NoJob
      <4>1. ASSUME Active(d) PROVE job[d].slug \in Slugs
        BY <4>1, WorkMeets
      <4> QED
        BY <4>1, DeployAssumption DEF NoJob
    <3> QED
      BY <1>0, <1>1, <3>1, <3>2, Starts
  <2>2. CASE New(d)
    BY <1>1, <2>2 DEF New, MayUse, Has, ExcusedThen
  <2>3. CASE Active(d)
    <3> DEFINE k == job[d].slug
    <3>1. k \in Slugs /\ job'[d].slug = k /\ d \in Posted
      BY <2>1, <2>3, WorkMeets DEF Same
    <3>2. PICK o : o = row'[k].owner
      OBVIOUS
    <3>3. Excused(d, k, o)
      <4>1. CASE SameApp(k)
        BY <1>1, <2>3, <3>1, <3>2, <4>1 DEF SameApp, IntrudersMet, Has
      <4>2. CASE ~SameApp(k)
        <5>1. PICK e \in Deploys : RecordRow(e)
          BY <1>0, <3>1, <4>2, RowsChange
        <5>2. k = job[e].slug /\ ((row'[k].owner = row[k].owner /\ row[k] # NoRow) \/ o = Owner(e)) /\ Active(e)
          BY <1>0, <1>1, <3>1, <3>2, <4>2, <5>1, Records DEF RecordRow, Active, InFlight, SameApp
        <5>3. CASE o = Owner(e)
          BY <2>3, <5>2, <5>3, WorkMeets
        <5>4. CASE row'[k].owner = row[k].owner /\ row[k] # NoRow
          BY <2>3, <3>2, <5>4 DEF IntrudersMet, Has
        <5> QED
          BY <5>2, <5>3, <5>4
      <4> QED
        BY <4>1, <4>2
    <3>4. ExcusedThen(d, k, o)
      BY <3>1, <3>3, StillExcused
    <3> QED
      BY <3>1, <3>2, <3>4
  <2> QED
    BY <2>1, <2>2, <2>3
<1>2. ASSUME NEW d \in Deploys
      PROVE  (Active(d) /\ Has(job[d].slug) => Excused(d, job[d].slug, row[job[d].slug].owner))'
  BY <1>1 DEF Has, Excused, ExcusedThen, Owner, Overlap
<1> QED
  BY <1>2 DEF IntrudersMet

LEMMA RowsStay ==
  ASSUME Basis, IntrudersMet, TreesPosted, RowsAllow, JobsAllow, DeployNext
  PROVE  RowsAllow'
<1>0. AppTypes /\ JobsInv
  BY DEF Basis
<1>1. ASSUME NEW k \in Slugs, NEW p \in Own, row'[k] # NoRow,
             NEW d \in {files'[k][p], parked'[k][p]}, d # 0
      PROVE  ExcusedThen(d, k, row'[k].owner)
  <2>1. d \in Posted
    BY <1>1, PartsPosted
  <2>2. PICK o : o = row'[k].owner
    OBVIOUS
  <2>3. CASE row[k] # NoRow /\ o = row[k].owner
    <3>1. \/ d \in {files[k][p], parked[k][p]}
          \/ d \in Deploys /\ Active(d) /\ job[d].slug = k
      BY <1>0, <1>1, TreesChange DEF Unparked, Moved, Own, Parts
    <3>2. Excused(d, k, o)
      BY <1>1, <2>3, <3>1 DEF RowsAllow, Allowed, IntrudersMet, Has
    <3> QED
      BY <2>1, <2>2, <3>2, StillExcused
  <2>4. CASE ~(row[k] # NoRow /\ o = row[k].owner)
    <3>1. PICK e \in Deploys : RecordRow(e)
      BY <1>0, <1>1, <2>2, <2>4, RowsChange DEF SameApp
    <3>2. Runs(e, {"row"}) /\ job[e].slug = k /\ o = Owner(e)
      BY <1>0, <1>1, <2>2, <2>4, <3>1, Records
    <3>3. UNCHANGED <<files, parked>>
      BY <3>1 DEF RecordRow, RollBack
    <3>4. Runs(e, Prepared) /\ Runs(e, Beyond(e, p))
      BY <3>2 DEF Runs, Prepared, Beyond
    <3>5. Excused(d, k, o)
      BY <1>1, <3>2, <3>3, <3>4 DEF JobsAllow, Allowed
    <3> QED
      BY <2>1, <2>2, <3>5, StillExcused
  <2> QED
    BY <2>3, <2>4
<1>2. ASSUME NEW k \in Slugs, NEW p \in Own, row'[k] # NoRow
      PROVE  /\ files'[k][p] # 0 => ExcusedThen(files'[k][p], k, row'[k].owner)
             /\ parked'[k][p] # 0 => ExcusedThen(parked'[k][p], k, row'[k].owner)
  BY <1>1, <1>2
<1>3. ASSUME NEW k \in Slugs, NEW p \in Own
      PROVE  (Has(k) => Allowed(files, k, row[k].owner, p) /\ Allowed(parked, k, row[k].owner, p))'
  BY <1>2 DEF Allowed, Has, Excused, ExcusedThen, Owner, Overlap
<1> QED
  BY <1>3 DEF RowsAllow

\* What a job has gone past stays its own, or an excused part.
LEMMA TreesKept ==
  ASSUME Basis, TreesPosted, JobsAllow, DeployNext, NEW d \in Deploys, Runs(d, Prepared), Active(d)',
         NEW p \in Own
  PROVE  LET k == job[d].slug IN
         /\ parked'[k][p] # 0 => ExcusedThen(parked'[k][p], k, Owner(d))
         /\ Runs(d, Beyond(d, p)) /\ files'[k][p] # 0 => ExcusedThen(files'[k][p], k, Owner(d))
<1> DEFINE k == job[d].slug
<1>0. AppTypes /\ JobsInv
  BY DEF Basis
<1>1. Active(d) /\ k \in Slugs /\ Same(d)
  <2>1. Active(d)
    BY DEF Active, InFlight, Runs
  <2> QED
    BY <2>1, WorkMeets, PostedStay
<1>2. ASSUME NEW x \in Posted, Excused(x, k, Owner(d)) PROVE ExcusedThen(x, k, Owner(d))
  BY <1>1, <1>2, StillExcused
<1>3. ASSUME Moved(k, p), Restart \/ Reap \/ Taken(k), NEW x PROVE ExcusedThen(x, k, Owner(d))
  <2>1. 0 \in met'[d]
    BY <1>0, <1>1, <1>3, MetGrows DEF Basis
  <2> QED
    BY <1>1, <2>1 DEF ExcusedThen, Same, Owner
<1>4. {files'[k][p], parked'[k][p]} \subseteq Posted \cup {0}
  BY <1>1, PartsPosted
<1>5. parked[k][p] # 0 => Excused(parked[k][p], k, Owner(d))
  BY DEF JobsAllow, Allowed
<1>6. Runs(d, Beyond(d, p)) /\ files[k][p] # 0 => Excused(files[k][p], k, Owner(d))
  BY DEF JobsAllow, Allowed
<1>7. ASSUME NEW e \in Deploys, Active(e), job[e].slug = k PROVE Excused(e, k, Owner(d))
  BY <1>1, <1>7, WorkMeets
<1>8. \/ /\ Unparked(k, p)
         /\ \/ files'[k][p] \in {0, files[k][p], parked[k][p]}
            \/ \E e \in Deploys : Active(e) /\ job[e].slug = k /\ files'[k][p] = e
      \/ Moved(k, p) /\ (Restart \/ Reap \/ Taken(k))
  BY <1>0, <1>1, TreesChange DEF Taken, Own, Parts
<1>9. CASE Unparked(k, p)
  <2>1. parked'[k][p] # 0 => ExcusedThen(parked'[k][p], k, Owner(d))
    BY <1>2, <1>4, <1>5, <1>9 DEF Unparked
  <2>2. ASSUME Runs(d, Beyond(d, p)), files'[k][p] # 0 PROVE ExcusedThen(files'[k][p], k, Owner(d))
    BY <1>2, <1>3, <1>4, <1>5, <1>6, <1>7, <1>8, <2>2
  <2> QED
    BY <2>1, <2>2
<1> QED
  BY <1>3, <1>8, <1>9

LEMMA JobsStay ==
  ASSUME Basis, BuiltInv, TreesPosted, JobsAllow, DeployNext
  PROVE  JobsAllow'
<1>0. AppTypes /\ JobsInv
  BY DEF Basis
<1>1. ASSUME NEW d \in Deploys, NEW p \in Own, job'[d].status = "running"
      PROVE  LET k == job'[d].slug
                 o == OwnerOf[job'[d].from] IN
             /\ /\ job'[d].at \in Prepared
                /\ parked'[k][p] # 0
                => ExcusedThen(parked'[k][p], k, o)
             /\ /\ job'[d].at \in (IF ~job'[d].full \/ p = "static"
                                   THEN {"pwa", "backend", "deps", "port", "unit", "enable", "row"}
                                   ELSE IF p = "backend" THEN {"deps", "port", "unit", "enable", "row"}
                                   ELSE {"port", "unit", "enable", "row"})
                /\ files'[k][p] # 0
                => ExcusedThen(files'[k][p], k, o)
  <2> DEFINE k == job[d].slug
  <2>1. Active(d)'
    BY <1>1 DEF Active, InFlight
  <2>2. job'[d] = job[d] \/ (Same(d) /\ InFlight(d) /\ GoesOn(d))
    <3>1. Turn(d)
      BY <1>0, JobsChange
    <3> QED
      BY <1>1, <3>1 DEF Turn, Ended
  <2>3. /\ job'[d].slug = k /\ job'[d].from = job[d].from /\ job'[d].full = job[d].full
        /\ Owner(d) = OwnerOf[job'[d].from]
    BY <2>2 DEF Same, Owner
  <2>4. CASE job'[d] = job[d]
    <3>1. job'[d].at \in Prepared => Runs(d, Prepared)
      BY <1>1, <2>4 DEF Runs
    <3>2. job'[d].at \in Beyond(d, p) => Runs(d, Beyond(d, p)) /\ Runs(d, Prepared)
      BY <1>1, <2>4 DEF Runs, Beyond, Prepared
    <3> QED
      BY <2>1, <2>3, <3>1, <3>2, TreesKept DEF Beyond
  <2>5. CASE InFlight(d) /\ GoesOn(d) /\ ~Operate(d)
    <3>1. \/ job'[d].at \in {"eager", "finish", "regen"}
          \/ job'[d].at = "rebuild" /\ parked'[k] = Empty
      BY <2>5 DEF GoesOn
    <3>2. parked'[k] = Empty => parked'[k][p] = 0
      BY DEF Empty, Own, Parts
    <3> QED
      BY <2>3, <3>1, <3>2 DEF Prepared
  <2>6. CASE InFlight(d) /\ GoesOn(d) /\ Operate(d)
    <3>1. /\ job[d].status = "running" /\ job[d].full \in BOOLEAN /\ Effect(job[d].at, d)
          /\ job[d].at \in Operations \ {"row", "prepare", "finish"} /\ job[d] # NoJob
      <4>1. job[d].status = "running" /\ Effect(job[d].at, d)
        BY <2>6 DEF Operate
      <4>2. job[d].full \in BOOLEAN /\ job[d].at \in Operations /\ job[d] # NoJob
        BY <1>0, <4>1 DEF AppTypes, Jobs, JobsInv, JobInv, NoJob
      <4>3. job[d].at \notin {"row", "prepare", "finish"}
        BY <4>1 DEF Effect
      <4> QED
        BY <4>1, <4>2, <4>3
    <3>2. job'[d].at = After(job[d].at, job[d].full)
      <4>1. job[d].at = "start" => After(job[d].at, job[d].full) = "finish"
        BY <3>1, NextOperation
      <4>2. ~Validate(d) /\ ~Prepare(d) /\ ~RecordRow(d)
        BY <3>1 DEF Validate, Prepare, RecordRow
      <4> QED
        BY <2>6, <4>1, <4>2 DEF GoesOn
    <3>3. job'[d].at \in Prepared => Runs(d, Prepared)
      BY <3>1, <3>2, NextOperation DEF Operations, Prepared, Runs
    <3>4. CASE job[d].at \in Beyond(d, p)
      <4>1. Runs(d, Prepared) /\ Runs(d, Beyond(d, p))
        BY <3>1, <3>4 DEF Runs, Beyond, Prepared
      <4> QED
        BY <2>1, <2>3, <4>1, TreesKept
    <3>5. CASE job[d].at \notin Beyond(d, p)
      <4>1. job'[d].at \in Beyond(d, p) =>
              \/ job[d].at = "copy" /\ (~job[d].full \/ p = "static")
              \/ job[d].at = "backend" /\ p = "backend"
              \/ job[d].at = "deps" /\ p = "deps"
        BY <3>1, <3>2, <3>5, NextOperation DEF Operations, Beyond, Own
      <4>2. job'[d].at \in Beyond(d, p) => files'[k][p] \in {0, d}
        BY <1>0, <3>1, <4>1, Writes DEF Stages, BuiltInv, Own, Parts
      <4>3. ExcusedThen(d, k, Owner(d))
        BY <2>3 DEF ExcusedThen
      <4> QED
        BY <2>1, <2>3, <3>3, <4>2, <4>3, TreesKept DEF Beyond
    <3> QED
      BY <3>4, <3>5
  <2> QED
    BY <2>2, <2>4, <2>5, <2>6
<1>2. ASSUME NEW d \in Deploys, NEW p \in Own
      PROVE  /\ (Runs(d, Prepared) => Allowed(parked, job[d].slug, Owner(d), p))'
             /\ (Runs(d, Beyond(d, p)) => Allowed(files, job[d].slug, Owner(d), p))'
  BY <1>1 DEF Runs, Beyond, Prepared, Allowed, Excused, ExcusedThen, Owner, Overlap
<1> QED
  BY <1>2 DEF JobsAllow

-----------------------------------------------------------------------------
\* Types.  Ports stay in their range; files and units name the jobs that wrote them.
Unit     == [port : 0 .. NumPorts, enabled : BOOLEAN, on : 0 .. NumPorts, by : 0 .. NumDeploys]
Fragment == [kind : {"none", "deploying", "static", "full"}, port : 0 .. NumPorts]
Narrow ==
  /\ sess \subseteq Sessions /\ svc \subseteq Slugs
  /\ row \in [Slugs -> AppRow \cup {NoRow}]
  /\ files \in [Slugs -> Tree] /\ parked \in [Slugs -> Tree]
  /\ route \in [Slugs -> Fragment] /\ unit \in [Slugs -> Unit]
  /\ \A s \in Sessions : built[s] <= src[s]
  /\ \A d \in Deploys : job[d].port \in 0 .. NumPorts /\ job[d].was \in AppRow \cup {NoRow}

\* A unit is rewritten by a job at work only.
LEMMA UnitsChange ==
  ASSUME AppTypes, JobsInv, Narrow, DeployNext
  PROVE  /\ unit' \in [Slugs -> Unit]
         /\ \A k \in Slugs : \/ unit'[k].by \in {0, unit[k].by}
                             \/ \E d \in Deploys : Active(d) /\ job[d].slug = k /\ unit'[k].by = d
<1> DEFINE Kept == /\ unit' \in [Slugs -> Unit]
                   /\ \A k \in Slugs : unit'[k].by \in {0, unit[k].by}
<1>1. UNCHANGED unit => Kept
  BY DEF Narrow
<1>2. ASSUME NEW k \in Slugs, NEW u \in Unit, unit' = [unit EXCEPT ![k] = u], u.by \in {0, unit[k].by}
      PROVE  Kept
  BY <1>2 DEF Narrow
<1>3. ASSUME NEW k \in Slugs
      PROVE  /\ EnableService(k) => Kept
             /\ StartService(k) => Kept
             /\ unit' = [unit EXCEPT ![k].on = 0] => Kept
             /\ unit' = [unit EXCEPT ![k].on = unit[k].on] => Kept
             /\ unit' = [unit EXCEPT ![k] = NoUnit] => Kept
  <2>0. unit[k] \in Unit
    BY DEF Narrow
  <2>1. CASE EnableService(k)
    <3>1. unit' = [unit EXCEPT ![k] = [unit[k] EXCEPT !.enabled = TRUE]]
      BY <2>1 DEF EnableService, Narrow
    <3>2. /\ [unit[k] EXCEPT !.enabled = TRUE] \in Unit
          /\ [unit[k] EXCEPT !.enabled = TRUE].by = unit[k].by
      BY <2>0 DEF Unit
    <3> QED
      BY <1>2, <3>1, <3>2
  <2>2. CASE StartService(k)
    <3>1. unit' = [unit EXCEPT ![k] = [unit[k] EXCEPT !.enabled = TRUE, !.on = unit[k].port]]
      BY <2>2 DEF StartService, Narrow
    <3>2. /\ [unit[k] EXCEPT !.enabled = TRUE, !.on = unit[k].port] \in Unit
          /\ [unit[k] EXCEPT !.enabled = TRUE, !.on = unit[k].port].by = unit[k].by
      BY <2>0 DEF Unit
    <3> QED
      BY <1>2, <3>1, <3>2
  <2>3. ASSUME NEW p \in {0, unit[k].on}, unit' = [unit EXCEPT ![k].on = p] PROVE Kept
    <3>1. unit' = [unit EXCEPT ![k] = [unit[k] EXCEPT !.on = p]]
      BY <2>3 DEF Narrow
    <3>2. [unit[k] EXCEPT !.on = p] \in Unit /\ [unit[k] EXCEPT !.on = p].by = unit[k].by
      BY <2>0, DeployAssumption DEF Unit
    <3> QED
      BY <1>2, <3>1, <3>2
  <2>4. CASE unit' = [unit EXCEPT ![k] = NoUnit]
    <3>1. NoUnit \in Unit /\ NoUnit.by = 0
      BY DeployAssumption DEF NoUnit, Unit
    <3> QED
      BY <1>2, <2>4, <3>1
  <2> QED
    BY <2>1, <2>2, <2>3, <2>4
<1>4. ASSUME NEW d \in Deploys, Operate(d) \/ StrayEnds(d)
      PROVE  \/ Kept
             \/ /\ Active(d) /\ unit' \in [Slugs -> Unit]
                /\ \A k \in Slugs : unit'[k].by = unit[k].by \/ (k = job[d].slug /\ unit'[k].by = d)
  <2>1. Active(d) /\ job[d].slug \in Slugs
    <3>1. CASE Operate(d)
      BY <3>1, JobRuns DEF Operate, Active, InFlight, NoJob
    <3>2. CASE StrayEnds(d)
      BY <3>2, JobRuns DEF StrayEnds, Active, JobsInv, JobInv
    <3> QED
      BY <1>4, <3>1, <3>2
  <2>2. ASSUME NEW op, Effect(op, d)
        PROVE  \/ UNCHANGED unit \/ WriteUnit(d)
               \/ EnableService(job[d].slug) \/ StartService(job[d].slug)
    BY <2>2 DEF Effect, WritePlaceholder, Rebuild, CopyDist, InjectPwa, CopyBackend, InstallDeps,
       Regenerate, appVars
  <2>3. UNCHANGED unit \/ WriteUnit(d) \/ EnableService(job[d].slug) \/ StartService(job[d].slug)
    BY <1>4, <2>2 DEF Operate, StrayEnds, appVars
  <2>4. CASE WriteUnit(d)
    <3> DEFINE k == job[d].slug
               u == [unit[k] EXCEPT !.port = job[d].port, !.by = d]
    <3>1. unit' = [unit EXCEPT ![k] = u]
      BY <2>1, <2>4 DEF WriteUnit, Narrow
    <3>2. u \in Unit /\ u.by = d
      <4>1. unit[k] \in Unit /\ job[d].port \in 0 .. NumPorts /\ d \in 0 .. NumDeploys
        BY <2>1 DEF Narrow, Deploys
      <4> QED
        BY <4>1 DEF Unit
    <3> HIDE DEF u
    <3> QED
      BY <2>1, <3>1, <3>2 DEF Narrow
  <2> QED
    BY <1>1, <1>3, <2>1, <2>3, <2>4
<1>5. CASE Restart \/ Reap
  <2>1. unit' = [k \in Slugs |-> IF row[k].port # 0 THEN unit[k] ELSE NoUnit]
    BY <1>5 DEF Restart, Reap, Reconcile
  <2>2. NoUnit \in Unit /\ NoUnit.by = 0
    BY DeployAssumption DEF NoUnit, Unit
  <2> QED
    BY <2>1, <2>2 DEF Narrow
<1>6. CASE RequestStep
  <2>1. UNCHANGED unit \/ (ServiceStarts /\ StartService(req.slug))
    BY <1>6 DEF RequestStep, ServiceStarts, DirectoryMoves, DirectoryGoes, RowChanges, RequestEnds,
       Regenerate, appVars
  <2>2. ServiceStarts => req.slug \in Slugs
    BY DEF ServiceStarts, AppTypes, NoReq
  <2> QED
    BY <1>1, <1>3, <2>1, <2>2
<1>7. ASSUME NEW k \in Slugs, AskStop(k) \/ AskDelete(k) \/ AskStart(k) PROVE Kept
  <2>1. \/ UNCHANGED unit \/ unit' = [unit EXCEPT ![k].on = 0] \/ unit' = [unit EXCEPT ![k] = NoUnit]
        \/ unit' = [unit EXCEPT ![k].on = unit[k].on]
    BY <1>7 DEF AskStop, AskDelete, AskStart
  <2> QED
    BY <1>1, <1>3, <2>1
<1>8. ASSUME NEW d \in Deploys, StartFails(d) PROVE Kept
  <2>1. job[d].slug \in Slugs /\ unit' = [unit EXCEPT ![job[d].slug].on = 0]
    BY <1>8, JobRuns DEF StartFails, NoJob
  <2> QED
    BY <1>3, <2>1
<1>9. ASSUME NEW d \in Deploys, \/ Cancel(d) \/ Validate(d) \/ OperationFails(d) \/ Prepare(d)
                                \/ RecordRow(d) \/ Finish(d) \/ Sweep(d)
      PROVE  UNCHANGED unit
  BY <1>9 DEF Cancel, Validate, OperationFails, Prepare, RecordRow, Finish, Sweep, RollBack, appVars
<1>10. CASE \/ \E s \in Sessions : Edit(s)
            \/ \E d \in Deploys, s \in Sessions, k \in Slugs, full \in Kinds : Deploy(d, s, k, full)
  BY <1>1, <1>10 DEF Edit, Deploy, appVars
<1>11. CASE \E d \in Deploys : JobStep(d)
  BY <1>1, <1>4, <1>8, <1>9, <1>11 DEF JobStep
<1> QED
  BY <1>1, <1>5, <1>6, <1>7, <1>9, <1>10, <1>11 DEF DeployNext

\* A fragment is a placeholder, none, or one for a row.
LEMMA RoutesChange ==
  ASSUME AppTypes, JobsInv, Narrow, DeployNext
  PROVE  route' \in [Slugs -> Fragment]
<1>0. NoRoute \in Fragment /\ Placeholder \in Fragment
  BY DeployAssumption DEF NoRoute, Placeholder, Fragment
<1>1. UNCHANGED route => route' \in [Slugs -> Fragment]
  BY DEF Narrow
<1>2. ASSUME NEW k \in Slugs, NEW r \in {NoRoute, Placeholder}, route' = [route EXCEPT ![k] = r]
      PROVE  route' \in [Slugs -> Fragment]
  BY <1>0, <1>2 DEF Narrow
<1>3. ASSUME NEW owner, Regenerate(owner) PROVE route' \in [Slugs -> Fragment]
  <2>1. ASSUME NEW k \in Slugs, row[k].state = "running" PROVE RouteOf(row[k]) \in Fragment
    <3>1. row[k].port \in 0 .. NumPorts
      BY <2>1 DEF Narrow, AppRow, NoRow
    <3> QED
      BY <3>1, DeployAssumption DEF RouteOf, Fragment
  <2> QED
    BY <1>0, <1>3, <2>1 DEF Regenerate, Regenerated
<1>4. ASSUME NEW d \in Deploys, job[d] # NoJob, NEW status, RollBack(d, status)
      PROVE  route' \in [Slugs -> Fragment]
  BY <1>2, <1>4, JobRuns DEF RollBack
<1>5. ASSUME NEW d \in Deploys, Cancel(d) \/ JobStep(d) PROVE route' \in [Slugs -> Fragment]
  <2>1. CASE Operate(d) \/ StrayEnds(d)
    <3>1. job[d].slug \in Slugs
      <4>1. CASE Operate(d)
        BY <4>1, JobRuns DEF Operate, NoJob
      <4>2. CASE StrayEnds(d)
        BY <4>2, JobRuns DEF StrayEnds, JobsInv, JobInv
      <4> QED
        BY <2>1, <4>1, <4>2
    <3>2. ASSUME NEW op, Effect(op, d)
          PROVE  UNCHANGED route \/ WritePlaceholder(job[d].slug) \/ Regenerate(job[d].owner)
      BY <3>2 DEF Effect, Rebuild, CopyDist, InjectPwa, CopyBackend, InstallDeps, WriteUnit,
         EnableService, StartService, appVars
    <3>3. UNCHANGED route \/ WritePlaceholder(job[d].slug) \/ Regenerate(job[d].owner)
      BY <2>1, <3>2 DEF Operate, StrayEnds, appVars
    <3> QED
      BY <1>1, <1>2, <1>3, <3>1, <3>3 DEF WritePlaceholder
  <2>2. CASE \/ Cancel(d) \/ Validate(d) \/ OperationFails(d) \/ Prepare(d) \/ RecordRow(d)
             \/ Finish(d) \/ StartFails(d) \/ Sweep(d)
    <3>1. job[d] # NoJob
      BY <2>2 DEF Cancel, Validate, OperationFails, Prepare, RecordRow, Finish, StartFails, Sweep,
         Ended, NoJob
    <3>2. UNCHANGED route \/ RollBack(d, "cancelled") \/ RollBack(d, "failed")
      BY <2>2, Zenon DEF Cancel, Validate, OperationFails, Prepare, RecordRow, Finish, StartFails,
         Sweep, appVars
    <3> QED
      BY <1>1, <1>4, <3>1, <3>2
  <2> QED
    BY <1>5, <2>1, <2>2 DEF JobStep
<1>6. CASE RequestStep
  <2>1. UNCHANGED route \/ Regenerate(req.app.owner)
    BY <1>6 DEF RequestStep, ServiceStarts, DirectoryMoves, DirectoryGoes, RowChanges, RequestEnds,
       StartService, appVars
  <2> QED
    BY <1>1, <1>3, <2>1
<1>7. CASE Restart \/ Reap
  <2>1. route' = [k \in Slugs |-> IF Has(k) THEN route[k] ELSE NoRoute]
    BY <1>7 DEF Restart, Reap, Reconcile
  <2> QED
    BY <1>0, <2>1 DEF Narrow
<1>8. CASE \/ \E s \in Sessions : Edit(s)
           \/ \E d \in Deploys, s \in Sessions, k \in Slugs, full \in Kinds : Deploy(d, s, k, full)
           \/ \E k \in Slugs : AskStop(k) \/ AskDelete(k) \/ AskStart(k)
  BY <1>1, <1>8 DEF Edit, Deploy, AskStop, AskDelete, AskStart, appVars
<1> QED
  BY <1>5, <1>6, <1>7, <1>8 DEF DeployNext

LEMMA SessionsStay == DeployNext => UNCHANGED sess
BY DEF DeployNext, Edit, Deploy, Cancel, JobStep, Validate, Operate, StrayEnds, OperationFails,
   StartFails, Prepare, RecordRow, Finish, Sweep, RollBack, AskStart, AskStop, AskDelete, RequestStep,
   ServiceStarts, DirectoryMoves, DirectoryGoes, RowChanges, RequestEnds, Restart, Reap

\* The other state keeps its type.
LEMMA NarrowStays ==
  ASSUME AppTypes, JobsInv, Narrow, DeployNext
  PROVE  Narrow'
<1>1. row' \in [Slugs -> AppRow \cup {NoRow}]
  <2>1. row' \in [Slugs -> Rows]
    BY RowsChange
  <2>2. CASE \A l \in Slugs : SameApp(l)
    <3>1. ASSUME NEW l \in Slugs, row'[l] # NoRow PROVE row'[l] \in AppRow
      BY <2>2, <3>1 DEF SameApp, Narrow
    <3> QED
      BY <2>1, <3>1
  <2>3. CASE \E d \in Deploys : RecordRow(d)
    <3>1. PICK d \in Deploys : RecordRow(d)
      BY <2>3
    <3>2. job[d].port \in 0 .. NumPorts
      BY DEF Narrow
    <3>3. /\ job[d].slug \in Slugs /\ \A l \in Slugs \ {job[d].slug} : row'[l] = row[l]
          /\ row[job[d].slug] \in AppRow \cup {NoRow} /\ job[d].port \in 0 .. NumPorts
             => row'[job[d].slug] \in AppRow \cup {NoRow}
      BY <3>1, Records
    <3>4. \A l \in Slugs : row'[l] \in AppRow \cup {NoRow}
      BY <3>2, <3>3 DEF Narrow
    <3> QED
      BY <2>1, <3>4
  <2> QED
    BY <2>2, <2>3, RowsChange
<1>2. files' \in [Slugs -> Tree] /\ parked' \in [Slugs -> Tree]
  <2>1. ASSUME NEW k \in Slugs, NEW p \in Parts
        PROVE  files'[k][p] \in 0 .. NumDeploys /\ parked'[k][p] \in 0 .. NumDeploys
    <3>1. {0, files[k][p], parked[k][p]} \subseteq 0 .. NumDeploys /\ Deploys \subseteq 0 .. NumDeploys
      BY DeployAssumption DEF Narrow, Tree, Deploys
    <3> QED
      BY <3>1, TreesChange DEF Unparked, Moved
  <2>2. files' \in [Slugs -> [Parts -> Nat]] /\ parked' \in [Slugs -> [Parts -> Nat]]
    BY TreesChange
  <2>3. ASSUME NEW f \in [Slugs -> [Parts -> Nat]], \A k \in Slugs, p \in Parts : f[k][p] \in 0 .. NumDeploys
        PROVE  f \in [Slugs -> Tree]
    <3>1. ASSUME NEW k \in Slugs PROVE f[k] \in Tree
      BY <2>3 DEF Tree
    <3> QED
      BY <3>1
  <2> QED
    BY <2>1, <2>2, <2>3
<1>3. \A s \in Sessions : built'[s] <= src'[s]
  <2>1. CASE UNCHANGED <<src, built>>
    BY <2>1 DEF Narrow
  <2>2. ASSUME NEW s \in Sessions, Edit(s) PROVE \A t \in Sessions : built'[t] <= src'[t]
    BY <2>2 DEF Edit, Narrow, AppTypes
  <2>3. ASSUME NEW d \in Deploys, Operate(d) \/ StrayEnds(d)
        PROVE  \A t \in Sessions : built'[t] <= src'[t]
    <3>1. ASSUME NEW op, Effect(op, d) PROVE UNCHANGED built \/ Rebuild(job[d].from)
      BY <3>1 DEF Effect, WritePlaceholder, CopyDist, InjectPwa, CopyBackend, InstallDeps,
         WriteUnit, EnableService, Regenerate, StartService
    <3>2. (UNCHANGED built \/ Rebuild(job[d].from)) /\ UNCHANGED src
      BY <2>3, <3>1 DEF Operate, StrayEnds
    <3> QED
      BY <2>1, <3>2 DEF Rebuild, Narrow, AppTypes
  <2>4. ASSUME NEW d \in Deploys, JobStep(d) \/ Cancel(d), ~Operate(d), ~StrayEnds(d)
        PROVE  UNCHANGED <<src, built>>
    BY <2>4 DEF JobStep, Cancel, Validate, OperationFails, StartFails, Prepare, RecordRow, Finish,
       Sweep, RollBack
  <2>5. CASE \/ \E d \in Deploys, s \in Sessions, k \in Slugs, full \in Kinds : Deploy(d, s, k, full)
             \/ \E k \in Slugs : AskStart(k) \/ AskStop(k) \/ AskDelete(k)
             \/ Restart \/ Reap
    BY <2>1, <2>5 DEF Deploy, AskStart, AskStop, AskDelete, Restart, Reap
  <2>6. CASE RequestStep
    <3>1. UNCHANGED <<src, built>>
      BY <2>6 DEF RequestStep, ServiceStarts, StartService, DirectoryMoves, DirectoryGoes, RowChanges,
         RequestEnds, Regenerate
    <3> QED
      BY <2>1, <3>1
  <2> QED
    BY <2>1, <2>2, <2>3, <2>4, <2>5, <2>6 DEF DeployNext
<1>4. \A d \in Deploys : job'[d].port \in 0 .. NumPorts /\ job'[d].was \in AppRow \cup {NoRow}
  <2>1. ASSUME NEW d \in Deploys
        PROVE  job'[d].port \in 0 .. NumPorts /\ job'[d].was \in AppRow \cup {NoRow}
    <3>1. Turn(d) /\ job[d].port \in 0 .. NumPorts /\ job[d].was \in AppRow \cup {NoRow}
      BY JobsChange DEF Narrow
    <3>2. CASE New(d)
      BY <3>2, DeployAssumption DEF New, Narrow
    <3>3. CASE Same(d)
      <4>1. ASSUME Operate(d), NEW p \in PortOf(d) PROVE p \in 0 .. NumPorts
        <5>1. job[d].slug \in Slugs
          BY <4>1, JobRuns DEF Operate, NoJob
        <5>2. row[job[d].slug].port \in 0 .. NumPorts /\ Ports \subseteq 0 .. NumPorts
          BY <5>1, DeployAssumption DEF Narrow, AppRow, NoRow, Ports
        <5> QED
          BY <4>1, <5>2 DEF PortOf, FreePorts
      <4> QED
        BY <3>1, <3>3, <4>1 DEF Same
    <3> QED
      BY <3>1, <3>2, <3>3 DEF Turn
  <2> QED
    BY <2>1
<1>5. UNCHANGED sess
  BY SessionsStay
<1>6. svc' \subseteq Slugs
  <2>1. ASSUME NEW d \in Deploys, RecordRow(d) PROVE svc' \subseteq Slugs
    <3>1. job[d].slug \in Slugs /\ (UNCHANGED svc \/ svc' = svc \cup {job[d].slug})
      <4>1. UNCHANGED svc \/ svc' = svc \cup {job[d].slug}
        BY <2>1 DEF RecordRow, RollBack
      <4> QED
        BY <2>1, <4>1, JobRuns DEF RecordRow, NoJob
    <3> QED
      BY <3>1 DEF Narrow
  <2>2. ASSUME NEW d \in Deploys, Operate(d) \/ StrayEnds(d) PROVE UNCHANGED svc
    <3>1. ASSUME NEW op, Effect(op, d) PROVE UNCHANGED svc
      BY <3>1 DEF Effect, WritePlaceholder, Rebuild, CopyDist, InjectPwa, CopyBackend, InstallDeps,
         WriteUnit, EnableService, Regenerate, StartService, appVars
    <3> QED
      BY <2>2, <3>1 DEF Operate, StrayEnds, appVars
  <2>3. ASSUME NEW d \in Deploys, JobStep(d) \/ Cancel(d), ~Operate(d), ~StrayEnds(d), ~RecordRow(d)
        PROVE  UNCHANGED svc
    BY <2>3 DEF JobStep, Cancel, Validate, OperationFails, StartFails, Prepare, Finish, Sweep, RollBack,
       appVars
  <2>4. CASE \/ \E s \in Sessions : Edit(s)
             \/ \E d \in Deploys, s \in Sessions, k \in Slugs, full \in Kinds : Deploy(d, s, k, full)
             \/ \E k \in Slugs : AskStart(k) \/ AskStop(k) \/ AskDelete(k)
             \/ RequestStep
    <3>1. UNCHANGED svc \/ svc' = svc \ {req.slug}
      BY <2>4 DEF Edit, Deploy, AskStart, AskStop, AskDelete, RequestStep, ServiceStarts, StartService,
         DirectoryMoves, DirectoryGoes, RowChanges, RequestEnds, Regenerate, appVars
    <3> QED
      BY <3>1 DEF Narrow
  <2>5. CASE Restart \/ Reap
    BY <2>5 DEF Restart, Reap, Narrow
  <2> QED
    BY <2>1, <2>2, <2>3, <2>4, <2>5 DEF DeployNext, Narrow
<1>7. sess' \subseteq Sessions
  BY <1>5 DEF Narrow
<1> QED
  BY <1>1, <1>2, <1>3, <1>4, <1>6, <1>7, UnitsChange, RoutesChange DEF Narrow

-----------------------------------------------------------------------------
LEMMA BasisStays ==
  ASSUME Basis, DeployNext
  PROVE  Basis'
<1>0. AppTypes /\ JobsInv /\ ActiveMet
  BY DEF Basis
<1>1. AppTypes'
  BY <1>0, RowsChange, TreesChange, BuildsChange, JobsChange, RequestChanges, MetGrows DEF AppTypes
<1>2. ASSUME NEW d \in Deploys PROVE JobInv(d)'
  <2>1. Turn(d) /\ JobInv(d)
    BY <1>0, JobsChange DEF JobsInv
  <2>2. CASE job'[d] = job[d] /\ stray'[d] \in {stray[d], "none"}
    BY <2>1, <2>2 DEF JobInv
  <2>3. CASE New(d) /\ job'[d].status = "pending" /\ job'[d].at = "validate" /\ stray'[d] = "none"
    BY <2>3 DEF JobInv, New
  <2>4. CASE /\ Same(d) /\ job[d] # NoJob /\ job'[d].status \in Ended \cup {"swept"}
             /\ stray'[d] # "none" => Active(d)
    BY <2>1, <2>4 DEF JobInv, Same, Ended
  <2>5. CASE /\ Same(d) /\ InFlight(d) /\ job'[d].status = "running" /\ job'[d].at \in Operations
             /\ GoesOn(d) /\ stray'[d] = stray[d]
    <3>1. job[d] # NoJob
      BY <2>5 DEF InFlight, NoJob
    <3> QED
      BY <2>1, <2>5, <3>1 DEF JobInv, Same
  <2> QED
    BY <2>1, <2>2, <2>3, <2>4, <2>5 DEF Turn
<1>3. JobsInv'
  BY <1>2 DEF JobsInv
<1>4. ActiveMet'
  BY <1>0, MetGrows DEF ActiveMet, Meets
<1> QED
  BY <1>1, <1>3, <1>4 DEF Basis

\* A build stays where it is.
LEMMA BuiltStays ==
  ASSUME Basis, BuiltInv, DeployNext
  PROVE  BuiltInv'
<1>1. ASSUME NEW d \in Deploys, job'[d] # NoJob PROVE built'[job'[d].from] # 0
  <2>1. Turn(d) /\ \A s \in Sessions : built[s] # 0 => built'[s] # 0
    BY JobsChange, BuildsChange DEF Basis
  <2>2. CASE job[d] = NoJob
    <3>1. New(d)
      BY <1>1, <2>1, <2>2 DEF Turn, InFlight, NoJob
    <3> QED
      BY <2>1, <3>1 DEF New
  <2>3. CASE job[d] # NoJob
    <3>1. Same(d) /\ job[d].from \in Sessions /\ built[job[d].from] # 0
      BY <2>1, <2>3, JobRuns, Starts DEF Basis, BuiltInv
    <3> QED
      BY <2>1, <3>1 DEF Same
  <2> QED
    BY <2>2, <2>3
<1> QED
  BY <1>1 DEF BuiltInv

LEMMA AppInitially == DeployInit => AppInv
<1> SUFFICES ASSUME DeployInit PROVE AppInv
  OBVIOUS
<1>1. AppTypes
  <2>1. NoRow \in Rows /\ NoReq \in Reqs /\ NoJob \in Jobs /\ Empty \in [Parts -> Nat]
    BY DEF NoRow, Rows, States, Owners, NoReq, Reqs, NoJob, Jobs, Stages, Empty
  <2> QED
    BY <2>1 DEF DeployInit, AppTypes
<1>2. \A d \in Deploys : job[d] = NoJob /\ stray[d] = "none" /\ job[d].status = "none"
  BY DEF DeployInit, NoJob
<1>3. \A d \in Deploys : ~Active(d)
  BY <1>2 DEF Active, InFlight
<1>4. JobsInv /\ BuiltInv /\ ActiveMet /\ IntrudersMet /\ PortHeld /\ JobsAllow
  BY <1>2, <1>3 DEF JobsInv, JobInv, BuiltInv, ActiveMet, IntrudersMet, PortHeld, JobsAllow, Runs
<1>5. \A k \in Slugs : row[k] = NoRow /\ row[k].port = 0
  BY DEF DeployInit, NoRow
<1>6. PortsApart /\ RowsAllow
  BY <1>5 DEF PortsApart, RowsAllow, Has
<1>7. TreesPosted
  BY DEF DeployInit, Empty, TreesPosted, Own, Parts
<1> QED
  BY <1>1, <1>4, <1>6, <1>7 DEF AppInv

LEMMA AppInvStays == AppInv /\ [DeployNext]_deployVars => AppInv'
<1>1. ASSUME AppInv, DeployNext PROVE AppInv'
  <2>1. Basis
    BY <1>1 DEF AppInv, Basis
  <2>2. Basis' /\ BuiltInv' /\ PortsApart' /\ PortHeld' /\ IntrudersMet' /\ TreesPosted' /\ RowsAllow' /\ JobsAllow'
    BY <1>1, <2>1, BasisStays, BuiltStays, PortsStay, IntrudersStay, PartsPosted, RowsStay, JobsStay DEF AppInv
  <2> QED
    BY <2>2 DEF AppInv, Basis
<1>2. ASSUME AppInv, UNCHANGED deployVars PROVE AppInv'
  <2>1. UNCHANGED <<row, files, parked, src, built, job, stray, req, met>>
    BY <1>2 DEF deployVars, appVars, jobVars
  <2>2. AppTypes'
    BY <1>2, <2>1 DEF AppInv, AppTypes
  <2>3. JobsInv' /\ BuiltInv' /\ ActiveMet'
    BY <1>2, <2>1 DEF AppInv, JobsInv, JobInv, BuiltInv, ActiveMet, Active, InFlight
  <2>4. PortsApart'
    BY <1>2, <2>1 DEF AppInv, PortsApart, Overlap, Active, InFlight
  <2>5. PortHeld'
    BY <1>2, <2>1 DEF AppInv, PortHeld, Crossed, Overlap, Active, InFlight
  <2>6. IntrudersMet'
    BY <1>2, <2>1 DEF AppInv, IntrudersMet, Has, Excused, Overlap, Owner, Active, InFlight
  <2>7. TreesPosted'
    BY <1>2, <2>1 DEF AppInv, TreesPosted, Posted
  <2>8. RowsAllow'
    BY <1>2, <2>1 DEF AppInv, RowsAllow, Allowed, Excused, Overlap, Owner, Has
  <2>9. JobsAllow'
    <3>1. ASSUME NEW d \in Deploys, NEW k \in Slugs, NEW p \in Own
          PROVE  /\ Allowed(parked, k, Owner(d), p) => Allowed(parked, k, Owner(d), p)'
                 /\ Allowed(files, k, Owner(d), p) => Allowed(files, k, Owner(d), p)'
      BY <2>1 DEF Allowed, Excused, Overlap, Owner
    <3>2. ASSUME NEW d \in Deploys, NEW stages, Runs(d, stages)'
          PROVE  Runs(d, stages) /\ job[d].slug \in Slugs
      BY <1>2, <2>1, <3>2 DEF Runs, AppInv, JobsInv, JobInv, NoJob
    <3>3. ASSUME NEW d \in Deploys, NEW p \in Own
          PROVE  /\ Runs(d, Prepared)' => Allowed(parked, job[d].slug, Owner(d), p)'
                 /\ Runs(d, Beyond(d, p))' => Allowed(files, job[d].slug, Owner(d), p)'
      BY <1>2, <2>1, <3>1, <3>2 DEF AppInv, JobsAllow, Beyond
    <3> QED
      BY <3>3 DEF JobsAllow
  <2> QED
    BY <2>2, <2>3, <2>4, <2>5, <2>6, <2>7, <2>8, <2>9 DEF AppInv
<1> QED
  BY <1>1, <1>2

\* Every reachable state satisfies the invariant the two properties rest on.
THEOREM AppInvariant == DeploySpec => []AppInv
<1> QED
  BY AppInitially, AppInvStays, PTL DEF DeploySpec

\* Two apps are recorded on one port only if deployments of theirs overlapped
\* (_allocate_app_port, _run_deploy_job).
THEOREM PortsApartHolds == DeploySpec => []PortsApart
<1>1. AppInv => PortsApart
  BY DEF AppInv
<1> QED
  BY <1>1, AppInvariant, PTL

\* What is served under a slug was written for its owner, unless deployments overlapped or
\* a request for the app or of another owner came between (_run_deploy_job,
\* _apply_app_state_to_disk).
THEOREM FilesAreOwnHolds == DeploySpec => []FilesAreOwn
<1>1. AppInv => FilesAreOwn
  BY DEF AppInv, RowsAllow, Allowed, Excused, Owner, Own, FilesAreOwn, Has
<1> QED
  BY <1>1, AppInvariant, PTL

-----------------------------------------------------------------------------
\* A deployment that nothing conflicts with: what each operation of its job has left so
\* far, which nobody else touches.

PreRow   == {"validate", "eager", "prepare", "rebuild", "copy", "pwa", "backend", "deps", "port",
             "unit", "enable", "row"}
Recorded == {"regen", "start", "finish"}
Enabled  == {"row"} \cup Recorded
Equipped == {"enable"} \cup Enabled
Ported   == {"unit"} \cup Equipped
Supplied == {"port"} \cup Ported
Backed   == {"deps"} \cup Supplied
Copied   == {"pwa", "backend"} \cup Backed

\* Threads outlive only tasks that have ended; whom a job met has been posted; an app's
\* owner is read back when its row is written.
StraysOver == \A d \in Deploys : stray[d] # "none" => ~InFlight(d)
MetKnown   == \A d \in Deploys : \A e \in met[d] \ {0} : job[e] # NoJob
OwnersLate == \A d \in Deploys : job[d].at \in PreRow => job[d].owner = Nobody

\* The row of the app is the one the job was posted over, then its own.
SoleRow(d) ==
  LET k == job[d].slug IN
  /\ job[d].at \in PreRow => row[k] = job[d].was /\ (row[k] # NoRow => row[k].owner = Owner(d))
  /\ job[d].at \in Recorded =>
       /\ row[k].by = d /\ row[k].owner = Owner(d) /\ job[d].owner = Owner(d)
       /\ row[k].port = IF job[d].full THEN job[d].port ELSE 0
       /\ \/ row[k].state = "running"
          \/ /\ job[d].at = "finish" /\ job[d].full
             /\ row[k].state = "starting" /\ unit[k].on = 0

SoleUnit(d) ==
  LET k == job[d].slug IN
  job[d].full =>
    /\ job[d].at \in Ported => job[d].port # 0
    /\ job[d].at \in Equipped => unit[k].port = job[d].port
    /\ job[d].at \in Enabled => unit[k].enabled

SoleFiles(d) ==
  LET k == job[d].slug IN
  /\ job[d].at \in Copied => files[k][IF job[d].full THEN "static" ELSE "root"] = d
  /\ job[d].full => /\ job[d].at \in Backed => files[k]["backend"] = d
                    /\ job[d].at \in Supplied => files[k]["deps"] = d

SoleBuild(d) ==
  /\ src[job[d].from] >= job[d].asked
  /\ job[d].at = "copy" => built[job[d].from] >= job[d].asked
  /\ job[d].at \in Copied => job[d].ver >= job[d].asked

SoleRoute(d) ==
  LET k == job[d].slug IN
  job[d].at \in {"start", "finish"} /\ row[k].state = "running" => route[k] = RouteOf(row[k])

SoleKind(d) == job[d].at \in FullOnly => job[d].full

SoleAll(d) == SoleKind(d) /\ SoleRow(d) /\ SoleUnit(d) /\ SoleFiles(d) /\ SoleBuild(d) /\ SoleRoute(d)
Sole(d) == InFlight(d) /\ Plain(d) /\ Undisturbed(d) => SoleAll(d)

SoleInv ==
  /\ AppInv /\ Narrow /\ StraysOver /\ MetKnown /\ OwnersLate
  /\ \A d \in Deploys : Sole(d)

-----------------------------------------------------------------------------
\* Another job at work beside an undisturbed one is for another slug of its owner's.
LEMMA OthersApart ==
  ASSUME Basis, NEW d \in Deploys, NEW e \in Deploys, d # e, InFlight(d), Active(e), Undisturbed(d)
  PROVE  /\ job[d].slug \in Slugs /\ job[e].slug \in Slugs /\ job[e].slug # job[d].slug
         /\ job[e].owner \in {Nobody, Owner(d)} /\ job[d].from \in Sessions
<1>1. Active(d)
  BY DEF Active
<1>2. e \in met[d] /\ job[d].slug \in Slugs /\ job[e].slug \in Slugs
  BY <1>1, WorkMeets DEF Basis, ActiveMet
<1>3. job[d].from \in Sessions
  BY JobRuns DEF Basis, InFlight, NoJob
<1> QED
  BY <1>2, <1>3 DEF Undisturbed, Owner

\* What belongs to d stays, up to a regeneration of its owner's routes.
Left(d) ==
  LET k == job[d].slug
      s == job[d].from IN
  /\ row'[k] = row[k] /\ files'[k] = files[k] /\ unit'[k] = unit[k]
  /\ route'[k] = route[k] \/ \E o \in {Nobody, Owner(d)} : route'[k] = Regenerated(o, row)[k]
  /\ src'[s] >= src[s] /\ built'[s] >= built[s]

\* A blocking operation of another job, also one that comes late.
LEMMA EffectApart ==
  ASSUME Basis, Narrow, NEW d \in Deploys, NEW e \in Deploys, d # e, InFlight(d), Active(e),
         Undisturbed(d), NEW op \in Stages, Effect(op, e), UNCHANGED src
  PROVE  Left(d)
<1> DEFINE k == job[d].slug
           l == job[e].slug
           s == job[d].from
<1>1. /\ k \in Slugs /\ l \in Slugs /\ l # k /\ job[e].owner \in {Nobody, Owner(d)}
      /\ s \in Sessions
  BY OthersApart
<1>2. src[s] \in Nat /\ built[s] \in Nat /\ job[e].from \in Sessions
  <2>1. job[e] # NoJob
    <3>1. CASE InFlight(e)
      BY <3>1 DEF InFlight, NoJob
    <3>2. CASE stray[e] # "none"
      BY <3>2 DEF Basis, JobsInv, JobInv
    <3> QED
      BY <3>1, <3>2 DEF Active
  <2> QED
    BY <1>1, <2>1, JobRuns DEF Basis, AppTypes
<1>3. UNCHANGED row
  BY DEF Effect, WritePlaceholder, Rebuild, CopyDist, InjectPwa, CopyBackend, InstallDeps, WriteUnit,
     EnableService, Regenerate, StartService, appVars
<1>4. files'[k] = files[k]
  <2>1. UNCHANGED files \/ \E tree : files' = [files EXCEPT ![l] = tree]
    BY DEF Effect, WritePlaceholder, Rebuild, CopyDist, InjectPwa, CopyBackend, InstallDeps, WriteUnit,
       EnableService, Regenerate, StartService, appVars
  <2> QED
    BY <1>1, <2>1 DEF Narrow
<1>5. unit'[k] = unit[k]
  <2>1. \/ UNCHANGED unit \/ WriteUnit(e) \/ EnableService(l) \/ StartService(l)
    BY DEF Effect, WritePlaceholder, Rebuild, CopyDist, InjectPwa, CopyBackend, InstallDeps,
       Regenerate, appVars
  <2> QED
    BY <1>1, <2>1 DEF Narrow, WriteUnit, EnableService, StartService
<1>6. route'[k] = route[k] \/ \E o \in {Nobody, Owner(d)} : route'[k] = Regenerated(o, row)[k]
  <2>1. UNCHANGED route \/ WritePlaceholder(l) \/ Regenerate(job[e].owner)
    BY DEF Effect, Rebuild, CopyDist, InjectPwa, CopyBackend, InstallDeps, WriteUnit,
       EnableService, StartService, appVars
  <2>2. CASE UNCHANGED route \/ WritePlaceholder(l)
    BY <1>1, <2>2 DEF Narrow, WritePlaceholder
  <2>3. CASE Regenerate(job[e].owner)
    BY <1>1, <2>3 DEF Regenerate
  <2> QED
    BY <2>1, <2>2, <2>3
<1>7. built'[s] >= built[s]
  <2>1. UNCHANGED built \/ Rebuild(job[e].from)
    BY DEF Effect, WritePlaceholder, CopyDist, InjectPwa, CopyBackend, InstallDeps, WriteUnit,
       EnableService, Regenerate, StartService
  <2>2. CASE Rebuild(job[e].from)
    <3>1. src[job[e].from] \in Nat /\ built[job[e].from] \in Nat
      BY <1>2 DEF Basis, AppTypes
    <3> QED
      BY <1>1, <1>2, <2>2, <3>1 DEF Rebuild, Basis, AppTypes
  <2>3. CASE UNCHANGED built
    BY <1>2, <2>3
  <2> QED
    BY <2>1, <2>2, <2>3
<1>8. src'[s] >= src[s]
  BY <1>2
<1> QED
  BY <1>3, <1>4, <1>5, <1>6, <1>7, <1>8 DEF Left

\* Nothing of what belongs to d changes.
LEMMA NothingLeft ==
  ASSUME AppTypes, NEW d \in Deploys, job[d].from \in Sessions, UNCHANGED <<row, files, unit, route, src, built>>
  PROVE  Left(d)
<1>1. src[job[d].from] \in Nat /\ built[job[d].from] \in Nat
  BY DEF AppTypes
<1> QED
  BY <1>1 DEF Left

LEMMA JobApart ==
  ASSUME Basis, Narrow, NEW d \in Deploys, NEW e \in Deploys, d # e, InFlight(d), Undisturbed(d),
         Cancel(e) \/ JobStep(e)
  PROVE  Left(d)
<1> DEFINE k == job[d].slug
           l == job[e].slug
<1>0. AppTypes /\ job[d].from \in Sessions
  BY JobRuns DEF Basis, InFlight, NoJob
<1>1. CASE Sweep(e) \/ (Validate(e) /\ ~RollBack(e, "failed"))
  BY <1>0, <1>1, NothingLeft DEF Sweep, Validate, appVars
<1>2. Active(e) \/ Sweep(e)
  BY DEF Cancel, JobStep, Validate, Operate, OperationFails, StartFails, Prepare, RecordRow, Finish,
     StrayEnds, Active, InFlight
<1>3. CASE Operate(e) \/ StrayEnds(e)
  <2>1. Active(e) /\ UNCHANGED src /\ job[e].at \in Stages /\ stray[e] \in Stages
    BY <1>0, <1>3 DEF Operate, StrayEnds, Active, InFlight, AppTypes, Jobs, Stages
  <2>2. (\E op \in Stages : Effect(op, e)) \/ UNCHANGED <<appVars, built>>
    BY <1>3, <2>1 DEF Operate, StrayEnds
  <2> QED
    BY <1>0, <2>1, <2>2, EffectApart, NothingLeft DEF appVars
<1>4. ASSUME Active(e), ~Operate(e), ~StrayEnds(e), ~Sweep(e) PROVE Left(d)
  <2>1. k \in Slugs /\ l \in Slugs /\ l # k
    BY <1>4, OthersApart
  <2>2. CASE \E status : RollBack(e, status)
    <3>1. route'[k] = route[k] /\ UNCHANGED <<row, files, unit, src, built>>
      BY <2>1, <2>2 DEF RollBack, Narrow
    <3>2. src[job[d].from] \in Nat /\ built[job[d].from] \in Nat
      BY <1>0 DEF AppTypes
    <3> QED
      BY <3>1, <3>2 DEF Left
  <2>3. CASE ~\E status : RollBack(e, status)
    <3>1. Validate(e) \/ StartFails(e) \/ Prepare(e) \/ RecordRow(e) \/ Finish(e)
      BY <1>4, <2>3 DEF Cancel, JobStep, OperationFails
    <3>2. /\ UNCHANGED <<src, built, route>>
          /\ UNCHANGED row \/ \E r : row' = [row EXCEPT ![l] = r]
          /\ UNCHANGED files \/ \E tree : files' = [files EXCEPT ![l] = tree]
          /\ UNCHANGED unit \/ \E u : unit' = [unit EXCEPT ![l] = u]
      <4>1. CASE Validate(e)
        BY <2>3, <4>1 DEF Validate, appVars
      <4>2. CASE StartFails(e)
        <5>1. UNCHANGED row \/ row' = [row EXCEPT ![l] = InState(row[l], "starting")]
          BY <4>2 DEF StartFails, SetState
        <5>2. unit' = [unit EXCEPT ![l] = [unit[l] EXCEPT !.on = 0]]
          BY <4>2 DEF StartFails
        <5> QED
          BY <4>2, <5>1, <5>2 DEF StartFails
      <4>3. CASE Prepare(e)
        BY <2>3, <4>3 DEF Prepare
      <4>4. CASE RecordRow(e)
        <5>1. \E r : row' = [row EXCEPT ![l] = r]
          BY <2>3, <4>4 DEF RecordRow
        <5> QED
          BY <2>3, <4>4, <5>1 DEF RecordRow
      <4>5. CASE Finish(e)
        BY <2>3, <4>5 DEF Finish, SetState
      <4> QED
        BY <3>1, <4>1, <4>2, <4>3, <4>4, <4>5
    <3>3. row'[k] = row[k] /\ files'[k] = files[k] /\ unit'[k] = unit[k] /\ route'[k] = route[k]
      BY <2>1, <3>2 DEF Narrow
    <3>4. src[job[d].from] \in Nat /\ built[job[d].from] \in Nat
      BY <1>0 DEF AppTypes
    <3> QED
      BY <3>2, <3>3, <3>4 DEF Left
  <2> QED
    BY <2>2, <2>3
<1> QED
  BY <1>1, <1>2, <1>3, <1>4

\* A request that does not conflict.
LEMMA RequestApart ==
  ASSUME Basis, Narrow, NEW d \in Deploys, InFlight(d), 0 \notin met'[d], job'[d] = job[d],
         RequestStep \/ \E k \in Slugs : AskStart(k) \/ AskStop(k) \/ AskDelete(k)
  PROVE  Left(d)
<1> DEFINE k == job[d].slug
           l == req.slug
<1>0. AppTypes /\ job[d].from \in Sessions /\ k \in Slugs
  BY JobRuns DEF Basis, InFlight, NoJob
<1>a. src[job[d].from] \in Nat /\ built[job[d].from] \in Nat
  BY <1>0 DEF AppTypes
<1>1. Meet /\ UNCHANGED <<src, built>>
  <2>1. CASE ServiceStarts
    BY <2>1 DEF ServiceStarts, StartService
  <2>2. CASE DirectoryMoves \/ DirectoryGoes \/ RowChanges \/ RequestEnds
    BY <2>2 DEF DirectoryMoves, DirectoryGoes, RowChanges, RequestEnds, Regenerate
  <2>3. CASE \E m \in Slugs : AskStart(m) \/ AskStop(m) \/ AskDelete(m)
    BY <2>3 DEF AskStart, AskStop, AskDelete
  <2> QED
    BY <2>1, <2>2, <2>3 DEF RequestStep
<1>2. ~Conflicts(req, d) /\ ~Conflicts(req', d)
  <2>1. Active(d)'
    BY DEF Active, InFlight
  <2> QED
    BY <1>0, <1>1, <2>1, MeetIs
<1>3. /\ req.kind # "none" => req.slug # k /\ req.app.owner = Owner(d)
      /\ req'.kind # "none" => req'.slug # k
  BY <1>2 DEF Conflicts, Owner
<1>4. ASSUME NEW m \in Slugs, AskStart(m) \/ AskStop(m) \/ AskDelete(m) PROVE Left(d)
  <2>1. m # k
    BY <1>3, <1>4 DEF AskStart, AskStop, AskDelete
  <2>2. /\ UNCHANGED <<files, route>>
        /\ UNCHANGED row \/ row' = [row EXCEPT ![m] = InState(row[m], "starting")]
        /\ UNCHANGED unit \/ \E u : unit' = [unit EXCEPT ![m] = u]
    <3>1. CASE AskStart(m)
      BY <3>1 DEF AskStart, SetState
    <3>2. CASE AskStop(m)
      BY <3>2 DEF AskStop
    <3>3. CASE AskDelete(m)
      BY <3>3 DEF AskDelete
    <3> QED
      BY <1>4, <3>1, <3>2, <3>3
  <2> QED
    BY <1>0, <1>a, <1>1, <2>1, <2>2 DEF Left, Narrow
<1>5. CASE RequestStep
  <2>1. req # NoReq
    BY <1>5 DEF RequestStep, ServiceStarts, DirectoryMoves, DirectoryGoes, RowChanges, RequestEnds, NoReq
  <2>2. l \in Slugs /\ l # k /\ req.app.owner = Owner(d)
    BY <1>0, <1>3, <2>1 DEF AppTypes
  <2>3. CASE RequestEnds
    BY <1>0, <1>a, <1>1, <2>2, <2>3 DEF RequestEnds, Regenerate, Left
  <2>4. CASE ~RequestEnds
    <3>1. /\ UNCHANGED route
          /\ UNCHANGED row \/ \E r : row' = [row EXCEPT ![l] = r]
          /\ UNCHANGED files \/ \E tree : files' = [files EXCEPT ![l] = tree]
          /\ UNCHANGED unit \/ \E u : unit' = [unit EXCEPT ![l] = u]
      <4>1. CASE ServiceStarts
        <5>1. UNCHANGED row \/ row' = [row EXCEPT ![l] = InState(row[l], "error")]
          BY <4>1 DEF ServiceStarts, SetState, StartService, appVars
        <5>2. UNCHANGED unit \/ StartService(l)
          BY <4>1 DEF ServiceStarts, appVars
        <5>3. StartService(l) => unit' = [unit EXCEPT ![l] = [unit[l] EXCEPT !.enabled = TRUE, !.on = unit[l].port]]
          BY <2>2 DEF StartService, Narrow
        <5>4. UNCHANGED <<files, route>>
          BY <4>1 DEF ServiceStarts, StartService, appVars
        <5> QED
          BY <5>1, <5>2, <5>3, <5>4
      <4>2. CASE DirectoryMoves
        BY <4>2 DEF DirectoryMoves, Placed, ToLive, ToParked
      <4>3. CASE DirectoryGoes
        BY <4>3 DEF DirectoryGoes
      <4>4. CASE RowChanges
        BY <4>4 DEF RowChanges, SetState
      <4> QED
        BY <1>5, <2>4, <4>1, <4>2, <4>3, <4>4 DEF RequestStep
    <3> QED
      BY <1>0, <1>a, <1>1, <2>2, <3>1 DEF Left, Narrow
  <2> QED
    BY <2>3, <2>4
<1> QED
  BY <1>4, <1>5

\* Nobody else touches what belongs to an undisturbed job.
LEMMA LeftAlone ==
  ASSUME Basis, Narrow, StraysOver, DeployNext, NEW d \in Deploys, InFlight(d), InFlight(d)',
         job'[d] = job[d], Undisturbed(d), 0 \notin met'[d]
  PROVE  Left(d)
<1>0. AppTypes /\ JobsInv /\ ActiveMet /\ job[d] \in Jobs /\ job[d].from \in Sessions /\ Active(d)'
  BY JobRuns DEF Basis, AppTypes, InFlight, NoJob, Active
<1>1. CASE \E s \in Sessions : Edit(s)
  BY <1>0, <1>1 DEF Edit, appVars, Left, AppTypes
<1>2. CASE \E e \in Deploys, s \in Sessions, m \in Slugs, full \in Kinds : Deploy(e, s, m, full)
  BY <1>0, <1>2, NothingLeft DEF Deploy, appVars
<1>3. ASSUME NEW e \in Deploys, Cancel(e) \/ JobStep(e) PROVE Left(d)
  <2>1. CASE d # e
    BY <1>3, <2>1, JobApart
  <2>2. CASE d = e
    <3>1. CASE StrayEnds(d)
      BY <3>1 DEF StrayEnds, StraysOver
    <3>2. CASE ~StrayEnds(d)
      <4>1. JobOnly(d)
        BY <1>0, <1>3, <2>2, <3>2, TaskGoes, RolledBack DEF JobStep, Cancel, Ended
      <4>2. job'[d].at # job[d].at \/ ~InFlight(d)'
        <5>1. CASE job'[d].status \in Ended \cup {"swept"}
          BY <5>1 DEF InFlight, Ended
        <5>2. CASE /\ job'[d].status = "running" /\ job'[d].at \in Operations /\ GoesOn(d)
          <6>1. CASE Validate(d)
            BY <1>0, <5>2, <6>1 DEF Validate, JobsInv, JobInv, InFlight, Operations, GoesOn, Operate, StartFails, Prepare, RecordRow
          <6>2. CASE Operate(d) /\ job'[d].at = After(job[d].at, job[d].full)
            <7>1. job[d].at \in Operations /\ job[d].at # "finish" /\ job[d].full \in BOOLEAN
              BY <1>0, <6>2 DEF Operate, Effect, JobsInv, JobInv, Jobs
            <7> QED
              BY <6>2, <7>1, NextOperation DEF Operations
          <6> QED
            BY <5>2, <6>1, <6>2 DEF GoesOn
        <5> QED
          BY <4>1, <5>1, <5>2 DEF JobOnly
      <4> QED
        BY <4>2
    <3> QED
      BY <3>1, <3>2
  <2> QED
    BY <2>1, <2>2
<1>4. CASE RequestStep \/ \E k \in Slugs : AskStart(k) \/ AskStop(k) \/ AskDelete(k)
  BY <1>4, RequestApart
<1>5. CASE Restart \/ Reap
  BY <1>0, <1>5, MetGrows
<1> QED
  BY <1>1, <1>2, <1>3, <1>4, <1>5 DEF DeployNext

-----------------------------------------------------------------------------
\* What a step does to the rest of a job's record.
Fields(d) ==
  \/ job'[d] = job[d]
  \/ /\ job[d] = NoJob /\ job'[d].status = "pending" /\ job'[d].at = "validate" /\ job'[d].owner = Nobody
     /\ job'[d].asked = src[job'[d].from]
     /\ UNCHANGED <<row, files, parked, route, unit, src, built>>
  \/ job[d] # NoJob /\ ~InFlight(d)' /\ job'[d].at \in {"none", "finish"}
     /\ job'[d].owner = job[d].owner
  \/ /\ InFlight(d) /\ GoesOn(d) /\ job'[d].status = "running"
     /\ job'[d].was = job[d].was /\ job'[d].asked = job[d].asked
     /\ job'[d].owner = IF job[d].at = "row" THEN row'[job[d].slug].owner ELSE job[d].owner
     /\ job'[d].ver = IF job[d].at = "copy" THEN built[job[d].from] ELSE job[d].ver

LEMMA EndFields ==
  ASSUME AppTypes, NEW d \in Deploys, NEW status \in Ended \cup {"swept"},
         job' = [job EXCEPT ![d] = Closed(job[d], status)], job[d] # NoJob
  PROVE  Fields(d)
<1>1. job'[d] = Closed(job[d], status)
  BY DEF AppTypes
<1>2. Closed(job[d], status).status = status /\ Closed(job[d], status).at = "none"
      /\ Closed(job[d], status).owner = job[d].owner
  BY DEF Closed, AppTypes, Jobs
<1> QED
  BY <1>1, <1>2 DEF Fields, InFlight, Ended

LEMMA JobFields ==
  ASSUME Basis, DeployNext, NEW d \in Deploys
  PROVE  Fields(d)
<1>0. AppTypes /\ JobsInv /\ job[d] \in Jobs /\ job \in [Deploys -> Jobs]
  BY DEF Basis, AppTypes
<1>1. CASE UNCHANGED job
  BY <1>1 DEF Fields
<1>2. ASSUME NEW e \in Deploys, NEW s \in Sessions, NEW m \in Slugs, NEW full \in Kinds, Deploy(e, s, m, full)
      PROVE  Fields(d)
  <2> DEFINE new == [NoJob EXCEPT !.status = "pending", !.at = "validate", !.slug = m,
                                  !.from = s, !.full = full, !.was = row[m], !.asked = src[s]]
  <2>1. /\ job' = [job EXCEPT ![e] = new] /\ job[e] = NoJob
        /\ UNCHANGED <<row, files, parked, route, unit, src, built>>
    BY <1>2 DEF Deploy, appVars
  <2>2. /\ new.status = "pending" /\ new.at = "validate" /\ new.owner = Nobody
        /\ new.from = s /\ new.asked = src[s]
    BY DEF NoJob
  <2> HIDE DEF new
  <2> QED
    BY <1>0, <2>1, <2>2 DEF Fields
<1>3. ASSUME NEW e \in Deploys, NEW status \in Ended, RollBack(e, status), job[e] # NoJob PROVE Fields(d)
  <2>1. job' = [job EXCEPT ![e] = Closed(job[e], status)]
    BY <1>3 DEF RollBack
  <2> QED
    BY <1>0, <1>3, <2>1, EndFields DEF Fields
<1>4. ASSUME NEW e \in Deploys, Cancel(e) \/ JobStep(e), ~StrayEnds(e),
             ~\E status \in Ended : RollBack(e, status)
      PROVE  Fields(d)
  <2>1. CASE d # e
    <3>1. job'[d] = job[d]
      <4>1. \E j : job' = [job EXCEPT ![e] = j]
        <5>1. CASE Sweep(e)
          BY <5>1 DEF Sweep
        <5>2. CASE Operate(e)
          <6>1. PICK p : job' = [job EXCEPT ![e].at = After(job[e].at, job[e].full), ![e].port = p,
                             ![e].ver = IF job[e].at = "copy" THEN built[job[e].from] ELSE @]
            BY <5>2 DEF Operate
          <6> QED
            BY <1>0, <6>1
        <5>3. CASE Validate(e) \/ StartFails(e) \/ Prepare(e) \/ RecordRow(e) \/ Finish(e)
          <6>1. \/ job' = [job EXCEPT ![e] = [job[e] EXCEPT !.status = "running", !.at = "eager"]]
                \/ job' = [job EXCEPT ![e] = [job[e] EXCEPT !.at = After(job[e].at, job[e].full)]]
                \/ job' = [job EXCEPT ![e] = [job[e] EXCEPT !.at = "regen", !.owner = row'[job[e].slug].owner]]
                \/ job' = [job EXCEPT ![e] = [job[e] EXCEPT !.status = "succeeded"]]
            <7>1. CASE Validate(e)
              BY <1>0, <1>4, <7>1 DEF Validate, Ended
            <7>2. CASE StartFails(e)
              BY <1>0, <7>2 DEF StartFails, Advance
            <7>3. CASE Prepare(e)
              BY <1>0, <1>4, <7>3 DEF Prepare, Advance, Ended
            <7>4. CASE RecordRow(e)
              BY <1>0, <1>4, <7>4 DEF RecordRow, Ended
            <7>5. CASE Finish(e)
              BY <1>0, <1>4, <7>5 DEF Finish, Ended
            <7> QED
              BY <5>3, <7>1, <7>2, <7>3, <7>4, <7>5
          <6> QED
            BY <6>1
        <5> QED
          BY <1>4, <5>1, <5>2, <5>3 DEF Cancel, JobStep, OperationFails, Ended
      <4> QED
        BY <1>0, <2>1, <4>1
    <3> QED
      BY <3>1 DEF Fields
  <2>2. CASE d = e
    <3>0. JobOnly(d)
      BY <1>0, <1>4, <2>2, TaskGoes, RolledBack DEF JobStep, Cancel, Ended
    <3>1. CASE Sweep(d)
      <4>1. job[d] # NoJob
        BY <3>1 DEF Sweep, Ended, NoJob
      <4> QED
        BY <1>0, <3>1, <4>1, EndFields DEF Sweep
    <3>2. CASE Finish(d)
      <4>1. job' = [job EXCEPT ![d].status = "succeeded"] /\ job[d].status = "running" /\ job[d].at = "finish"
        BY <1>4, <2>2, <3>2 DEF Finish, Ended
      <4>2. job'[d].status = "succeeded" /\ job'[d].at = "finish" /\ job'[d].owner = job[d].owner
        BY <1>0, <4>1 DEF Jobs
      <4> QED
        BY <4>1, <4>2 DEF Fields, InFlight, NoJob
    <3>3. CASE Validate(d)
      <4>1. job' = [job EXCEPT ![d].status = "running", ![d].at = "eager"] /\ job[d].status = "pending"
        BY <1>4, <2>2, <3>3 DEF Validate, Ended
      <4>2. job[d].at = "validate" /\ InFlight(d)
        BY <1>0, <4>1 DEF JobsInv, JobInv, InFlight
      <4>3. /\ job'[d].status = "running" /\ job'[d].at = "eager" /\ job'[d].owner = job[d].owner
            /\ job'[d].was = job[d].was /\ job'[d].asked = job[d].asked /\ job'[d].ver = job[d].ver
        BY <1>0, <4>1 DEF Jobs
      <4> QED
        BY <3>3, <4>2, <4>3 DEF Fields, GoesOn
    <3>4. CASE Operate(d)
      <4>1. PICK p : job' = [job EXCEPT ![d].at = After(job[d].at, job[d].full), ![d].port = p,
                             ![d].ver = IF job[d].at = "copy" THEN built[job[d].from] ELSE @]
        BY <3>4 DEF Operate
      <4>2. /\ job'[d].status = job[d].status /\ job'[d].owner = job[d].owner
            /\ job'[d].was = job[d].was /\ job'[d].asked = job[d].asked
            /\ job'[d].ver = IF job[d].at = "copy" THEN built[job[d].from] ELSE job[d].ver
        BY <1>0, <4>1 DEF Jobs
      <4>3. job[d].status = "running" /\ job[d].at # "row"
        BY <3>4 DEF Operate, Effect
      <4>4. GoesOn(d)
        BY <3>0, <4>2, <4>3 DEF JobOnly, Ended
      <4> QED
        BY <4>2, <4>3, <4>4 DEF Fields, InFlight
    <3>5. CASE StartFails(d) \/ Prepare(d)
      <4>1. job' = [job EXCEPT ![d].at = After(job[d].at, job[d].full)] /\ job[d].at \notin {"row", "copy"}
        BY <1>4, <2>2, <3>5 DEF StartFails, Prepare, Advance, Ended
      <4>2. /\ job'[d].status = job[d].status /\ job'[d].owner = job[d].owner
            /\ job'[d].was = job[d].was /\ job'[d].asked = job[d].asked /\ job'[d].ver = job[d].ver
        BY <1>0, <4>1 DEF Jobs
      <4>3. job[d].status = "running"
        BY <3>5 DEF StartFails, Prepare
      <4>4. GoesOn(d)
        BY <3>0, <4>2, <4>3 DEF JobOnly, Ended
      <4> QED
        BY <4>1, <4>2, <4>3, <4>4 DEF Fields, InFlight
    <3>6. CASE RecordRow(d)
      <4>1. /\ job' = [job EXCEPT ![d].at = "regen", ![d].owner = row'[job[d].slug].owner]
            /\ job[d].at = "row" /\ job[d].status = "running"
        BY <1>4, <2>2, <3>6 DEF RecordRow, Ended
      <4>2. /\ job'[d].status = job[d].status /\ job'[d].owner = row'[job[d].slug].owner
            /\ job'[d].was = job[d].was /\ job'[d].asked = job[d].asked /\ job'[d].ver = job[d].ver
        BY <1>0, <4>1 DEF Jobs
      <4>3. GoesOn(d)
        BY <3>0, <4>1, <4>2 DEF JobOnly, Ended
      <4> QED
        BY <4>1, <4>2, <4>3 DEF Fields, InFlight
    <3> QED
      BY <1>4, <2>2, <3>1, <3>2, <3>3, <3>4, <3>5, <3>6 DEF JobStep, Cancel, OperationFails, Ended
  <2> QED
    BY <2>1, <2>2
<1>5. ASSUME NEW e \in Deploys, Cancel(e) \/ JobStep(e) PROVE Fields(d)
  <2>1. CASE StrayEnds(e)
    BY <1>1, <2>1 DEF StrayEnds
  <2>2. CASE \E status \in Ended : RollBack(e, status)
    <3>1. CASE job[e] # NoJob
      BY <1>3, <2>2, <3>1
    <3>2. CASE job[e] = NoJob /\ ~StrayEnds(e)
      BY <1>5, <3>2 DEF Cancel, JobStep, Validate, Operate, OperationFails, StartFails, Prepare,
         RecordRow, Finish, Sweep, NoJob, Ended
    <3> QED
      BY <2>1, <3>1, <3>2
  <2> QED
    BY <1>4, <1>5, <2>1, <2>2
<1>6. CASE Restart
  <2>1. job'[d] = IF job[d] = NoJob THEN NoJob ELSE Closed(job[d], "swept")
    BY <1>6 DEF Restart
  <2>2. CASE job[d] # NoJob
    <3>1. Closed(job[d], "swept").status = "swept" /\ Closed(job[d], "swept").at = "none"
          /\ Closed(job[d], "swept").owner = job[d].owner
      BY <1>0 DEF Closed, Jobs
    <3> QED
      BY <2>1, <2>2, <3>1 DEF Fields, InFlight
  <2> QED
    BY <2>1, <2>2 DEF Fields
<1>7. CASE (\E s \in Sessions : Edit(s)) \/ RequestStep \/ Reap
           \/ \E m \in Slugs : AskStart(m) \/ AskStop(m) \/ AskDelete(m)
  BY <1>1, <1>7 DEF Edit, RequestStep, ServiceStarts, DirectoryMoves, DirectoryGoes, RowChanges,
     RequestEnds, Reap, AskStart, AskStop, AskDelete, jobVars
<1> QED
  BY <1>2, <1>5, <1>6, <1>7 DEF DeployNext

-----------------------------------------------------------------------------
\* The parts of the invariant about all jobs.
LEMMA OwnersLateStay ==
  ASSUME Basis, OwnersLate, DeployNext
  PROVE  OwnersLate'
<1>1. ASSUME NEW d \in Deploys, job'[d].at \in PreRow PROVE job'[d].owner = Nobody
  <2>1. Fields(d) /\ Turn(d)
    BY JobFields, JobsChange DEF Basis
  <2>2. CASE InFlight(d) /\ GoesOn(d)
    <3>0. job[d].full \in BOOLEAN /\ job[d].at \in Operations \cup {"validate"}
      BY <2>2 DEF Basis, AppTypes, Jobs, JobsInv, JobInv, InFlight
    <3>1. job[d].at \in PreRow \ {"row"}
      <4>1. job[d].at \notin {"row", "regen", "start", "finish"}
        <5>1. CASE job[d].at \in {"row", "regen", "start", "finish"} /\ Operate(d)
                   /\ job'[d].at = After(job[d].at, job[d].full)
          <6>1. job[d].at \notin {"row", "finish"}
            BY <5>1 DEF Operate, Effect
          <6> QED
            BY <1>1, <3>0, <5>1, <6>1, NextOperation DEF PreRow
        <5>2. CASE Validate(d)
          BY <5>2 DEF Validate, Basis, JobsInv, JobInv
        <5> QED
          BY <1>1, <2>2, <5>1, <5>2 DEF GoesOn, PreRow
      <4> QED
        BY <3>0, <4>1 DEF Operations, PreRow
    <3> QED
      BY <1>1, <2>1, <2>2, <3>1 DEF Fields, OwnersLate, InFlight, NoJob, PreRow
  <2> QED
    BY <1>1, <2>1, <2>2 DEF Fields, OwnersLate, PreRow
<1> QED
  BY <1>1 DEF OwnersLate

LEMMA StraysOverStay ==
  ASSUME Basis, StraysOver, DeployNext
  PROVE  StraysOver'
<1>1. ASSUME NEW d \in Deploys, stray'[d] # "none", InFlight(d)' PROVE FALSE
  <2>1. Turn(d)
    BY JobsChange DEF Basis
  <2> QED
    BY <1>1, <2>1 DEF Turn, StraysOver, InFlight, Ended
<1> QED
  BY <1>1 DEF StraysOver

LEMMA MetKnownStays ==
  ASSUME Basis, MetKnown, DeployNext
  PROVE  MetKnown'
<1>0. Basis' /\ AppTypes /\ JobsInv
  BY BasisStays DEF Basis
<1>1. ASSUME NEW d \in Deploys, NEW e \in met'[d], e # 0 PROVE job'[e] # NoJob
  <2>1. e \in met[d] \/ (e \in Deploys /\ Active(e)')
    <3>1. Meet \/ UNCHANGED met \/ Reap
      BY DEF DeployNext, Edit, Deploy, Cancel, JobStep, Validate, Operate, StrayEnds, OperationFails,
         StartFails, Prepare, RecordRow, Finish, Sweep, AskStart, AskStop, AskDelete, RequestStep,
         ServiceStarts, DirectoryMoves, DirectoryGoes, RowChanges, RequestEnds, Restart
    <3>2. CASE Meet
      BY <1>1, <3>2 DEF Meet, Active, InFlight
    <3>3. CASE Reap
      BY <1>1, <3>3 DEF Reap
    <3> QED
      BY <1>1, <3>1, <3>2, <3>3
  <2>2. CASE e \in met[d]
    <3>1. e \in Deploys /\ job[e] # NoJob
      BY <1>0, <1>1, <2>2 DEF MetKnown, AppTypes
    <3> QED
      BY <1>0, <3>1, JobsChange, Starts DEF Same
  <2>3. CASE e \in Deploys /\ Active(e)'
    <3>1. InFlight(e)' => job'[e] # NoJob
      BY DEF InFlight, NoJob
    <3>2. stray'[e] # "none" => job'[e] # NoJob
      BY <1>0, <2>3 DEF Basis, JobsInv, JobInv
    <3> QED
      BY <2>3, <3>1, <3>2 DEF Active
  <2> QED
    BY <2>1, <2>2, <2>3
<1> QED
  BY <1>1 DEF MetKnown

\* What disturbs a job disturbs it for good.
LEMMA UndisturbedBefore ==
  ASSUME Basis, MetKnown, OwnersLate, DeployNext, NEW d \in Deploys, job[d] # NoJob, Undisturbed(d)'
  PROVE  Undisturbed(d) /\ 0 \notin met'[d]
<1>0. AppTypes /\ JobsInv /\ ActiveMet
  BY DEF Basis
<1>1. met[d] \subseteq met'[d] /\ met[d] \subseteq Deploys \cup {0} /\ 0 \notin met'[d]
  BY <1>0, MetGrows DEF Meets, AppTypes, Undisturbed
<1>2. Same(d)
  BY <1>0, JobsChange, Starts
<1>3. ASSUME NEW e \in met[d]
      PROVE  /\ job[e].slug # job[d].slug /\ OwnerOf[job[e].from] = OwnerOf[job[d].from]
             /\ job[e].owner \in {Nobody, OwnerOf[job[d].from]}
  <2>1. e \in Deploys /\ job[e] # NoJob /\ e \in met'[d]
    BY <1>1 DEF MetKnown
  <2>2. Same(e) /\ Fields(e)
    BY <1>0, <2>1, JobsChange, Starts, JobFields
  <2>3. /\ job'[e].slug # job'[d].slug /\ OwnerOf[job'[e].from] = OwnerOf[job'[d].from]
        /\ job'[e].owner \in {Nobody, OwnerOf[job'[d].from]}
    BY <2>1 DEF Undisturbed
  <2>4. job[e].owner = Nobody \/ job[e].owner = job'[e].owner
    BY <2>1, <2>2 DEF Fields, OwnersLate, PreRow
  <2> QED
    BY <1>2, <2>2, <2>3, <2>4 DEF Same
<1> QED
  BY <1>1, <1>3 DEF Undisturbed

-----------------------------------------------------------------------------
\* What an undisturbed job has left stays while others take their steps.
LEMMA SoleBeside ==
  ASSUME Basis, Narrow, StraysOver, DeployNext, NEW d \in Deploys, InFlight(d), job'[d] = job[d],
         Undisturbed(d), 0 \notin met'[d], SoleAll(d)
  PROVE  SoleAll(d)'
<1> DEFINE k == job[d].slug
           s == job[d].from
<1>0. AppTypes /\ JobsInv /\ job[d] # NoJob /\ k \in Slugs /\ s \in Sessions /\ InFlight(d)'
  BY JobRuns DEF Basis, InFlight, NoJob
<1>1. Left(d)
  BY <1>0, LeftAlone
<1>2. src[s] \in Nat /\ built[s] \in Nat /\ src'[s] \in Nat /\ built'[s] \in Nat /\ job[d].asked \in Nat
  BY <1>0, BuildsChange DEF AppTypes, Jobs
<1>3. SoleKind(d)' /\ SoleRow(d)' /\ SoleUnit(d)' /\ SoleFiles(d)'
  BY <1>1 DEF SoleAll, SoleKind, SoleRow, SoleUnit, SoleFiles, Left, Owner
<1>4. SoleBuild(d)'
  BY <1>1, <1>2 DEF SoleAll, SoleBuild, Left
<1>5. SoleRoute(d)'
  <2>1. ASSUME job[d].at \in {"start", "finish"}, row[k].state = "running" PROVE route'[k] = RouteOf(row[k])
    <3>1. CASE route'[k] = route[k]
      BY <2>1, <3>1 DEF SoleAll, SoleRoute
    <3>2. ASSUME NEW o \in {Nobody, Owner(d)}, route'[k] = Regenerated(o, row)[k]
          PROVE  route'[k] = RouteOf(row[k])
      <4>1. row[k].owner = Owner(d)
        BY <2>1 DEF SoleAll, SoleRow, Recorded
      <4> QED
        BY <1>0, <2>1, <3>2, <4>1 DEF Regenerated
    <3> QED
      BY <1>1, <3>1, <3>2 DEF Left
  <2> QED
    BY <1>1, <2>1 DEF SoleRoute, Left, RouteOf
<1> QED
  BY <1>3, <1>4, <1>5 DEF SoleAll

\* A job that has just been posted.
LEMMA SolePosted ==
  ASSUME Basis, Narrow, DeployNext, NEW d \in Deploys, New(d), Fields(d), job'[d] # job[d], InFlight(d)'
  PROVE  SoleAll(d)'
<1>1. /\ job'[d].at = "validate" /\ job'[d].asked = src[job'[d].from]
      /\ UNCHANGED <<row, src>> /\ job'[d].from \in Sessions
  BY DEF New, Fields, InFlight, NoJob
<1>2. src[job'[d].from] \in Nat
  BY <1>1 DEF Basis, AppTypes
<1>3. row[job'[d].slug] = job'[d].was /\ MayUse(job'[d].from, job'[d].slug)
  BY DEF New
<1>4. SoleRow(d)'
  BY <1>1, <1>3 DEF SoleRow, MayUse, Has, Owner, Recorded
<1>5. SoleBuild(d)'
  BY <1>1, <1>2 DEF SoleBuild, Copied, Backed, Supplied, Ported, Equipped, Enabled, Recorded
<1>6. SoleKind(d)' /\ SoleUnit(d)' /\ SoleFiles(d)' /\ SoleRoute(d)'
  BY <1>1 DEF SoleKind, FullOnly, SoleUnit, SoleFiles, SoleRoute, Copied, Backed, Supplied, Ported, Equipped,
     Enabled, Recorded
<1> QED
  BY <1>4, <1>5, <1>6 DEF SoleAll

\* One operation of an undisturbed job, with what it adds.
LEMMA SoleOperates ==
  ASSUME Basis, Narrow, BuiltInv, NEW d \in Deploys, Operate(d), Fields(d), Turn(d),
         job'[d].at = After(job[d].at, job[d].full), InFlight(d)', Plain(d), SoleAll(d)
  PROVE  SoleAll(d)'
<1> DEFINE k == job[d].slug
           s == job[d].from
           full == job[d].full
           at == job[d].at
           then == job'[d].at
<1>0. AppTypes /\ JobsInv /\ job[d] # NoJob /\ k \in Slugs /\ s \in Sessions /\ full \in BOOLEAN
      /\ at \in Operations \ {"prepare", "row", "finish"} /\ d \in Nat
  <2>1. job[d].status = "running" /\ Effect(at, d)
    BY DEF Operate
  <2>2. job[d] # NoJob /\ at \in Operations
    BY <2>1 DEF NoJob, Basis, JobsInv, JobInv
  <2>3. at \notin {"prepare", "row", "finish"}
    BY <2>1 DEF Effect
  <2>4. k \in Slugs /\ s \in Sessions
    BY <2>2, JobRuns DEF Basis
  <2>5. full \in BOOLEAN /\ d \in Nat
    BY DEF Basis, AppTypes, Jobs, Deploys
  <2> QED
    BY <2>2, <2>3, <2>4, <2>5 DEF Basis
<1>1. /\ job'[d].slug = k /\ job'[d].from = s /\ job'[d].full = full
      /\ job'[d].was = job[d].was /\ job'[d].asked = job[d].asked /\ job'[d].owner = job[d].owner
      /\ job'[d].ver = IF at = "copy" THEN built[s] ELSE job[d].ver
  <2>1. Same(d) /\ job'[d] # job[d]
    <3>1. Same(d)
      BY <1>0, Starts
    <3>2. then # at
      BY <1>0, NextOperation DEF Operations
    <3> QED
      BY <3>1, <3>2
  <2> QED
    BY <1>0, <2>1 DEF Fields, Same
<1>2. /\ then = CASE at = "eager" -> "prepare" [] at = "rebuild" -> "copy" [] at = "copy" -> "pwa"
                  [] at = "pwa" -> IF full THEN "backend" ELSE "row"
                  [] at = "backend" -> "deps" [] at = "deps" -> "port" [] at = "port" -> "unit"
                  [] at = "unit" -> "enable" [] at = "enable" -> "row"
                  [] at = "regen" -> IF full THEN "start" ELSE "finish"
                  [] at = "start" -> "finish"
      /\ at \in FullOnly => full
  <2>1. at \in FullOnly => full
    BY DEF SoleAll, SoleKind
  <2> QED
    BY <1>0, <2>1, NextOperation DEF Operations, FullOnly
<1>3. /\ Effect(at, d) /\ UNCHANGED <<src, row>>
      /\ job'[d].port = job[d].port \/ (at = "port" /\ job'[d].port \in PortOf(d))
  <2>1. Effect(at, d) /\ UNCHANGED src
    BY DEF Operate
  <2>2. UNCHANGED row
    BY <2>1 DEF Effect, WritePlaceholder, Rebuild, CopyDist, InjectPwa, CopyBackend, InstallDeps,
       WriteUnit, EnableService, Regenerate, StartService, appVars
  <2>3. job'[d].port = job[d].port \/ (at = "port" /\ job'[d].port \in PortOf(d))
    <3>1. PICK p \in IF at = "port" THEN PortOf(d) ELSE {job[d].port} :
             job' = [job EXCEPT ![d].at = After(at, job[d].full), ![d].port = p,
                                ![d].ver = IF at = "copy" THEN built[job[d].from] ELSE @]
      BY DEF Operate
    <3>2. job'[d].port = p
      BY <1>0, <3>1 DEF AppTypes, Jobs
    <3> QED
      BY <3>1, <3>2
  <2> QED
    BY <2>1, <2>2, <2>3
<1>4. src[s] \in Nat /\ built[s] \in Nat /\ built[s] # 0 /\ job[d].asked \in Nat /\ job[d].ver \in Nat
      /\ src[s] >= job[d].asked
  BY <1>0 DEF AppTypes, Jobs, BuiltInv, SoleAll, SoleBuild
<1>5. SoleKind(d)'
  BY <1>0, <1>1, <1>2 DEF SoleKind, FullOnly, Operations
<1>6. SoleRow(d)'
  <2>1. at \in PreRow => row[k] = job[d].was /\ (row[k] # NoRow => row[k].owner = Owner(d))
    BY DEF SoleAll, SoleRow
  <2>2. CASE at \in PreRow
    <3>1. then \in PreRow /\ then \notin Recorded
      BY <1>0, <1>2, <2>2 DEF PreRow, Operations, Recorded
    <3> QED
      BY <1>1, <1>3, <2>1, <2>2, <3>1 DEF SoleRow, Owner
  <2>3. CASE at \in {"regen", "start"}
    <3>1. then \in {"start", "finish"} /\ then \notin PreRow
      BY <1>2, <2>3 DEF PreRow
    <3>2. /\ row[k].by = d /\ row[k].owner = Owner(d) /\ job[d].owner = Owner(d)
          /\ row[k].port = IF full THEN job[d].port ELSE 0
          /\ row[k].state = "running"
      BY <2>3 DEF SoleAll, SoleRow, Recorded
    <3> QED
      BY <1>1, <1>3, <2>3, <3>1, <3>2 DEF SoleRow, Owner
  <2> QED
    BY <1>0, <2>2, <2>3 DEF Operations, PreRow
<1>7. SoleUnit(d)'
  <2> SUFFICES ASSUME full
               PROVE  /\ then \in Ported => job'[d].port # 0
                      /\ then \in Equipped => unit'[k].port = job'[d].port
                      /\ then \in Enabled => unit'[k].enabled
    BY <1>1 DEF SoleUnit
  <2>1. CASE at \in {"eager", "rebuild", "copy", "pwa", "backend", "deps"}
    BY <1>2, <2>1 DEF Ported, Equipped, Enabled, Recorded
  <2>2. CASE at = "port"
    <3>1. job'[d].port \in PortOf(d) \/ job'[d].port = job[d].port
      BY <1>3
    <3>2. then = "unit"
      BY <1>2, <2>2
    <3>3. job'[d].port \in PortOf(d)
      <4>1. PICK p \in PortOf(d) :
              job' = [job EXCEPT ![d].at = After(at, job[d].full), ![d].port = p,
                                 ![d].ver = IF at = "copy" THEN built[job[d].from] ELSE @]
        BY <2>2 DEF Operate
      <4>2. job'[d].port = p
        BY <1>0, <4>1 DEF AppTypes, Jobs
      <4> QED
        BY <4>1, <4>2
    <3>4. job'[d].port # 0
      BY <1>0, <3>3, DeployAssumption DEF PortOf, FreePorts, Ports
    <3> QED
      BY <3>2, <3>4 DEF Ported, Equipped, Enabled, Recorded
  <2>3. CASE at = "unit"
    <3>1. unit' = [unit EXCEPT ![k] = [unit[k] EXCEPT !.port = job[d].port, !.by = d]]
      BY <1>3, <2>3 DEF Effect, WriteUnit
    <3>2. unit[k] \in Unit /\ unit \in [Slugs -> Unit]
      BY <1>0 DEF Narrow
    <3>3. unit'[k].port = job[d].port
      BY <1>0, <3>1, <3>2 DEF Unit
    <3>4. then = "enable" /\ job'[d].port = job[d].port /\ job[d].port # 0
      BY <1>2, <1>3, <2>3 DEF SoleAll, SoleUnit, Ported
    <3> QED
      BY <3>3, <3>4 DEF Ported, Equipped, Enabled, Recorded
  <2>4. CASE at \in {"enable", "start"}
    <3>1. \/ unit' = [unit EXCEPT ![k] = [unit[k] EXCEPT !.enabled = TRUE]]
          \/ unit' = [unit EXCEPT ![k] = [unit[k] EXCEPT !.enabled = TRUE, !.on = unit[k].port]]
      <4>1. EnableService(k) => unit' = [unit EXCEPT ![k] = [unit[k] EXCEPT !.enabled = TRUE]]
        BY <1>0 DEF EnableService, Narrow
      <4>2. StartService(k) => unit' = [unit EXCEPT ![k] = [unit[k] EXCEPT !.enabled = TRUE, !.on = unit[k].port]]
        BY <1>0 DEF StartService, Narrow
      <4> QED
        BY <1>3, <2>4, <4>1, <4>2 DEF Effect
    <3>2. unit[k] \in Unit /\ unit \in [Slugs -> Unit]
      BY <1>0 DEF Narrow
    <3>3. unit'[k].port = unit[k].port /\ unit'[k].enabled
      BY <1>0, <3>1, <3>2 DEF Unit
    <3>4. job'[d].port = job[d].port /\ job[d].port # 0 /\ unit[k].port = job[d].port
      BY <1>3, <2>4 DEF SoleAll, SoleUnit, Ported, Equipped, Enabled, Recorded
    <3> QED
      BY <3>3, <3>4
  <2>5. CASE at = "regen"
    <3>1. UNCHANGED unit /\ job'[d].port = job[d].port
      BY <1>3, <2>5 DEF Effect, Regenerate
    <3> QED
      BY <2>5, <3>1 DEF SoleAll, SoleUnit, Ported, Equipped, Enabled, Recorded
  <2> QED
    BY <1>0, <2>1, <2>2, <2>3, <2>4, <2>5 DEF Operations
<1>8. SoleFiles(d)'
  <2> SUFFICES /\ then \in Copied => files'[k][IF full THEN "static" ELSE "root"] = d
               /\ full => /\ then \in Backed => files'[k]["backend"] = d
                          /\ then \in Supplied => files'[k]["deps"] = d
    BY <1>1 DEF SoleFiles
  <2>0. files[k] \in [Parts -> 0 .. NumDeploys] /\ files \in [Slugs -> Tree]
    BY <1>0 DEF Narrow, Tree
  <2>1. CASE at \in {"eager", "rebuild"}
    BY <1>2, <2>1 DEF Copied, Backed, Supplied, Ported, Equipped, Enabled, Recorded
  <2>2. CASE at = "copy"
    <3>1. files' = [files EXCEPT ![k] = IF full THEN [files[k] EXCEPT !["dir"] = d, !["static"] = d, !["pwa"] = 0]
                                        ELSE [Empty EXCEPT !["dir"] = d, !["root"] = d]]
      BY <1>0, <1>3, <2>2 DEF Effect, CopyDist, Narrow
    <3>2. files'[k][IF full THEN "static" ELSE "root"] = d
      BY <1>0, <2>0, <3>1 DEF Tree, Parts, Empty
    <3>3. then = "pwa"
      BY <1>2, <2>2
    <3> QED
      BY <3>2, <3>3 DEF Copied, Backed, Supplied, Ported, Equipped, Enabled, Recorded
  <2>3. CASE at = "pwa"
    <3>1. files'[k] = files[k] \/ files'[k] = [files[k] EXCEPT !["pwa"] = d]
      BY <1>0, <1>3, <2>3 DEF Effect, InjectPwa, Narrow
    <3>2. \A p \in Parts \ {"pwa"} : files'[k][p] = files[k][p]
      BY <2>0, <3>1
    <3>3. files[k][IF full THEN "static" ELSE "root"] = d
      BY <2>3 DEF SoleAll, SoleFiles, Copied
    <3>4. files'[k][IF full THEN "static" ELSE "root"] = d
      BY <1>0, <3>2, <3>3 DEF Parts
    <3>5. full => then = "backend"
      BY <1>2, <2>3
    <3> QED
      BY <3>4, <3>5 DEF Backed, Supplied, Ported, Equipped, Enabled, Recorded
  <2>4. CASE at = "backend"
    <3>1. files'[k] = [files[k] EXCEPT !["dir"] = d, !["backend"] = d, !["deps"] = 0]
      BY <1>0, <1>3, <1>4, <2>4 DEF Effect, CopyBackend, Narrow
    <3>2. files'[k]["backend"] = d /\ files'[k]["static"] = files[k]["static"]
      BY <2>0, <3>1 DEF Parts
    <3>3. full /\ then = "deps"
      BY <1>2, <2>4 DEF FullOnly
    <3> QED
      BY <2>4, <3>2, <3>3 DEF SoleAll, SoleFiles, Copied, Backed, Supplied, Ported, Equipped, Enabled, Recorded
  <2>5. CASE at = "deps"
    <3>1. files'[k] = [files[k] EXCEPT !["dir"] = d, !["deps"] = d]
      BY <1>0, <1>3, <2>5 DEF Effect, InstallDeps, Narrow
    <3>2. files'[k]["deps"] = d /\ files'[k]["static"] = files[k]["static"] /\ files'[k]["backend"] = files[k]["backend"]
      BY <2>0, <3>1 DEF Parts
    <3>3. full /\ then = "port"
      BY <1>2, <2>5 DEF FullOnly
    <3> QED
      BY <2>5, <3>2, <3>3 DEF SoleAll, SoleFiles, Copied, Backed
  <2>6. CASE at \in {"port", "unit", "enable", "regen", "start"}
    <3>1. UNCHANGED files
      BY <1>3, <2>6 DEF Effect, WriteUnit, EnableService, Regenerate, StartService, appVars
    <3> QED
      BY <2>6, <3>1 DEF SoleAll, SoleFiles, Copied, Backed, Supplied, Ported, Equipped, Enabled, Recorded
  <2> QED
    BY <1>0, <2>1, <2>2, <2>3, <2>4, <2>5, <2>6 DEF Operations
<1>9. SoleBuild(d)'
  <2>1. CASE at = "rebuild"
    <3>1. built'[s] = IF src[s] > built[s] THEN src[s] ELSE built[s]
      BY <1>0, <1>3, <2>1 DEF Effect, Rebuild, AppTypes
    <3>2. then = "copy" /\ then \notin Copied
      BY <1>2, <2>1 DEF Copied, Backed, Supplied, Ported, Equipped, Enabled, Recorded
    <3> QED
      BY <1>1, <1>3, <1>4, <3>1, <3>2 DEF SoleBuild
  <2>2. CASE at # "rebuild"
    <3>1. UNCHANGED built
      BY <1>3, <2>2 DEF Effect, WritePlaceholder, CopyDist, InjectPwa, CopyBackend, InstallDeps, WriteUnit,
         EnableService, Regenerate, StartService
    <3>2. then # "copy" /\ (then \in Copied => at = "copy" \/ at \in Copied)
      BY <1>0, <1>2, <2>2 DEF Operations, Copied, Backed, Supplied, Ported, Equipped, Enabled, Recorded
    <3>3. (at = "copy" => built[s] >= job[d].asked) /\ (at \in Copied => job[d].ver >= job[d].asked)
      BY DEF SoleAll, SoleBuild
    <3>4. "copy" \notin Copied
      BY DEF Copied, Backed, Supplied, Ported, Equipped, Enabled, Recorded
    <3> QED
      BY <1>1, <1>3, <1>4, <3>1, <3>2, <3>3, <3>4 DEF SoleBuild
  <2> QED
    BY <2>1, <2>2
<1>10. SoleRoute(d)'
  <2> SUFFICES ASSUME then \in {"start", "finish"}, row[k].state = "running"
               PROVE  route'[k] = RouteOf(row[k])
    BY <1>1, <1>3 DEF SoleRoute, RouteOf
  <2>1. CASE at = "regen"
    <3>1. job[d].owner = Owner(d) /\ row[k].owner = Owner(d)
      BY <2>1 DEF SoleAll, SoleRow, Recorded
    <3>2. route' = Regenerated(job[d].owner, row)
      BY <1>3, <2>1 DEF Effect, Regenerate
    <3> QED
      BY <1>0, <3>1, <3>2 DEF Regenerated
  <2>2. CASE at = "start"
    <3>1. UNCHANGED route
      BY <1>3, <2>2 DEF Effect, StartService
    <3> QED
      BY <2>2, <3>1 DEF SoleAll, SoleRoute
  <2> QED
    BY <1>0, <1>2, <2>1, <2>2 DEF Operations
<1> QED
  BY <1>5, <1>6, <1>7, <1>8, <1>9, <1>10 DEF SoleAll

\* What the task itself does between the operations of an undisturbed job.
LEMMA SoleStarts ==
  ASSUME Basis, NEW d \in Deploys, Validate(d), Same(d), job'[d].at = "eager", InFlight(d)',
         job'[d].asked = job[d].asked, SoleAll(d)
  PROVE  SoleAll(d)'
<1> DEFINE k == job[d].slug
<1>1. job[d].at = "validate" /\ job[d].status = "pending"
  BY DEF Validate, Basis, JobsInv, JobInv
<1>2. UNCHANGED <<row, src>>
  BY DEF Validate, RollBack, appVars
<1>3. row[k] = job[d].was /\ (row[k] # NoRow => row[k].owner = Owner(d))
  BY <1>1 DEF SoleAll, SoleRow, PreRow
<1>4. job'[d].was = job[d].was
  <2>1. job' = [job EXCEPT ![d].status = "running", ![d].at = "eager"]
    <3>1. ~RollBack(d, "failed")
      <4>1. Closed(job[d], "failed").at = "none"
        BY DEF Closed, Basis, AppTypes, Jobs
      <4> QED
        BY <4>1 DEF RollBack, Basis, AppTypes
    <3> QED
      BY <3>1 DEF Validate
  <2> QED
    BY <2>1 DEF Basis, AppTypes, Jobs
<1>5. SoleRow(d)'
  BY <1>2, <1>3, <1>4 DEF SoleRow, Same, Owner, Recorded
<1>6. SoleBuild(d)'
  BY <1>2 DEF SoleAll, SoleBuild, Same, Copied, Backed, Supplied, Ported, Equipped, Enabled, Recorded
<1>7. SoleKind(d)' /\ SoleUnit(d)' /\ SoleFiles(d)' /\ SoleRoute(d)'
  BY DEF SoleKind, FullOnly, SoleUnit, SoleFiles, SoleRoute, Copied, Backed, Supplied, Ported, Equipped,
     Enabled, Recorded
<1> QED
  BY <1>5, <1>6, <1>7 DEF SoleAll

LEMMA SolePrepares ==
  ASSUME NEW d \in Deploys, Prepare(d), Same(d), job'[d].at = "rebuild", job'[d].was = job[d].was,
         job'[d].asked = job[d].asked, SoleAll(d)
  PROVE  SoleAll(d)'
<1> DEFINE k == job[d].slug
<1>1. job[d].at = "prepare" /\ UNCHANGED <<row, src>>
  BY DEF Prepare, RollBack
<1>2. row[k] = job[d].was /\ (row[k] # NoRow => row[k].owner = Owner(d))
  BY <1>1 DEF SoleAll, SoleRow, PreRow
<1>3. SoleRow(d)'
  BY <1>1, <1>2 DEF SoleRow, Same, Owner, Recorded
<1>4. SoleBuild(d)'
  BY <1>1 DEF SoleAll, SoleBuild, Same, Copied, Backed, Supplied, Ported, Equipped, Enabled, Recorded
<1>5. SoleKind(d)' /\ SoleUnit(d)' /\ SoleFiles(d)' /\ SoleRoute(d)'
  BY DEF SoleKind, FullOnly, SoleUnit, SoleFiles, SoleRoute, Copied, Backed, Supplied, Ported, Equipped,
     Enabled, Recorded
<1> QED
  BY <1>3, <1>4, <1>5 DEF SoleAll

\* The row is made, or taken over as it is.
LEMMA SoleRecords ==
  ASSUME Basis, Narrow, NEW d \in Deploys, RecordRow(d), Same(d), job'[d].at = "regen",
         job'[d].port = job[d].port, job'[d].owner = row'[job[d].slug].owner,
         job'[d].asked = job[d].asked, job'[d].ver = job[d].ver, Plain(d), SoleAll(d)
  PROVE  SoleAll(d)'
<1> DEFINE k == job[d].slug
           full == job[d].full
           port == IF full THEN job[d].port ELSE 0
           new == [owner |-> OwnerOf[job[d].from], from |-> job[d].from, state |-> "running",
                   port |-> port, by |-> d]
<1>0. job[d] # NoJob /\ k \in Slugs /\ job[d].at = "row" /\ full \in BOOLEAN /\ d \in Nat
  <2>1. job[d] # NoJob /\ job[d].at = "row"
    BY DEF RecordRow, NoJob
  <2> QED
    BY <2>1, JobRuns DEF Basis, AppTypes, Jobs, Deploys
<1>1. row[k] = job[d].was /\ (row[k] # NoRow => row[k].owner = Owner(d))
  BY <1>0 DEF SoleAll, SoleRow, PreRow
<1>2. /\ UNCHANGED <<files, unit, src, built>>
      /\ row' = [row EXCEPT ![k] = IF job[d].was = NoRow THEN new
                                   ELSE IF row[k] = NoRow THEN row[k]
                                   ELSE [row[k] EXCEPT !.port = IF full THEN port ELSE row[k].port, !.by = d]]
  <2>1. ~RollBack(d, "failed")
    <3>1. Closed(job[d], "failed").at = "none"
      BY DEF Closed, Basis, AppTypes, Jobs
    <3> QED
      BY <3>1 DEF RollBack, Basis, AppTypes
  <2> QED
    BY <2>1 DEF RecordRow
<1>3. /\ row'[k].by = d /\ row'[k].owner = Owner(d) /\ row'[k].state = "running"
      /\ row'[k].port = IF full THEN job[d].port ELSE 0
  <2>0. row \in [Slugs -> AppRow \cup {NoRow}]
    BY DEF Narrow
  <2>1. CASE job[d].was = NoRow
    <3>1. row'[k] = new
      BY <1>0, <1>2, <2>0, <2>1
    <3> QED
      BY <3>1 DEF Owner
  <2>2. CASE job[d].was # NoRow
    <3>1. row'[k] = [row[k] EXCEPT !.port = IF full THEN port ELSE row[k].port, !.by = d]
      BY <1>0, <1>1, <1>2, <2>0, <2>2
    <3>2. row[k] \in AppRow /\ row[k].state = "running" /\ (full <=> row[k].port # 0)
      BY <1>0, <1>1, <2>0, <2>2 DEF Plain
    <3> QED
      BY <1>0, <1>1, <2>2, <3>1, <3>2 DEF AppRow
  <2> QED
    BY <2>1, <2>2
<1>4. SoleRow(d)'
  BY <1>3 DEF SoleRow, Same, Owner, Recorded, PreRow
<1>5. SoleUnit(d)'
  BY <1>0, <1>2 DEF SoleAll, SoleUnit, Same, Ported, Equipped, Enabled, Recorded
<1>6. SoleFiles(d)'
  BY <1>0, <1>2 DEF SoleAll, SoleFiles, Same, Copied, Backed, Supplied, Ported, Equipped, Enabled, Recorded
<1>7. SoleBuild(d)'
  BY <1>0, <1>2 DEF SoleAll, SoleBuild, Same, Copied, Backed, Supplied, Ported, Equipped, Enabled, Recorded
<1>8. SoleKind(d)' /\ SoleRoute(d)'
  BY DEF SoleKind, FullOnly, SoleRoute
<1> QED
  BY <1>4, <1>5, <1>6, <1>7, <1>8 DEF SoleAll

\* A service that does not start.
LEMMA SoleStartFails ==
  ASSUME Basis, Narrow, NEW d \in Deploys, StartFails(d), Same(d), job'[d].at = "finish",
         job'[d].port = job[d].port, job'[d].owner = job[d].owner,
         job'[d].asked = job[d].asked, job'[d].ver = job[d].ver, SoleAll(d)
  PROVE  SoleAll(d)'
<1> DEFINE k == job[d].slug
           full == job[d].full
<1>0. job[d] # NoJob /\ k \in Slugs /\ job[d].at = "start" /\ full /\ job[d].from \in Sessions
  <2>1. job[d] # NoJob /\ job[d].at = "start"
    BY DEF StartFails, NoJob
  <2> QED
    BY <2>1, JobRuns DEF Basis, SoleAll, SoleKind, FullOnly
<1>1. /\ row[k].by = d /\ row[k].owner = Owner(d) /\ job[d].owner = Owner(d)
      /\ row[k].port = job[d].port /\ row[k].state = "running"
  BY <1>0 DEF SoleAll, SoleRow, Recorded
<1>2. /\ row' = [row EXCEPT ![k] = InState(row[k], "starting")]
      /\ unit' = [unit EXCEPT ![k] = [unit[k] EXCEPT !.on = 0]]
      /\ UNCHANGED <<files, src, built>>
  <2>1. job[d].owner # Nobody
    BY <1>0, <1>1, DeployAssumption DEF Owner
  <2>2. row' = [row EXCEPT ![k] = InState(row[k], "starting")]
    BY <2>1 DEF StartFails, SetState
  <2>3. unit' = [unit EXCEPT ![k] = [unit[k] EXCEPT !.on = 0]]
    BY DEF StartFails
  <2> QED
    BY <2>2, <2>3 DEF StartFails
<1>3. /\ row'[k].by = d /\ row'[k].owner = Owner(d) /\ row'[k].state = "starting"
      /\ row'[k].port = job[d].port
  <2>1. row[k] \in AppRow
    BY <1>0, <1>1 DEF Narrow, NoRow
  <2>2. row'[k] = [row[k] EXCEPT !.state = "starting"]
    <3>1. row[k] # NoRow
      BY <1>1 DEF NoRow
    <3> QED
      BY <1>0, <1>1, <1>2, <3>1 DEF InState, Transitions, Narrow
  <2> QED
    BY <1>1, <2>1, <2>2 DEF AppRow
<1>4. unit'[k].on = 0 /\ unit'[k].port = unit[k].port /\ unit'[k].enabled = unit[k].enabled
  <2>1. unit[k] \in Unit /\ unit'[k] = [unit[k] EXCEPT !.on = 0]
    BY <1>0, <1>2 DEF Narrow
  <2> QED
    BY <2>1 DEF Unit
<1>5. SoleRow(d)'
  BY <1>0, <1>1, <1>3, <1>4 DEF SoleRow, Same, Owner, Recorded, PreRow
<1>6. SoleUnit(d)'
  BY <1>0, <1>4 DEF SoleAll, SoleUnit, Same, Ported, Equipped, Enabled, Recorded
<1>7. SoleFiles(d)'
  BY <1>0, <1>2 DEF SoleAll, SoleFiles, Same, Copied, Backed, Supplied, Ported, Equipped, Enabled, Recorded
<1>8. SoleBuild(d)'
  BY <1>0, <1>2 DEF SoleAll, SoleBuild, Same, Copied, Backed, Supplied, Ported, Equipped, Enabled, Recorded
<1>9. SoleKind(d)'
  BY DEF SoleKind, FullOnly
<1>10. SoleRoute(d)'
  BY <1>3 DEF SoleRoute, Same
<1> QED
  BY <1>5, <1>6, <1>7, <1>8, <1>9, <1>10 DEF SoleAll

LEMMA SoleStays ==
  ASSUME Basis, Narrow, BuiltInv, StraysOver, MetKnown, OwnersLate, DeployNext, NEW d \in Deploys, Sole(d)
  PROVE  Sole(d)'
<1> SUFFICES ASSUME InFlight(d)', Plain(d)', Undisturbed(d)'
             PROVE  SoleAll(d)'
  BY DEF Sole, SoleAll
<1>0. AppTypes /\ JobsInv /\ Turn(d) /\ Fields(d)
  BY JobsChange, JobFields DEF Basis
<1>1. CASE job'[d] = job[d]
  <2>1. InFlight(d) /\ Plain(d) /\ job[d] # NoJob
    BY <1>1 DEF InFlight, Plain, NoJob
  <2>2. Undisturbed(d) /\ 0 \notin met'[d]
    BY <2>1, UndisturbedBefore
  <2> QED
    BY <1>1, <2>1, <2>2, SoleBeside DEF Sole, SoleAll
<1>2. CASE New(d) /\ job'[d] # job[d]
  BY <1>0, <1>2, SolePosted
<1>3. CASE InFlight(d) /\ GoesOn(d) /\ job'[d] # job[d]
  <2>0. job[d] # NoJob /\ Same(d)
    BY <1>0, <1>3, Starts DEF InFlight, NoJob
  <2>1. /\ job'[d].was = job[d].was /\ job'[d].asked = job[d].asked
        /\ job'[d].owner = IF job[d].at = "row" THEN row'[job[d].slug].owner ELSE job[d].owner
        /\ job'[d].ver = IF job[d].at = "copy" THEN built[job[d].from] ELSE job[d].ver
    BY <1>0, <1>3, <2>0 DEF Fields
  <2>2. Plain(d)
    BY <2>0, <2>1 DEF Plain, Same
  <2>3. Undisturbed(d)
    BY <2>0, UndisturbedBefore
  <2>4. SoleAll(d)
    BY <1>3, <2>2, <2>3 DEF Sole, SoleAll
  <2>5. CASE Operate(d) /\ job'[d].at = After(job[d].at, job[d].full)
    BY <1>0, <2>2, <2>4, <2>5, SoleOperates
  <2>6. CASE Validate(d) /\ job'[d].at = "eager"
    BY <2>0, <2>1, <2>4, <2>6, SoleStarts
  <2>7. CASE Prepare(d) /\ job'[d].at = "rebuild"
    BY <2>0, <2>1, <2>4, <2>7, SolePrepares
  <2>8. CASE RecordRow(d) /\ job[d].at = "row" /\ job'[d].at = "regen"
    <3>1. ~Operate(d)
      BY <2>8 DEF Operate, Effect
    <3> QED
      BY <2>0, <2>1, <2>2, <2>4, <2>8, <3>1, SoleRecords DEF Same
  <2>9. CASE StartFails(d) /\ job[d].at = "start" /\ job'[d].at = "finish"
    <3>1. job'[d].port = job[d].port
      <4>1. job'[d].port = job[d].port \/ (job[d].at = "start" /\ Operate(d))
        BY <2>0, <2>9 DEF Same
      <4>2. Operate(d) /\ job[d].at = "start" => job'[d].port = job[d].port
        <5>1. ASSUME Operate(d), job[d].at = "start" PROVE job'[d].port = job[d].port
          <6>1. PICK p \in {job[d].port} :
                  job' = [job EXCEPT ![d].at = After(job[d].at, job[d].full), ![d].port = p,
                             ![d].ver = IF job[d].at = "copy" THEN built[job[d].from] ELSE @]
            BY <5>1 DEF Operate
          <6> QED
            BY <1>0, <6>1 DEF AppTypes, Jobs
        <5> QED
          BY <5>1
      <4> QED
        BY <4>1, <4>2
    <3> QED
      BY <2>0, <2>1, <2>4, <2>9, <3>1, SoleStartFails
  <2> QED
    BY <1>3, <2>5, <2>6, <2>7, <2>8, <2>9 DEF GoesOn
<1>4. job'[d].status \notin Ended \cup {"swept"}
  BY DEF InFlight, Ended
<1> QED
  BY <1>0, <1>1, <1>2, <1>3, <1>4 DEF Turn

\* Only the last operation of its own task reports a job's success.
LEMMA Succeeds ==
  ASSUME AppTypes, JobsInv, DeployNext, NEW d \in Deploys, job[d].status = "running", job'[d].status = "succeeded"
  PROVE  Finish(d) /\ ~RollBack(d, "failed")
<1>0. job[d] # NoJob /\ job'[d] # job[d]
  BY DEF NoJob
<1>1. ASSUME NEW e \in Deploys, NEW status \in Ended \cup {"swept"}, job' = [job EXCEPT ![e] = Closed(job[e], status)]
      PROVE  job'[d] = job[d] \/ status = "succeeded"
  <2>1. Closed(job[e], status).status = status
    BY DEF Closed, AppTypes, Jobs
  <2> QED
    BY <1>1, <2>1 DEF AppTypes
<1>2. ASSUME NEW e \in Deploys, Cancel(e) \/ JobStep(e) PROVE Finish(d) /\ ~RollBack(d, "failed")
  <2>1. ~RollBack(e, "failed") /\ ~RollBack(e, "cancelled") /\ ~Sweep(e)
    BY <1>0, <1>1 DEF RollBack, Sweep, Ended
  <2>2. ~StrayEnds(e)
    BY <1>0 DEF StrayEnds
  <2>3. Validate(e) \/ Operate(e) \/ StartFails(e) \/ Prepare(e) \/ RecordRow(e) \/ Finish(e)
    BY <1>2, <2>1, <2>2 DEF Cancel, JobStep, OperationFails
  <2>4. d = e
    <3>1. JobOnly(e)
      BY <2>3, TaskGoes
    <3> QED
      BY <1>0, <3>1 DEF JobOnly, AppTypes
  <2>5. ~Validate(d)
    BY DEF Validate
  <2>6. ~Operate(d)
    <3>1. ASSUME Operate(d)
          PROVE  FALSE
      <4>1. PICK p : job' = [job EXCEPT ![d].at = After(job[d].at, job[d].full), ![d].port = p,
                               ![d].ver = IF job[d].at = "copy" THEN built[job[d].from] ELSE @]
        BY <3>1 DEF Operate
      <4> QED
        BY <4>1 DEF AppTypes, Jobs
    <3> QED
      BY <3>1
  <2>7. ~Advance(d)
    BY DEF Advance, AppTypes, Jobs
  <2>8. ~StartFails(d) /\ ~Prepare(d)
    BY <2>1, <2>4, <2>7 DEF StartFails, Prepare
  <2>9. ~RecordRow(d)
    <3>1. job' # [job EXCEPT ![d].at = "regen", ![d].owner = row'[job[d].slug].owner]
      BY DEF AppTypes, Jobs
    <3> QED
      BY <2>1, <2>4, <3>1 DEF RecordRow
  <2> QED
    BY <2>1, <2>3, <2>4, <2>5, <2>6, <2>7, <2>8, <2>9
<1>3. ASSUME NEW e \in Deploys, NEW s \in Sessions, NEW k \in Slugs, NEW full \in Kinds, Deploy(e, s, k, full)
      PROVE  FALSE
  BY <1>0, <1>3 DEF Deploy, AppTypes
<1>4. ~Restart
  <2>1. Restart => job'[d] = Closed(job[d], "swept")
    BY <1>0 DEF Restart
  <2>2. Closed(job[d], "swept").status = "swept"
    BY DEF Closed, AppTypes, Jobs
  <2> QED
    BY <2>1, <2>2
<1>5. CASE (\E s \in Sessions : Edit(s)) \/ RequestStep \/ Reap
           \/ \E k \in Slugs : AskStart(k) \/ AskStop(k) \/ AskDelete(k)
  BY <1>0, <1>5 DEF Edit, RequestStep, ServiceStarts, DirectoryMoves, DirectoryGoes, RowChanges,
     RequestEnds, Reap, AskStart, AskStop, AskDelete, jobVars
<1> QED
  BY <1>2, <1>3, <1>4, <1>5 DEF DeployNext

LEMMA SoleInitially == DeployInit => SoleInv
<1> SUFFICES ASSUME DeployInit PROVE SoleInv
  OBVIOUS
<1>1. \A d \in Deploys : job[d] = NoJob /\ stray[d] = "none" /\ met[d] = {}
  BY DEF DeployInit
<1>2. Narrow
  <2>1. /\ NoRow \in AppRow \cup {NoRow} /\ Empty \in Tree /\ NoUnit \in Unit
        /\ [kind |-> "none", port |-> 0] \in Fragment
    BY DeployAssumption DEF Empty, Tree, NoUnit, Unit, Fragment
  <2>2. NoJob.port = 0 /\ NoJob.was = NoRow /\ NumPorts \in Nat
    BY DeployAssumption DEF NoJob
  <2> QED
    BY <2>1, <2>2 DEF DeployInit, Narrow
<1>3. StraysOver /\ MetKnown /\ OwnersLate
  BY <1>1 DEF StraysOver, MetKnown, OwnersLate, PreRow, NoJob
<1>4. \A d \in Deploys : Sole(d)
  BY <1>1 DEF Sole, InFlight, NoJob
<1> QED
  BY <1>2, <1>3, <1>4, AppInitially DEF SoleInv

LEMMA SoleInductive == SoleInv /\ [DeployNext]_deployVars => SoleInv'
<1>1. ASSUME SoleInv, DeployNext PROVE SoleInv'
  <2>1. AppInv /\ Basis /\ BuiltInv /\ Narrow /\ StraysOver /\ MetKnown /\ OwnersLate
    BY <1>1 DEF SoleInv, AppInv, Basis
  <2>2. AppInv'
    BY <1>1, <2>1, AppInvStays
  <2>3. Narrow' /\ StraysOver' /\ MetKnown' /\ OwnersLate'
    BY <1>1, <2>1, NarrowStays, StraysOverStay, MetKnownStays, OwnersLateStay DEF Basis
  <2>4. ASSUME NEW d \in Deploys PROVE Sole(d)'
    BY <1>1, <2>1, <2>4, SoleStays DEF SoleInv
  <2> QED
    BY <2>2, <2>3, <2>4 DEF SoleInv
<1>2. ASSUME SoleInv, UNCHANGED deployVars PROVE SoleInv'
  <2>1. UNCHANGED <<sess, row, svc, files, parked, route, unit, src, built, job, stray, req, met>>
    BY <1>2 DEF deployVars, appVars, jobVars
  <2>2. AppInv'
    BY <1>2, AppInvStays DEF SoleInv
  <2>3. Narrow'
    BY <1>2, <2>1 DEF SoleInv, Narrow
  <2>4. StraysOver' /\ MetKnown' /\ OwnersLate'
    BY <1>2, <2>1 DEF SoleInv, StraysOver, MetKnown, OwnersLate, InFlight
  <2>5. ASSUME NEW d \in Deploys PROVE Sole(d)'
    <3>1. Sole(d)
      BY <1>2 DEF SoleInv
    <3>2. UNCHANGED <<InFlight(d), Plain(d), Undisturbed(d), SoleAll(d)>>
      BY <2>1 DEF InFlight, Plain, Undisturbed, SoleAll, SoleKind, SoleRow, SoleUnit, SoleFiles,
         SoleBuild, SoleRoute, Owner, RouteOf
    <3> QED
      BY <3>1, <3>2 DEF Sole
  <2> QED
    BY <2>2, <2>3, <2>4, <2>5 DEF SoleInv
<1> QED
  BY <1>1, <1>2

\* What each operation of a job that nothing conflicts with has left is there until the job
\* ends (_run_deploy_job).
THEOREM SoleInvariant == DeploySpec => []SoleInv
<1> QED
  BY SoleInitially, SoleInductive, PTL DEF DeploySpec

\* A deployment that nothing conflicting ran beside, and whose service came up, serves
\* exactly what it built when it reports success (_run_deploy_job).
THEOREM AloneServedHolds == DeploySpec => AloneServed
<1>1. ASSUME SoleInv, DeployNext, NEW d \in Deploys, job[d].status = "running", job'[d].status = "succeeded",
             Plain(d), Undisturbed(d), job[d].full => unit[job[d].slug].on = job[d].port
      PROVE  Serves(d)'
  <2> DEFINE k == job[d].slug
             s == job[d].from
  <2>0. Basis /\ AppTypes /\ JobsInv /\ Narrow /\ job[d] # NoJob /\ k \in Slugs /\ s \in Sessions
    <3>1. Basis /\ AppTypes /\ JobsInv /\ Narrow /\ job[d] # NoJob
      BY <1>1 DEF SoleInv, AppInv, Basis, NoJob
    <3> QED
      BY <3>1, JobRuns
  <2>1. SoleAll(d)
    BY <1>1 DEF SoleInv, Sole, SoleAll, InFlight
  <2>2. Finish(d) /\ ~RollBack(d, "failed")
    BY <1>1, <2>0, Succeeds
  <2>3. /\ job[d].at = "finish" /\ row' = [row EXCEPT ![k] = InState(row[k], "running")]
        /\ job' = [job EXCEPT ![d].status = "succeeded"]
        /\ UNCHANGED <<files, route, unit>>
    BY <2>2 DEF Finish, SetState
  <2>4. /\ job'[d].slug = k /\ job'[d].full = job[d].full /\ job'[d].ver = job[d].ver
        /\ job'[d].asked = job[d].asked
    BY <2>0, <2>3 DEF AppTypes, Jobs
  <2>5. /\ row[k].by = d /\ row[k].owner = Owner(d)
        /\ row[k].port = IF job[d].full THEN job[d].port ELSE 0
    BY <2>1, <2>3 DEF SoleAll, SoleRow, Recorded
  <2>6. row[k].state = "running"
    <3>1. job[d].full => job[d].port # 0
      BY <2>1, <2>3 DEF SoleAll, SoleUnit, Ported, Equipped, Enabled, Recorded
    <3> QED
      BY <1>1, <2>1, <2>3, <3>1 DEF SoleAll, SoleRow, Recorded
  <2>7. row'[k] = row[k]
    <3>1. row[k] \in Rows
      BY <2>0 DEF AppTypes
    <3>2. InState(row[k], "running") = row[k]
      BY <2>6, <3>1 DEF InState, Rows
    <3> QED
      BY <2>0, <2>3, <3>2 DEF AppTypes
  <2>8. route[k] = RouteOf(row[k])
    BY <2>1, <2>3, <2>6 DEF SoleAll, SoleRoute
  <2>9. \A p \in IF job[d].full THEN {"static", "backend", "deps"} ELSE {"root"} : files[k][p] = d
    BY <2>1, <2>3 DEF SoleAll, SoleFiles, Copied, Backed, Supplied, Ported, Equipped, Enabled, Recorded
  <2>10. row[k].port # 0 => unit[k].port = row[k].port /\ unit[k].enabled
    BY <2>1, <2>3, <2>5 DEF SoleAll, SoleUnit, Ported, Equipped, Enabled, Recorded
  <2>11. job[d].ver >= job[d].asked
    BY <2>1, <2>3 DEF SoleAll, SoleBuild, Copied, Backed, Supplied, Ported, Equipped, Enabled, Recorded
  <2> QED
    BY <2>3, <2>4, <2>5, <2>6, <2>7, <2>8, <2>9, <2>10, <2>11 DEF Serves, RouteOf
<1>2. SoleInv /\ [DeployNext]_deployVars =>
        [\A d \in Deploys :
           /\ job[d].status = "running" /\ job'[d].status = "succeeded"
           /\ Plain(d) /\ Undisturbed(d)
           /\ job[d].full => unit[job[d].slug].on = job[d].port
           => Serves(d)']_deployVars
  BY <1>1
<1> QED
  BY <1>2, SoleInvariant, PTL DEF DeploySpec, AloneServed
=============================================================================
