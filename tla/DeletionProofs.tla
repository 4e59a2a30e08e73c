---------------------------- MODULE DeletionProofs ----------------------------
(***************************************************************************)
(* What is proved about deletions: the types of their state, that a session   *)
(* deleted while nothing else worked on it leaves no trace, and that none     *)
(* waits for anything but the event loop.  For the second of these, two        *)
(* things have to be kept apart all along: what a deletion has already dealt    *)
(* with, and what somebody still at work may yet put back, who is therefore      *)
(* known to be at work or to have come in between.                                *)
(***************************************************************************)
EXTENDS Deletion, DeploymentsProofs

PreDrop  == {"agent", "wait", "processes", "list", "apps", "tree", "workspace", "checkpoint", "bus", "rows"}
Ats      == PreDrop \cup {"none", "next", "project"}
Outcomes == {"succeeded", "failed", "cancelled", "lost"}
Dels     == [status : {"none", "pending", "running"} \cup Outcomes, sync : BOOLEAN, project : BOOLEAN,
             target : Sessions \cup {NoSession}, left : SUBSET Sessions, cur : Sessions \cup {NoSession},
             at : Ats, apps : SUBSET Slugs, app : Slugs \cup {Nobody}, failed : BOOLEAN,
             swallowed : BOOLEAN, cancel : BOOLEAN]

DelTypes ==
  /\ turn \in [Sessions -> {"none", "running", "cancelling", "zombie"}]
  /\ procs \subseteq sess /\ ckpt \subseteq Sessions /\ bus \subseteq Sessions /\ late \subseteq Sessions
  /\ runs \subseteq Sessions /\ kept \subseteq {"process", "workspace", "checkpoint"} \X Sessions
  /\ del \in [Deletes -> Dels]
  /\ loop \in Deletes \cup {0} /\ moved \subseteq Deploys
  /\ loop # 0 => del[loop].status = "running" /\ ~del[loop].sync
  /\ \A s \in sess : ProjectOf[s] \in projects

\* How far a deletion is.
Shape(j) ==
  /\ Open(j) => /\ del[j].target \in Sessions /\ del[j].left \subseteq Targets(j)
                /\ del[j].cur \notin del[j].left /\ del[j].cur \in Targets(j) \cup {NoSession}
  /\ del[j].status = "pending" => del[j].cur = NoSession /\ ~del[j].sync
  /\ del[j].at \in PreDrop => del[j].status = "running" /\ del[j].cur \in Targets(j)
  /\ del[j].at = "tree" => del[j].app \in del[j].apps
  /\ del[j].at = "project" => del[j].left = {}
  /\ del[j].at \in {"agent", "wait"} => ~del[j].sync

DelShape == \A j \in Deletes : Shape(j)
TypesInv == Basis /\ Narrow /\ DelTypes /\ DelShape

-----------------------------------------------------------------------------
\* One deletion's record changes.
OtherDels(j) == /\ del' \in [Deletes -> Dels] /\ \A i \in Deletes \ {j} : del'[i] = del[i]
                /\ del[j].swallowed => del'[j].swallowed
SameDel(j) ==
  /\ del'[j].status = del[j].status /\ del'[j].sync = del[j].sync /\ del'[j].project = del[j].project
  /\ del'[j].target = del[j].target
Stays(j) == SameDel(j) /\ del'[j].left = del[j].left /\ del'[j].cur = del[j].cur
Steady(j) == del'[j].apps = del[j].apps /\ del'[j].app = del[j].app

\* From one step of the purge to the next.
Walks(j) ==
  /\ Stays(j) /\ del[j].status = "running"
  /\ LET from == del[j].at
         to == del'[j].at IN
     \/ Steady(j) /\ \/ from = "agent" /\ to \in {"wait", "processes"}
                     \/ from = "wait" /\ to = "processes"
                     \/ from = "processes" /\ to = "list"
                     \/ from = "apps" /\ del[j].apps = {} /\ to = "workspace"
                     \/ from = "workspace" /\ to = "checkpoint"
                     \/ from = "checkpoint" /\ to = "bus"
                     \/ from = "bus" /\ to = "rows"
                     \/ from = "rows" /\ to = "next"
                     \/ from = "next" /\ del[j].left = {} /\ to = "project"
     \/ from = "list" /\ to = "apps" /\ del'[j].apps = AppsOf(del[j].cur)
     \/ from = "apps" /\ to = "tree" /\ del'[j].apps = del[j].apps /\ del'[j].app \in del[j].apps
     \/ from = "tree" /\ to = "apps" /\ (del'[j].apps = del[j].apps \ {del[j].app} \/ del'[j].swallowed)
Picks(j) ==
  /\ SameDel(j) /\ Steady(j) /\ del[j].status = "running" /\ del[j].at = "next"
  /\ del'[j].cur \in del[j].left /\ del'[j].left = del[j].left \ {del'[j].cur}
  /\ del'[j].at = (IF del[j].sync THEN "processes" ELSE "agent")
Opens(j) ==
  /\ del[j].status = "pending" /\ del'[j].status = "running" /\ del'[j].at = "next"
  /\ del'[j].sync = del[j].sync /\ del'[j].project = del[j].project /\ del'[j].target = del[j].target
  /\ del'[j].cur = del[j].cur
  /\ del'[j].left = IF del[j].project THEN InProject(ProjectOf[del[j].target]) ELSE {del[j].target}
  /\ ~del[j].project => del[j].target \in sess
Closes(j) == Open(j) /\ del'[j].status \in Outcomes /\ del'[j].at = "none"

LEMMA DelSet ==
  ASSUME DelTypes, NEW j \in Deletes, NEW c \in Dels, del' = [del EXCEPT ![j] = c],
         del[j].swallowed => c.swallowed
  PROVE  OtherDels(j) /\ del'[j] = c
BY DEF DelTypes, OtherDels

LEMMA GoesIs ==
  ASSUME DelTypes, NEW j \in Deletes, NEW to \in Ats, Goes(j, to)
  PROVE  OtherDels(j) /\ Stays(j) /\ Steady(j) /\ del'[j].at = to
<1> DEFINE c == [del[j] EXCEPT !.at = to]
<1>1. del[j] \in Dels
  BY DEF DelTypes
<1>2. del' = [del EXCEPT ![j] = c]
  BY DEF DelTypes, Goes
<1>3. /\ c \in Dels /\ c.at = to /\ c.status = del[j].status /\ c.sync = del[j].sync
      /\ c.project = del[j].project /\ c.target = del[j].target /\ c.left = del[j].left
      /\ c.cur = del[j].cur /\ c.apps = del[j].apps /\ c.app = del[j].app
      /\ c.swallowed = del[j].swallowed
  BY <1>1 DEF Dels
<1> HIDE DEF c
<1> QED
  BY <1>2, <1>3, DelSet DEF Stays, SameDel, Steady

LEMMA EndsIs ==
  ASSUME DelTypes, NEW j \in Deletes, NEW status \in Outcomes, Open(j), Ends(j, status)
  PROVE  OtherDels(j) /\ Closes(j) /\ loop' = (IF loop = j THEN 0 ELSE loop) /\ moved' = {}
<1> DEFINE c == [del[j] EXCEPT !.status = status, !.at = "none", !.left = {}, !.cur = NoSession]
<1>1. del[j] \in Dels
  BY DEF DelTypes
<1>2. c \in Dels /\ c.at = "none" /\ c.status = status /\ c.swallowed = del[j].swallowed
  BY <1>1 DEF Dels, Ats
<1>3. del' = [del EXCEPT ![j] = c] /\ loop' = (IF loop = j THEN 0 ELSE loop) /\ moved' = {}
  BY DEF Ends
<1> HIDE DEF c
<1> QED
  BY <1>2, <1>3, DelSet DEF Closes

\* What a step of a deletion does to its record.
LEMMA DelSteps ==
  ASSUME Narrow, DelTypes, DelShape, NEW j \in Deletes, DeleteStep(j)
  PROVE  /\ OtherDels(j) /\ (Walks(j) \/ Picks(j) \/ Opens(j) \/ Closes(j))
         /\ loop' \in {loop, 0, j} /\ moved' \in {moved, {}}
         /\ loop' = j /\ loop' # loop => del'[j].status = "running" /\ ~del'[j].sync
         /\ Closes(j) => loop' # j
<1> DEFINE Result ==
         /\ OtherDels(j) /\ (Walks(j) \/ Picks(j) \/ Opens(j) \/ Closes(j))
         /\ loop' \in {loop, 0, j} /\ moved' \in {moved, {}}
         /\ loop' = j /\ loop' # loop => del'[j].status = "running" /\ ~del'[j].sync
         /\ Closes(j) => loop' # j
<1> SUFFICES Result
  OBVIOUS
<1>a. del[j] \in Dels /\ Shape(j) /\ j # 0
  BY DEF DelTypes, DelShape, Deletes
<1>b. {"next", "project", "agent", "apps", "tree", "wait", "processes", "list", "workspace",
       "checkpoint", "bus", "rows"} \subseteq Ats
  BY DEF Ats, PreDrop
<1>d. loop = j => ~del[j].sync
  BY <1>a DEF DelTypes
<1>c. {"failed", "cancelled", "succeeded"} \subseteq Outcomes
  BY DEF Outcomes
<1>1. CASE Begin(j)
  <2>1. del[j].status = "pending" /\ Open(j) /\ ~del[j].sync
    BY <1>1, <1>a DEF Begin, Open, Shape
  <2>2. CASE Ends(j, "failed")
    <3>1. OtherDels(j) /\ Closes(j) /\ loop' = (IF loop = j THEN 0 ELSE loop) /\ moved' = {}
      BY <1>c, <2>1, <2>2, EndsIs
    <3> QED
      BY <1>a, <3>1
  <2>3. CASE ~Ends(j, "failed")
    <3> DEFINE left == IF del[j].project THEN InProject(ProjectOf[del[j].target]) ELSE {del[j].target}
               c == [del[j] EXCEPT !.status = "running", !.at = "next", !.left = left]
    <3>1. /\ del' = [del EXCEPT ![j] = c] /\ loop' = j /\ moved' = moved
          /\ ~del[j].project => del[j].target \in sess
      BY <1>1, <2>3 DEF Begin
    <3>2. left \in SUBSET Sessions
      BY <1>a, <2>1 DEF InProject, Shape, Narrow
    <3> HIDE DEF left
    <3>3. /\ c \in Dels /\ c.status = "running" /\ c.at = "next" /\ c.left = left /\ c.sync = del[j].sync
          /\ c.project = del[j].project /\ c.target = del[j].target /\ c.cur = del[j].cur
          /\ c.swallowed = del[j].swallowed
      BY <1>a, <1>b, <3>2 DEF Dels
    <3> HIDE DEF c
    <3>4. OtherDels(j) /\ del'[j] = c
      BY <3>1, <3>3, DelSet
    <3> USE DEF left
    <3> QED
      BY <2>1, <3>1, <3>3, <3>4 DEF Opens, Closes, Outcomes
  <2> QED
    BY <2>2, <2>3
<1>2. ASSUME NEW step, NEW to \in Ats, At(j, step), Goes(j, to), loop' \in {loop, 0}, moved' \in {moved, {}},
             \/ step = "agent" /\ to \in {"wait", "processes"}
             \/ step = "processes" /\ to = "list"
             \/ step = "apps" /\ del[j].apps = {} /\ to = "workspace"
             \/ step = "workspace" /\ to = "checkpoint"
             \/ step = "checkpoint" /\ to = "bus"
             \/ step = "bus" /\ to = "rows"
             \/ step = "rows" /\ to = "next"
             \/ step = "next" /\ del[j].left = {} /\ to = "project"
      PROVE  Result
  <2>1. OtherDels(j) /\ Stays(j) /\ Steady(j) /\ del'[j].at = to
    BY <1>2, GoesIs
  <2>2. del[j].status = "running" /\ del[j].at = step
    BY <1>2 DEF At
  <2>3. Walks(j)
    BY <1>2, <2>1, <2>2 DEF Walks
  <2>4. del'[j].status = "running"
    BY <2>1, <2>2 DEF Stays, SameDel
  <2> QED
    BY <1>2, <1>a, <1>d, <2>1, <2>3, <2>4 DEF Closes, Outcomes
<1>3. ASSUME NEW status \in {"cancelled", "failed", "succeeded"}, del[j].status = "running", Ends(j, status)
      PROVE  Result
  <2>1. OtherDels(j) /\ Closes(j) /\ loop' = (IF loop = j THEN 0 ELSE loop) /\ moved' = {}
    BY <1>c, <1>3, EndsIs DEF Open
  <2> QED
    BY <1>a, <2>1
<1>4. ASSUME NEW c \in Dels, del[j].status = "running", UNCHANGED <<loop, moved>>,
             del' = [del EXCEPT ![j] = c], del[j].swallowed => c.swallowed, c.status = "running",
             OtherDels(j) /\ del'[j] = c => Walks(j) \/ Picks(j)
      PROVE  Result
  <2>1. OtherDels(j) /\ del'[j] = c
    BY <1>4, DelSet
  <2> QED
    BY <1>4, <1>a, <1>d, <2>1 DEF Closes, Outcomes
<1>5. CASE NextSession(j)
  <2>1. At(j, "next") /\ del[j].status = "running" /\ del[j].at = "next"
    BY <1>5 DEF NextSession, At
  <2>2. CASE del[j].left = {}
    <3>1. Goes(j, "project") /\ UNCHANGED <<loop, moved>>
      BY <1>5, <2>2 DEF NextSession
    <3> QED
      BY <1>2, <1>b, <2>1, <2>2, <3>1
  <2>3. CASE Ends(j, "cancelled")
    BY <1>3, <2>1, <2>3
  <2>4. CASE del[j].left # {} /\ ~Ends(j, "cancelled")
    <3>1. PICK s \in del[j].left :
            /\ del' = [del EXCEPT ![j] = [del[j] EXCEPT !.cur = s, !.left = del[j].left \ {s},
                                          !.at = IF del[j].sync THEN "processes" ELSE "agent"]]
            /\ UNCHANGED <<loop, moved>>
      BY <1>5, <2>4 DEF NextSession
    <3> DEFINE c == [del[j] EXCEPT !.cur = s, !.left = del[j].left \ {s},
                                   !.at = IF del[j].sync THEN "processes" ELSE "agent"]
    <3>2. s \in Sessions /\ del[j].left \ {s} \in SUBSET Sessions
      BY <1>a DEF Dels
    <3>3. /\ c \in Dels /\ c.status = del[j].status /\ c.sync = del[j].sync /\ c.project = del[j].project
          /\ c.target = del[j].target /\ c.apps = del[j].apps /\ c.app = del[j].app
          /\ c.swallowed = del[j].swallowed /\ c.cur = s /\ c.left = del[j].left \ {s}
          /\ c.at = IF del[j].sync THEN "processes" ELSE "agent"
      BY <1>a, <1>b, <3>2 DEF Dels
    <3>4. del' = [del EXCEPT ![j] = c]
      BY <3>1
    <3> HIDE DEF c
    <3>5. del'[j] = c => Picks(j)
      BY <2>1, <3>1, <3>3 DEF Picks, SameDel, Steady
    <3> QED
      BY <1>4, <2>1, <3>1, <3>3, <3>4, <3>5
  <2> QED
    BY <2>2, <2>3, <2>4
<1>6. CASE CancelAgent(j)
  BY <1>6, <1>2, <1>b DEF CancelAgent
<1>7. CASE AgentAwaited(j)
  <2>1. del[j].status = "running" /\ del[j].at = "wait" /\ ~del[j].sync
    BY <1>7, <1>a DEF AgentAwaited, Shape
  <2>2. CASE Ends(j, "cancelled")
    BY <1>3, <2>1, <2>2
  <2>3. CASE Goes(j, "processes") /\ loop' = j /\ UNCHANGED moved
    <3>1. OtherDels(j) /\ Stays(j) /\ Steady(j) /\ del'[j].at = "processes"
      BY <1>b, <2>3, GoesIs
    <3>2. Walks(j) /\ del'[j].status = "running" /\ ~del'[j].sync
      BY <2>1, <3>1 DEF Walks, Stays, SameDel
    <3> QED
      BY <2>3, <3>1, <3>2 DEF Closes, Outcomes
  <2> QED
    BY <1>7, <2>2, <2>3 DEF AgentAwaited
<1>8. CASE \/ KillProcesses(j) \/ AppsGone(j) \/ RemoveWorkspace(j) \/ DropCheckpoint(j) \/ ClearBus(j)
  BY <1>8, <1>2, <1>b DEF KillProcesses, AppsGone, RemoveWorkspace, DropCheckpoint, ClearBus
<1>9. CASE ListApps(j)
  <2> DEFINE c == [del[j] EXCEPT !.apps = AppsOf(del[j].cur), !.at = "apps"]
  <2>1. del[j].status = "running" /\ del[j].at = "list" /\ UNCHANGED <<loop, moved>>
    BY <1>9 DEF ListApps, At
  <2>2. del' = [del EXCEPT ![j] = c]
    BY <1>9 DEF ListApps, DelTypes
  <2>3. /\ c \in Dels /\ c.status = del[j].status /\ c.sync = del[j].sync /\ c.project = del[j].project
        /\ c.target = del[j].target /\ c.apps = AppsOf(del[j].cur)
        /\ c.swallowed = del[j].swallowed /\ c.cur = del[j].cur /\ c.left = del[j].left /\ c.at = "apps"
    BY <1>a, <1>b DEF Dels, AppsOf
  <2> HIDE DEF c
  <2>4. del'[j] = c => Walks(j)
    BY <2>1, <2>3 DEF Walks, Stays, SameDel
  <2> QED
    BY <1>4, <2>1, <2>2, <2>3, <2>4
<1>10. ASSUME NEW k \in Slugs, TearDown(j, k) PROVE Result
  <2>1. del[j].status = "running" /\ del[j].at = "apps" /\ k \in del[j].apps /\ UNCHANGED <<loop, moved>>
    BY <1>10 DEF TearDown, At
  <2>2. PICK stays \in SUBSET {"unit", "route"} :
          del' = [del EXCEPT ![j] = [del[j] EXCEPT !.at = "tree", !.app = k,
                                                   !.swallowed = @ \/ stays # {}]]
    BY <1>10 DEF TearDown
  <2> DEFINE swallowed == del[j].swallowed \/ stays # {}
             c == [del[j] EXCEPT !.at = "tree", !.app = k, !.swallowed = swallowed]
  <2>5. swallowed \in BOOLEAN /\ del' = [del EXCEPT ![j] = c] /\ (del[j].swallowed => swallowed)
    BY <2>2
  <2> HIDE DEF swallowed
  <2>3. /\ c \in Dels /\ c.status = del[j].status /\ c.sync = del[j].sync /\ c.project = del[j].project
        /\ c.target = del[j].target /\ c.apps = del[j].apps /\ c.app = k
        /\ c.swallowed = swallowed /\ c.cur = del[j].cur /\ c.left = del[j].left /\ c.at = "tree"
    BY <1>a, <1>b, <2>5 DEF Dels
  <2> HIDE DEF c
  <2>4. del'[j] = c => Walks(j)
    BY <2>1, <2>3 DEF Walks, Stays, SameDel
  <2> QED
    BY <1>4, <2>1, <2>5, <2>3, <2>4
<1>11. CASE RemoveApp(j)
  <2> DEFINE k == del[j].app
             c(apps, swallowed) == [del[j] EXCEPT !.at = "apps", !.app = Nobody, !.apps = apps,
                                                  !.swallowed = swallowed]
  <2>1. del[j].status = "running" /\ del[j].at = "tree" /\ UNCHANGED <<loop, moved>>
    BY <1>11 DEF RemoveApp, At
  <2>2. ASSUME NEW apps \in SUBSET Slugs, NEW swallowed \in BOOLEAN
        PROVE  LET r == c(apps, swallowed) IN
               /\ r \in Dels /\ r.status = del[j].status /\ r.sync = del[j].sync /\ r.project = del[j].project
               /\ r.target = del[j].target /\ r.apps = apps /\ r.at = "apps" /\ r.app = Nobody
               /\ (r.swallowed <=> swallowed) /\ r.cur = del[j].cur /\ r.left = del[j].left
    BY <1>a, <1>b DEF Dels
  <2>3. PICK apps \in SUBSET Slugs, swallowed \in BOOLEAN :
          /\ del' = [del EXCEPT ![j] = c(apps, swallowed)]
          /\ del[j].swallowed => swallowed
          /\ swallowed \/ apps = del[j].apps \ {k}
    <3>1. del[j].apps \in SUBSET Slugs /\ del[j].swallowed \in BOOLEAN
      BY <1>a DEF Dels
    <3>2. \/ del' = [del EXCEPT ![j] = c(del[j].apps \ {k}, del[j].swallowed)]
          \/ del' = [del EXCEPT ![j] = c(IF del[j].sync THEN {} ELSE del[j].apps \ {k}, TRUE)]
      <4>1. c(del[j].apps \ {k}, del[j].swallowed)
            = [del[j] EXCEPT !.at = "apps", !.app = Nobody, !.apps = del[j].apps \ {k}]
        BY <1>a DEF Dels
      <4>2. \A apps : c(apps, TRUE)
                      = [[del[j] EXCEPT !.at = "apps", !.app = Nobody, !.apps = apps] EXCEPT !.swallowed = TRUE]
        BY <1>a DEF Dels
      <4> QED
        BY <1>11, <4>1, <4>2 DEF RemoveApp
    <3> HIDE DEF c
    <3> QED
      BY <3>1, <3>2
  <2> HIDE DEF c
  <2>4. del'[j] = c(apps, swallowed) => Walks(j)
    BY <2>1, <2>2, <2>3 DEF Walks, Stays, SameDel
  <2> QED
    BY <1>4, <2>1, <2>2, <2>3, <2>4
<1>12. CASE DropRows(j)
  <2>1. At(j, "rows") /\ UNCHANGED <<loop, moved>> /\ del[j].status = "running" /\ del[j].at = "rows"
    BY <1>12 DEF DropRows, At
  <2>2. CASE Goes(j, "next")
    BY <1>2, <1>b, <2>1, <2>2
  <2>3. CASE ~Goes(j, "next")
    <3> DEFINE failed == del[j].failed \/ del[j].cur \notin sess
               c == [del[j] EXCEPT !.failed = failed, !.at = "next"]
    <3>1. del' = [del EXCEPT ![j] = c]
      BY <1>12, <2>3 DEF DropRows, DelTypes
    <3>2. failed \in BOOLEAN
      OBVIOUS
    <3> HIDE DEF failed
    <3>3. /\ c \in Dels /\ c.status = del[j].status /\ c.sync = del[j].sync /\ c.project = del[j].project
          /\ c.target = del[j].target /\ c.apps = del[j].apps /\ c.app = del[j].app
          /\ c.swallowed = del[j].swallowed /\ c.cur = del[j].cur /\ c.left = del[j].left /\ c.at = "next"
      BY <1>a, <1>b, <3>2 DEF Dels
    <3> HIDE DEF c
    <3>4. del'[j] = c => Walks(j)
      BY <2>1, <3>3 DEF Walks, Stays, SameDel, Steady
    <3> QED
      BY <1>4, <2>1, <3>1, <3>3, <3>4
  <2> QED
    BY <2>2, <2>3
<1>13. CASE DropProject(j)
  <2>1. del[j].status = "running"
    BY <1>13 DEF DropProject, At
  <2>2. Ends(j, "failed") \/ Ends(j, "succeeded")
    BY <1>13 DEF DropProject
  <2> QED
    BY <1>3, <2>1, <2>2
<1> HIDE DEF Result
<1> QED
  BY <1>1, <1>5, <1>6, <1>7, <1>8, <1>9, <1>10, <1>11, <1>12, <1>13 DEF DeleteStep

\* How far it is then.
LEMMA ShapeAfter ==
  ASSUME Narrow, DelTypes, DelShape, NEW j \in Deletes, OtherDels(j),
         Walks(j) \/ Picks(j) \/ Opens(j) \/ Closes(j)
  PROVE  DelShape'
<1>1. ASSUME NEW i \in Deletes, i # j PROVE Shape(i)'
  <2>1. del'[i] = del[i] /\ Shape(i)
    BY <1>1 DEF OtherDels, DelShape
  <2> QED
    BY <2>1 DEF Shape, Open, Targets
<1>2. Shape(j)'
  <2>0. Shape(j)
    BY DEF DelShape
  <2>1. SameDel(j) => Targets(j)' = Targets(j)
    BY DEF SameDel, Targets
  <2>2. CASE Walks(j)
    <3>1. Targets(j)' = Targets(j) /\ Open(j) /\ Open(j)'
      BY <2>1, <2>2 DEF Walks, Stays, Open, SameDel
    <3>2. del'[j].at \in PreDrop \ {"agent"} \/ del'[j].at \in {"next", "project"}
      BY <2>2 DEF Walks, PreDrop
    <3>3. del'[j].at \in PreDrop => del[j].at \in PreDrop
      BY <2>2 DEF Walks, PreDrop
    <3>4. /\ del'[j].at = "tree" => del'[j].app \in del'[j].apps
          /\ del'[j].at = "project" => del'[j].left = {}
          /\ del'[j].at = "wait" => del[j].at = "agent"
      BY <2>2 DEF Walks, Stays
    <3> QED
      BY <2>0, <2>2, <3>1, <3>2, <3>3, <3>4 DEF Shape, Walks, Stays, SameDel
  <2>3. CASE Picks(j)
    <3>1. Targets(j)' = Targets(j) /\ Open(j) /\ Open(j)'
      BY <2>1, <2>3 DEF Picks, Open, SameDel
    <3>2. del'[j].at \in {"processes", "agent"} /\ (del'[j].at = "agent" => ~del[j].sync)
      BY <2>3 DEF Picks
    <3> QED
      BY <2>0, <2>3, <3>1, <3>2 DEF Shape, Picks, SameDel
  <2>4. CASE Opens(j)
    <3>1. /\ Targets(j)' = Targets(j) /\ Open(j) /\ Open(j)'
          /\ del'[j].left \subseteq Targets(j) /\ del'[j].left \subseteq Sessions
          /\ del'[j].cur = NoSession /\ del'[j].status = "running" /\ del'[j].at = "next"
      BY <2>0, <2>4 DEF Opens, Open, Targets, Shape, InProject, Narrow
    <3> QED
      BY <2>0, <2>4, <3>1, DeletionAssumption DEF Shape, Opens, PreDrop
  <2>5. CASE Closes(j)
    BY <2>5 DEF Closes, Shape, Open, Outcomes, PreDrop
  <2> QED
    BY <2>2, <2>3, <2>4, <2>5
<1> QED
  BY <1>1, <1>2 DEF DelShape

-----------------------------------------------------------------------------
\* A deletion only takes away.
Shrinks ==
  /\ sess' \subseteq sess /\ procs' \subseteq procs /\ ckpt' \subseteq ckpt /\ bus' \subseteq bus
  /\ runs' \subseteq runs /\ kept \subseteq kept'
  /\ late \subseteq late' /\ late' \subseteq Sessions
  /\ \A k \in Slugs : /\ row'[k] \in {row[k], NoRow} /\ unit'[k] \in {unit[k], NoUnit}
                      /\ files'[k] \in {files[k], Empty} /\ parked'[k] \in {parked[k], Empty}
  /\ \A s \in Sessions : src'[s] \in {src[s], 0}
  /\ UNCHANGED <<jobVars, req, count, met>>

LEMMA NothingKept ==
  /\ NoRow \in Rows /\ Empty \in Tree /\ Empty \in [Parts -> Nat] /\ NoUnit \in Unit /\ NoRoute \in Fragment
BY DeployAssumption DEF NoRow, Rows, Owners, States, Empty, Tree, NoUnit, Unit, NoRoute, Fragment

LEMMA DeployKept ==
  ASSUME Basis, Narrow, UNCHANGED deployVars
  PROVE  Basis' /\ Narrow'
<1>1. UNCHANGED <<sess, row, svc, files, parked, route, unit, src, built, job, stray, req, met>>
  BY DEF deployVars, appVars, jobVars
<1>2. AppTypes'
  BY <1>1 DEF Basis, AppTypes
<1>3. JobsInv' /\ ActiveMet'
  BY <1>1 DEF Basis, JobsInv, JobInv, ActiveMet, Active, InFlight
<1>4. Narrow'
  BY <1>1 DEF Narrow
<1> QED
  BY <1>2, <1>3, <1>4 DEF Basis

\* What is left keeps its type.
LEMMA TypesShrink ==
  ASSUME Basis, Narrow, UNCHANGED <<job, stray, req, met>>, sess' \subseteq sess, svc' \subseteq svc,
         row' \in [Slugs -> AppRow \cup {NoRow}], row' \in [Slugs -> Rows],
         files' \in [Slugs -> Tree], parked' \in [Slugs -> Tree],
         files' \in [Slugs -> [Parts -> Nat]], parked' \in [Slugs -> [Parts -> Nat]],
         route' \in [Slugs -> Fragment], unit' \in [Slugs -> Unit],
         src' \in [Sessions -> Nat], built' \in [Sessions -> Nat],
         \A s \in Sessions : built'[s] <= src'[s]
  PROVE  Basis' /\ Narrow'
<1>1. AppTypes'
  BY DEF Basis, AppTypes
<1>2. JobsInv' /\ ActiveMet'
  BY DEF Basis, JobsInv, JobInv, ActiveMet, Active, InFlight
<1>3. Narrow'
  BY DEF Narrow
<1> QED
  BY <1>1, <1>2, <1>3 DEF Basis

LEMMA OneSet ==
  ASSUME NEW A, NEW B, NEW f \in [A -> B], NEW k, NEW v \in B
  PROVE  /\ [f EXCEPT ![k] = v] \in [A -> B]
         /\ \A x \in A : [f EXCEPT ![k] = v][x] \in {f[x], v}
OBVIOUS

LEMMA DropKeeps ==
  ASSUME TypesInv, NEW gone, Dropped(gone)
  PROVE  /\ Basis' /\ Narrow' /\ sess' = sess \ gone /\ procs' = procs \ gone
         /\ \A k \in Slugs : row'[k] = (IF row[k].from \in gone THEN NoRow ELSE row[k])
         /\ UNCHANGED <<files, parked, unit, src, job, stray, req, count, met>>
<1>1. /\ UNCHANGED <<svc, files, parked, route, unit, src, built, job, stray, req, count, met>>
      /\ row' = [k \in Slugs |-> IF row[k].from \in gone THEN NoRow ELSE row[k]]
      /\ sess' = sess \ gone /\ procs' = procs \ gone
  BY DEF Dropped, jobVars
<1>2. Basis /\ AppTypes /\ Narrow
  BY DEF TypesInv, Basis
<1>3. row' \in [Slugs -> AppRow \cup {NoRow}] /\ row' \in [Slugs -> Rows]
  BY <1>1, <1>2, NothingKept DEF AppTypes, Narrow
<1>4. Basis' /\ Narrow'
  BY <1>1, <1>2, <1>3, TypesShrink DEF AppTypes, Narrow
<1> QED
  BY <1>1, <1>4

LEMMA Shrinking ==
  ASSUME TypesInv, NEW j \in Deletes, DeleteStep(j)
  PROVE  Shrinks /\ Basis' /\ Narrow'
<1>0. Basis /\ AppTypes /\ Narrow /\ DelTypes /\ late \subseteq Sessions
  BY DEF TypesInv, Basis, DelTypes
<1>1. CASE \/ Begin(j) \/ NextSession(j) \/ CancelAgent(j) \/ AgentAwaited(j) \/ KillProcesses(j)
           \/ ListApps(j) \/ AppsGone(j) \/ DropCheckpoint(j) \/ ClearBus(j)
  <2>1. UNCHANGED deployVars
    BY <1>1 DEF Begin, NextSession, CancelAgent, AgentAwaited, KillProcesses, ListApps, AppsGone,
       DropCheckpoint, ClearBus
  <2>2. /\ procs' \subseteq procs /\ ckpt' \subseteq ckpt /\ bus' \subseteq bus /\ late \subseteq late'
        /\ runs' \subseteq runs /\ kept \subseteq kept'
    BY <1>1 DEF Begin, NextSession, CancelAgent, AgentAwaited, KillProcesses, ListApps, AppsGone,
       DropCheckpoint, ClearBus, Leaves
  <2>3. late' \subseteq Sessions
    <3>1. CASE AgentAwaited(j)
      <4>1. del[j].status = "running" /\ del[j].at = "wait"
        BY <3>1 DEF AgentAwaited
      <4>2. del[j].cur \in Sessions
        BY <4>1 DEF TypesInv, DelShape, Shape, Targets, PreDrop
      <4> QED
        BY <1>0, <3>1, <4>2 DEF AgentAwaited
    <3>2. CASE ~AgentAwaited(j)
      BY <1>0, <1>1, <3>2 DEF Begin, NextSession, CancelAgent, KillProcesses, ListApps, AppsGone,
       DropCheckpoint, ClearBus
    <3> QED
      BY <3>1, <3>2
  <2>4. Basis' /\ Narrow'
    BY <1>0, <2>1, DeployKept
  <2>5. UNCHANGED <<sess, row, unit, files, parked, src, jobVars, req, count, met>>
    BY <2>1 DEF deployVars, appVars
  <2> QED
    BY <2>2, <2>3, <2>4, <2>5 DEF Shrinks
<1>2. ASSUME NEW k \in Slugs, TearDown(j, k) PROVE Shrinks /\ Basis' /\ Narrow'
  <2>1. /\ unit' = unit \/ unit' = [unit EXCEPT ![k] = NoUnit]
        /\ route' = route \/ route' = [route EXCEPT ![k] = NoRoute]
        /\ UNCHANGED <<sess, row, svc, files, parked, src, built, job, stray, req, count, met>>
        /\ UNCHANGED <<procs, runs, ckpt, bus, late, kept>>
    BY <1>2 DEF TearDown, jobVars
  <2>2. unit' \in [Slugs -> Unit] /\ route' \in [Slugs -> Fragment]
    BY <1>0, <2>1, NothingKept DEF Narrow
  <2>3. Basis' /\ Narrow'
    BY <1>0, <2>1, <2>2, TypesShrink DEF AppTypes, Narrow
  <2>4. \A l \in Slugs : unit'[l] \in {unit[l], NoUnit}
    BY <1>0, <2>1 DEF Narrow
  <2> QED
    BY <1>0, <2>1, <2>3, <2>4 DEF Shrinks, jobVars
<1>3. CASE RemoveApp(j)
  <2>1. /\ UNCHANGED <<sess, route, unit, src, built, job, stray, req, count, met>>
        /\ UNCHANGED <<procs, runs, ckpt, bus, kept>> /\ late \subseteq late' /\ late' \subseteq Sessions
    BY <1>0, <1>3 DEF RemoveApp, jobVars
  <2>2. PICK k : \/ /\ files' = [files EXCEPT ![k] = Empty] /\ parked' = [parked EXCEPT ![k] = Empty]
                    /\ svc' = svc \ {k} /\ (row' = [row EXCEPT ![k] = NoRow] \/ row' = row)
                 \/ UNCHANGED <<files, parked, svc, row>>
    BY <1>3 DEF RemoveApp
  <2>a. /\ NoRow \in Rows /\ NoRow \in AppRow \cup {NoRow} /\ Empty \in Tree /\ Empty \in [Parts -> Nat]
        /\ files \in [Slugs -> Tree] /\ parked \in [Slugs -> Tree] /\ files \in [Slugs -> [Parts -> Nat]]
        /\ parked \in [Slugs -> [Parts -> Nat]] /\ row \in [Slugs -> Rows]
        /\ row \in [Slugs -> AppRow \cup {NoRow}]
    BY <1>0, NothingKept DEF AppTypes, Narrow
  <2>b. /\ [files EXCEPT ![k] = Empty] \in [Slugs -> Tree]
        /\ [files EXCEPT ![k] = Empty] \in [Slugs -> [Parts -> Nat]]
        /\ [parked EXCEPT ![k] = Empty] \in [Slugs -> Tree]
        /\ [parked EXCEPT ![k] = Empty] \in [Slugs -> [Parts -> Nat]]
        /\ [row EXCEPT ![k] = NoRow] \in [Slugs -> Rows]
        /\ [row EXCEPT ![k] = NoRow] \in [Slugs -> AppRow \cup {NoRow}]
    <3>1. /\ [files EXCEPT ![k] = Empty] \in [Slugs -> Tree]
          /\ [files EXCEPT ![k] = Empty] \in [Slugs -> [Parts -> Nat]]
      BY <2>a, OneSet
    <3>2. /\ [parked EXCEPT ![k] = Empty] \in [Slugs -> Tree]
          /\ [parked EXCEPT ![k] = Empty] \in [Slugs -> [Parts -> Nat]]
      BY <2>a, OneSet
    <3>3. /\ [row EXCEPT ![k] = NoRow] \in [Slugs -> Rows]
          /\ [row EXCEPT ![k] = NoRow] \in [Slugs -> AppRow \cup {NoRow}]
      BY <2>a, OneSet
    <3> QED
      BY <3>1, <3>2, <3>3
  <2>3. /\ svc' \subseteq svc /\ files' \in [Slugs -> Tree] /\ parked' \in [Slugs -> Tree]
        /\ files' \in [Slugs -> [Parts -> Nat]] /\ parked' \in [Slugs -> [Parts -> Nat]]
    BY <2>a, <2>b, <2>2, Zenon
  <2>4. row' \in [Slugs -> Rows] /\ row' \in [Slugs -> AppRow \cup {NoRow}]
    BY <2>a, <2>b, <2>2, Zenon
  <2>5. \A l \in Slugs : /\ row'[l] \in {row[l], NoRow}
                         /\ files'[l] \in {files[l], Empty} /\ parked'[l] \in {parked[l], Empty}
    BY <1>0, <2>2 DEF AppTypes
  <2>6. Basis' /\ Narrow'
    BY <1>0, <2>1, <2>3, <2>4, TypesShrink DEF AppTypes, Narrow
  <2> QED
    BY <2>1, <2>5, <2>6 DEF Shrinks, jobVars
<1>4. CASE RemoveWorkspace(j)
  <2> DEFINE s == del[j].cur
  <2>1. /\ UNCHANGED <<sess, row, svc, files, parked, route, unit, job, stray, req, count, met>>
        /\ UNCHANGED <<procs, runs, ckpt, bus, late>> /\ kept \subseteq kept'
        /\ \/ UNCHANGED <<src, built>>
           \/ src' = [src EXCEPT ![s] = 0] /\ built' = [built EXCEPT ![s] = 0]
    BY <1>4 DEF RemoveWorkspace, Leaves, appVars, jobVars
  <2>2. /\ src' \in [Sessions -> Nat] /\ built' \in [Sessions -> Nat]
        /\ \A t \in Sessions : src'[t] \in {src[t], 0} /\ built'[t] <= src'[t]
    <3>1. /\ src \in [Sessions -> Nat] /\ built \in [Sessions -> Nat]
          /\ \A t \in Sessions : built[t] <= src[t]
      BY <1>0 DEF AppTypes, Narrow
    <3> QED
      BY <2>1, <3>1
  <2>3. Basis' /\ Narrow'
    BY <1>0, <2>1, <2>2, TypesShrink DEF AppTypes, Narrow
  <2> QED
    BY <1>0, <2>1, <2>2, <2>3 DEF Shrinks, jobVars
<1>5. CASE DropRows(j) \/ DropProject(j)
  <2>1. UNCHANGED <<runs, ckpt, bus, kept, late>>
    BY <1>5 DEF DropRows, DropProject
  <2>2. UNCHANGED <<deployVars, procs>> \/ (\E gone : Dropped(gone))
    BY <1>5 DEF DropRows, DropProject
  <2>3. CASE UNCHANGED <<deployVars, procs>>
    <3>1. UNCHANGED <<sess, row, unit, files, parked, src, jobVars, req, count, met>>
      BY <2>3 DEF deployVars, appVars
    <3> QED
      BY <1>0, <2>1, <2>3, <3>1, DeployKept DEF Shrinks
  <2>4. CASE \E gone : Dropped(gone)
    <3>1. PICK gone : Dropped(gone)
      BY <2>4
    <3>2. /\ Basis' /\ Narrow' /\ sess' = sess \ gone /\ procs' = procs \ gone
          /\ \A k \in Slugs : row'[k] = (IF row[k].from \in gone THEN NoRow ELSE row[k])
          /\ UNCHANGED <<files, parked, unit, src, job, stray, req, count, met>>
      BY <3>1, DropKeeps
    <3> QED
      BY <1>0, <2>1, <3>2 DEF Shrinks, jobVars
  <2> QED
    BY <2>2, <2>3, <2>4
<1> QED
  BY <1>1, <1>2, <1>3, <1>4, <1>5 DEF DeleteStep

-----------------------------------------------------------------------------
\* What else happens.
Works ==
  (OnLoop \/ InThread) /\ Beside /\ UNCHANGED <<projects, turn, procs, runs, kept, ckpt, bus, del, loop, posts>>

LEMMA WorksIs ==
  ASSUME Works
  PROVE  DeployNext /\ moved' \subseteq moved \cup Deploys /\ late \subseteq late' /\ late' \subseteq late \cup Sessions
BY DEF Works, OnLoop, InThread, Beside, DeployNext, JobStep

Asks(j, s) == \E project, sync \in BOOLEAN : AskDeletion(j, s, project, sync)

LEMMA Steps ==
  DeletionNext => \/ \E s \in Sessions : Post(s) \/ TurnWorks(s) \/ TurnEnds(s)
                  \/ \E j \in Deletes, s \in Sessions : Asks(j, s)
                  \/ \E j \in Deletes : AskCancel(j)
                  \/ \E j \in Deletes : DeleteStep(j)
                  \/ Works \/ Crash
BY DEF DeletionNext, Works, Asks

\* Steps of apps, of a deletion, and of nothing but turns and jobs.
LEMMA CalmSteps ==
  /\ Works \/ Crash => DeployNext
  /\ (\E s \in Sessions : Post(s) \/ TurnWorks(s) \/ TurnEnds(s)) => UNCHANGED deployVars
  /\ (\E j \in Deletes, s \in Sessions : Asks(j, s)) => UNCHANGED deployVars
  /\ (\E j \in Deletes : AskCancel(j)) => UNCHANGED deployVars
<1>1. Crash => DeployNext
  BY DEF Crash, DeployNext
<1>2. Works => DeployNext
  BY WorksIs
<1>3. ASSUME NEW j, NEW s, Asks(j, s) PROVE UNCHANGED deployVars
  BY <1>3 DEF Asks, AskDeletion
<1>4. ASSUME NEW s, Post(s) \/ TurnWorks(s) \/ TurnEnds(s) PROVE UNCHANGED deployVars
  BY <1>4 DEF Post, TurnWorks, TurnEnds
<1>5. ASSUME NEW j, AskCancel(j) PROVE UNCHANGED deployVars
  BY <1>5 DEF AskCancel
<1> QED
  BY <1>1, <1>2, <1>3, <1>4, <1>5

LEMMA DelsKept ==
  ASSUME DelShape, UNCHANGED del
  PROVE  DelShape'
BY DEF DelShape, Shape, Open, Targets

TurnStates == {"none", "running", "cancelling", "zombie"}

LEMMA AskedFor ==
  ASSUME TypesInv, NEW j \in Deletes, NEW s \in Sessions, Asks(j, s)
  PROVE  /\ OtherDels(j) /\ del[j] = NoDel /\ DelShape' /\ s \in sess
         /\ del'[j].target = s /\ del'[j].cur = NoSession /\ del'[j].swallowed = FALSE
         /\ del'[j].left = (IF del'[j].project THEN InProject(ProjectOf[s]) ELSE {s})
         /\ \/ del'[j].status = "running" /\ del'[j].at = "next"
            \/ del'[j].status = "pending" /\ del'[j].at = "none"
         /\ late' = late \cup {t \in del'[j].left : turn[t] # "none" \/ Under(t)
                                  \/ \E d \in Deploys : Active(d) /\ job[d].from = t}
         /\ turn' \in [Sessions -> TurnStates]
         /\ \A t \in Sessions : turn'[t] = turn[t] \/ (turn[t] = "running" /\ turn'[t] = "cancelling")
         /\ bus' \in {bus, bus \cup {s}}
         /\ UNCHANGED <<deployVars, projects, procs, runs, kept, ckpt, loop, moved, posts>>
<1>p. PICK project \in BOOLEAN, sync \in BOOLEAN : AskDeletion(j, s, project, sync)
  BY DEF Asks
<1> DEFINE all == IF project THEN InProject(ProjectOf[s]) ELSE {s}
           c == [NoDel EXCEPT !.status = IF sync THEN "running" ELSE "pending",
                              !.at = IF sync THEN "next" ELSE "none", !.sync = sync,
                              !.project = project, !.target = s, !.left = all]
<1>0. DelTypes /\ DelShape /\ Narrow
  BY DEF TypesInv
<1>1. /\ del[j] = NoDel /\ s \in sess /\ del' = [del EXCEPT ![j] = c]
      /\ late' = late \cup {t \in all : turn[t] # "none" \/ Under(t)
                              \/ \E d \in Deploys : Active(d) /\ job[d].from = t}
      /\ turn' = [t \in Sessions |-> IF t \in all /\ (project \/ sync) /\ turn[t] = "running"
                                     THEN "cancelling" ELSE turn[t]]
      /\ bus' \in {bus, bus \cup {s}}
      /\ UNCHANGED <<deployVars, projects, procs, runs, kept, ckpt, loop, moved, posts>>
  BY <1>p DEF AskDeletion
<1>2. all \in SUBSET Sessions /\ \A t \in all : (IF project THEN ProjectOf[t] = ProjectOf[s] ELSE t = s)
  BY <1>0, <1>1 DEF InProject, Narrow
<1> HIDE DEF all
<1>3. NoDel \in Dels /\ NoDel.swallowed = FALSE /\ NoDel.status = "none"
  BY DEF NoDel, Dels, Ats
<1>4. /\ c \in Dels /\ c.status = (IF sync THEN "running" ELSE "pending") /\ (c.sync <=> sync)
      /\ (c.project <=> project) /\ c.target = s /\ c.left = all /\ c.cur = NoSession
      /\ c.at = (IF sync THEN "next" ELSE "none") /\ c.swallowed = FALSE
  BY <1>2, <1>3 DEF Dels, Ats, NoDel
<1> HIDE DEF c
<1>5. OtherDels(j) /\ del'[j] = c
  BY <1>0, <1>1, <1>3, <1>4, DelSet
<1>6. ASSUME NEW i \in Deletes, i # j PROVE Shape(i)'
  <2>1. del'[i] = del[i] /\ Shape(i)
    BY <1>0, <1>5, <1>6 DEF OtherDels, DelShape
  <2> QED
    BY <2>1 DEF Shape, Open, Targets
<1>7. Shape(j)'
  <2>1. Targets(j)' = {t \in Sessions : IF project THEN ProjectOf[t] = ProjectOf[s] ELSE t = s}
    BY <1>4, <1>5 DEF Targets
  <2>2. del'[j].left \subseteq Targets(j)' /\ del'[j].cur \notin del'[j].left
    BY <1>2, <1>4, <1>5, <2>1, DeletionAssumption
  <2> QED
    BY <1>4, <1>5, <2>2 DEF Shape, PreDrop
<1>8. all = (IF del'[j].project THEN InProject(ProjectOf[s]) ELSE {s})
  BY <1>4, <1>5 DEF all
<1>9. /\ turn' \in [Sessions -> TurnStates]
      /\ \A t \in Sessions : turn'[t] = turn[t] \/ (turn[t] = "running" /\ turn'[t] = "cancelling")
  BY <1>0, <1>1 DEF DelTypes, TurnStates
<1>10. /\ del'[j].target = s /\ del'[j].cur = NoSession /\ del'[j].left = all
       /\ \/ del'[j].status = "running" /\ del'[j].at = "next"
          \/ del'[j].status = "pending" /\ del'[j].at = "none"
  BY <1>4, <1>5
<1>11. DelShape'
  BY <1>6, <1>7 DEF DelShape
<1>12. del'[j].swallowed = FALSE
  BY <1>4, <1>5
<1> QED
  BY <1>1, <1>5, <1>8, <1>9, <1>10, <1>11, <1>12

LEMMA AskedToCancel ==
  ASSUME DelTypes, DelShape, NEW j \in Deletes, AskCancel(j)
  PROVE  /\ OtherDels(j) /\ Stays(j) /\ Steady(j) /\ del'[j].at = del[j].at /\ DelShape'
         /\ UNCHANGED <<deployVars, projects, turn, procs, runs, kept, ckpt, bus, loop, moved, posts, late>>
         /\ del'[j].swallowed = del[j].swallowed
<1> DEFINE c == [del[j] EXCEPT !.cancel = TRUE]
<1>1. del' = [del EXCEPT ![j] = c] /\ del[j] \in Dels
  BY DEF AskCancel, DelTypes
<1>2. /\ c \in Dels /\ c.status = del[j].status /\ c.sync = del[j].sync /\ c.project = del[j].project
      /\ c.target = del[j].target /\ c.left = del[j].left /\ c.cur = del[j].cur /\ c.apps = del[j].apps
      /\ c.app = del[j].app /\ c.swallowed = del[j].swallowed /\ c.at = del[j].at
  BY <1>1 DEF Dels
<1> HIDE DEF c
<1>3. OtherDels(j) /\ del'[j] = c
  BY <1>1, <1>2, DelSet
<1>4. Stays(j) /\ Steady(j) /\ del'[j].at = del[j].at /\ del'[j].swallowed = del[j].swallowed
  BY <1>2, <1>3 DEF Stays, SameDel, Steady
<1>5. ASSUME NEW i \in Deletes PROVE Shape(i)'
  <2>1. Shape(i)
    BY DEF DelShape
  <2>2. CASE i # j
    <3>1. del'[i] = del[i]
      BY <1>3, <2>2 DEF OtherDels
    <3> QED
      BY <2>1, <3>1 DEF Shape, Open, Targets
  <2>3. CASE i = j
    BY <1>4, <2>1, <2>3 DEF Shape, Open, Targets, Stays, SameDel, Steady
  <2> QED
    BY <2>2, <2>3
<1> QED
  BY <1>3, <1>4, <1>5 DEF DelShape, AskCancel

\* What a restart leaves of deletions.
LEMMA Crashes ==
  ASSUME DelTypes, Crash
  PROVE  /\ \A j \in Deletes : /\ del'[j].status \in {"none", "lost"} /\ del'[j].at = "none"
                               /\ ~del'[j].swallowed
         /\ del' \in [Deletes -> Dels]
<1>1. NoDel \in Dels /\ NoDel.status = "none" /\ NoDel.at = "none" /\ ~NoDel.swallowed
  BY DEF NoDel, Dels, Ats
<1> DEFINE c == [NoDel EXCEPT !.status = "lost"]
<1>2. c \in Dels /\ c.status = "lost" /\ c.at = "none" /\ ~c.swallowed
  BY DEF NoDel, Dels, Ats, Outcomes
<1>3. del' = [j \in Deletes |-> IF del[j] = NoDel THEN NoDel ELSE c]
  BY DEF Crash
<1> HIDE DEF c
<1> QED
  BY <1>1, <1>2, <1>3

\* The processes of a session that is left are its own.
LEMMA ProcessesShrink ==
  ASSUME TypesInv, NEW j \in Deletes, DeleteStep(j)
  PROVE  procs' \subseteq sess' /\ \A s \in sess' : ProjectOf[s] \in projects'
<1>0. procs \subseteq sess /\ \A s \in sess : ProjectOf[s] \in projects
  BY DEF TypesInv, DelTypes
<1>1. CASE DropRows(j) \/ DropProject(j)
  <2>1. CASE UNCHANGED <<sess, procs, projects>>
    BY <1>0, <2>1
  <2>2. CASE \E gone : Dropped(gone) /\ UNCHANGED projects
    BY <1>0, <2>2 DEF Dropped
  <2>3. CASE \E p : Dropped(InProject(p)) /\ projects' = projects \ {p}
    <3>1. PICK p : Dropped(InProject(p)) /\ projects' = projects \ {p}
      BY <2>3
    <3>2. sess' = sess \ InProject(p) /\ procs' = procs \ InProject(p)
      BY <3>1 DEF Dropped
    <3> QED
      BY <1>0, <3>1, <3>2 DEF InProject
  <2> QED
    BY <1>1, <2>1, <2>2, <2>3 DEF DropRows, DropProject, deployVars
<1>2. CASE ~DropRows(j) /\ ~DropProject(j)
  <2>1. UNCHANGED <<sess, projects>> /\ procs' \subseteq procs
    BY <1>2 DEF DeleteStep, Begin, NextSession, CancelAgent, AgentAwaited, KillProcesses, ListApps, TearDown,
       RemoveApp, AppsGone, RemoveWorkspace, DropCheckpoint, ClearBus, deployVars
  <2> QED
    BY <1>0, <2>1
<1> QED
  BY <1>1, <1>2

LEMMA TurnStays ==
  ASSUME TypesInv, NEW j \in Deletes, DeleteStep(j)
  PROVE  /\ turn' \in [Sessions -> TurnStates]
         /\ \A s \in Sessions : turn'[s] = turn[s] \/ (turn[s] = "running" /\ turn'[s] = "cancelling")
<1>0. turn \in [Sessions -> TurnStates]
  BY DEF TypesInv, DelTypes, TurnStates
<1>1. UNCHANGED turn \/ turn' = Cancelled(turn, del[j].cur)
  BY DEF DeleteStep, Begin, NextSession, CancelAgent, AgentAwaited, KillProcesses, ListApps, TearDown,
       RemoveApp, AppsGone, RemoveWorkspace, DropCheckpoint, ClearBus, DropRows, DropProject
<1> QED
  BY <1>0, <1>1 DEF Cancelled, TurnStates

\* What a removal leaves is of the session it was for.
LEMMA KeptGrows ==
  ASSUME TypesInv, NEW j \in Deletes, DeleteStep(j)
  PROVE  kept' \subseteq kept \cup ({"process", "workspace", "checkpoint"} \X Sessions)
<1>1. CASE KillProcesses(j) \/ RemoveWorkspace(j) \/ DropCheckpoint(j)
  <2>1. del[j].status = "running" /\ del[j].at \in {"processes", "workspace", "checkpoint"}
    BY <1>1 DEF KillProcesses, RemoveWorkspace, DropCheckpoint, At
  <2>2. del[j].cur \in Sessions
    BY <2>1 DEF TypesInv, DelShape, Shape, Targets, PreDrop
  <2> QED
    BY <1>1, <2>2 DEF KillProcesses, RemoveWorkspace, DropCheckpoint, Leaves
<1>2. CASE ~(KillProcesses(j) \/ RemoveWorkspace(j) \/ DropCheckpoint(j))
  <2>1. UNCHANGED kept
    BY <1>2 DEF DeleteStep, Begin, NextSession, CancelAgent, AgentAwaited, ListApps, TearDown,
       RemoveApp, AppsGone, ClearBus, DropRows, DropProject
  <2> QED
    BY <2>1
<1> QED
  BY <1>1, <1>2

\* The types of what a deletion reads and writes stay.
LEMMA TypesStay ==
  ASSUME TypesInv, DeletionNext
  PROVE  TypesInv'
<1>0. Basis /\ AppTypes /\ JobsInv /\ Narrow /\ DelTypes /\ DelShape
  BY DEF TypesInv, Basis
<1>1. ASSUME NEW s \in Sessions, Post(s) \/ TurnWorks(s) \/ TurnEnds(s) PROVE TypesInv'
  <2>1. UNCHANGED <<deployVars, projects, del, loop, moved>>
    BY <1>1 DEF Post, TurnWorks, TurnEnds, Unmoved
  <2>2. /\ Basis' /\ Narrow' /\ DelShape' /\ sess' = sess
    BY <1>0, <2>1, DeployKept, DelsKept DEF deployVars
  <2>3. turn' \in [Sessions -> TurnStates]
    BY <1>0, <1>1 DEF Post, TurnWorks, TurnEnds, DelTypes, TurnStates
  <2>4. /\ procs' \subseteq sess /\ ckpt' \subseteq Sessions /\ bus' \subseteq Sessions /\ late' \subseteq Sessions
        /\ runs' \subseteq Sessions /\ kept' = kept
    BY <1>0, <1>1 DEF Post, TurnWorks, TurnEnds, Unmoved, Late, DelTypes
  <2>5. DelTypes'
    BY <1>0, <2>1, <2>2, <2>3, <2>4 DEF DelTypes, TurnStates
  <2> QED
    BY <2>2, <2>5 DEF TypesInv
<1>2. ASSUME NEW j \in Deletes, NEW s \in Sessions, Asks(j, s) PROVE TypesInv'
  <2>1. /\ UNCHANGED <<deployVars, projects, procs, runs, kept, ckpt, loop, moved>>
        /\ OtherDels(j) /\ del[j] = NoDel /\ DelShape' /\ turn' \in [Sessions -> TurnStates]
    BY <1>2, AskedFor
  <2>2. Basis' /\ Narrow' /\ sess' = sess
    BY <1>0, <2>1, DeployKept DEF deployVars
  <2>4. bus' \subseteq Sessions /\ late' \subseteq Sessions
    <3>1. del'[j] \in Dels
      BY <2>1 DEF OtherDels
    <3>2. /\ \E all \in SUBSET del'[j].left : late' = late \cup all
          /\ bus' \in {bus, bus \cup {s}}
      BY <1>2, AskedFor
    <3> QED
      BY <1>0, <3>1, <3>2 DEF DelTypes, Dels
  <2>5. loop' # 0 => del'[loop'].status = "running" /\ ~del'[loop'].sync
    <3>1. loop # j
      BY <1>0, <2>1 DEF DelTypes, NoDel, Deletes
    <3> QED
      BY <1>0, <2>1, <3>1 DEF DelTypes, OtherDels
  <2>6. DelTypes'
    BY <1>0, <2>1, <2>2, <2>4, <2>5 DEF DelTypes, TurnStates, OtherDels
  <2> QED
    BY <2>1, <2>2, <2>6 DEF TypesInv
<1>3. ASSUME NEW j \in Deletes, AskCancel(j) PROVE TypesInv'
  <2>1. /\ UNCHANGED <<deployVars, projects, turn, procs, runs, kept, ckpt, bus, loop, moved, late>>
        /\ OtherDels(j) /\ SameDel(j) /\ DelShape'
    BY <1>0, <1>3, AskedToCancel DEF Stays
  <2>2. Basis' /\ Narrow' /\ sess' = sess
    BY <1>0, <2>1, DeployKept DEF deployVars
  <2>3. loop' # 0 => del'[loop'].status = "running" /\ ~del'[loop'].sync
    BY <1>0, <2>1 DEF DelTypes, OtherDels, SameDel
  <2>4. DelTypes'
    BY <1>0, <2>1, <2>2, <2>3 DEF DelTypes, OtherDels
  <2> QED
    BY <2>1, <2>2, <2>4 DEF TypesInv
<1>4. ASSUME NEW j \in Deletes, DeleteStep(j) PROVE TypesInv'
  <2>1. /\ OtherDels(j) /\ (Walks(j) \/ Picks(j) \/ Opens(j) \/ Closes(j))
        /\ loop' \in {loop, 0, j} /\ moved' \in {moved, {}}
        /\ loop' = j /\ loop' # loop => del'[j].status = "running" /\ ~del'[j].sync
        /\ Closes(j) => loop' # j
    BY <1>0, <1>4, DelSteps
  <2>2. DelShape'
    BY <1>0, <2>1, ShapeAfter
  <2>3. Shrinks /\ Basis' /\ Narrow'
    BY <1>4, Shrinking
  <2>4. /\ procs' \subseteq sess' /\ (\A s \in sess' : ProjectOf[s] \in projects')
        /\ turn' \in [Sessions -> TurnStates]
    BY <1>4, ProcessesShrink, TurnStays
  <2>7. kept' \subseteq {"process", "workspace", "checkpoint"} \X Sessions
    BY <1>0, <1>4, KeptGrows DEF DelTypes
  <2>5. loop' # 0 => del'[loop'].status = "running" /\ ~del'[loop'].sync
    <3>1. loop = j => ~del[j].sync
      BY <1>0 DEF DelTypes, Deletes
    <3>2. CASE loop' = j /\ loop' = loop
      <4>1. Walks(j) \/ Picks(j) \/ Opens(j)
        BY <2>1, <3>2
      <4> QED
        BY <3>1, <3>2, <4>1 DEF Walks, Picks, Opens, Stays, SameDel
    <3>3. CASE loop' = loop /\ loop # j
      BY <1>0, <2>1, <3>3 DEF DelTypes, OtherDels
    <3> QED
      BY <2>1, <3>2, <3>3
  <2>6. DelTypes'
    BY <1>0, <2>1, <2>3, <2>4, <2>5, <2>7 DEF DelTypes, TurnStates, OtherDels, Shrinks
  <2> QED
    BY <2>2, <2>3, <2>6 DEF TypesInv
<1>5. ASSUME Works PROVE TypesInv'
  <2>1. /\ DeployNext /\ moved' \subseteq Deploys /\ late' \subseteq Sessions
        /\ UNCHANGED <<projects, turn, procs, runs, kept, ckpt, bus, del, loop>>
    BY <1>0, <1>5, WorksIs DEF DelTypes, Works
  <2>2. Basis' /\ Narrow' /\ DelShape'
    BY <1>0, <2>1, BasisStays, NarrowStays, DelsKept
  <2>3. sess' = sess
    BY <2>1, SessionsStay
  <2>4. DelTypes'
    BY <1>0, <2>1, <2>3 DEF DelTypes
  <2> QED
    BY <2>2, <2>4 DEF TypesInv
<1>6. CASE Crash
  <2>1. /\ \A j \in Deletes : del'[j].status \in {"none", "lost"} /\ del'[j].at = "none"
        /\ del' \in [Deletes -> Dels]
    BY <1>0, <1>6, Crashes
  <2>2. DeployNext /\ sess' = sess
    BY <1>6 DEF Crash, DeployNext, Restart
  <2>3. Basis' /\ Narrow'
    BY <1>0, <2>2, BasisStays, NarrowStays
  <2>4. DelShape'
    BY <2>1 DEF DelShape, Shape, Open, PreDrop
  <2>5. /\ turn' \in [Sessions -> TurnStates] /\ bus' = {} /\ loop' = 0 /\ moved' = {}
        /\ UNCHANGED <<projects, procs, runs, kept, ckpt>> /\ late' \subseteq Sessions
    BY <1>0, <1>6 DEF Crash, TurnStates, DelTypes
  <2>6. DelTypes'
    BY <1>0, <2>1, <2>2, <2>5 DEF DelTypes, TurnStates
  <2> QED
    BY <2>3, <2>4, <2>6 DEF TypesInv
<1> QED
  BY <1>1, <1>2, <1>3, <1>4, <1>5, <1>6, Steps

LEMMA TypesKept ==
  ASSUME TypesInv, UNCHANGED deletionVars
  PROVE  TypesInv'
<1>1. UNCHANGED deployVars /\ UNCHANGED <<projects, turn, procs, runs, kept, ckpt, bus, del, loop, moved, late>>
  BY DEF deletionVars, delVars
<1>2. Basis' /\ Narrow' /\ DelShape' /\ sess' = sess
  BY <1>1, DeployKept, DelsKept DEF TypesInv, deployVars
<1>3. DelTypes'
  BY <1>1, <1>2 DEF TypesInv, DelTypes
<1> QED
  BY <1>2, <1>3 DEF TypesInv

LEMMA TypesInitially == DeletionInit => TypesInv
<1> SUFFICES ASSUME DeletionInit PROVE TypesInv
  OBVIOUS
<1>1. DeployInit
  BY DEF DeletionInit
<1>2. Basis
  BY <1>1, AppInitially DEF AppInv, Basis
<1>3. Narrow
  <2>1. NoJob.port = 0 /\ NoJob.was = NoRow /\ NumPorts \in Nat
    BY DeployAssumption DEF NoJob
  <2> QED
    BY <1>1, <2>1, NothingKept DEF DeployInit, Narrow, Fragment
<1>4. NoDel \in Dels /\ NoDel.status = "none" /\ NoDel.at = "none"
  BY DEF NoDel, Dels, Ats
<1>5. DelTypes
  BY <1>1, <1>4 DEF DeletionInit, DelTypes, DeployInit
<1>6. DelShape
  BY <1>4 DEF DeletionInit, DelShape, Shape, Open, PreDrop
<1> QED
  BY <1>2, <1>3, <1>5, <1>6 DEF TypesInv

\* Every reachable state has its types: of deployed apps, of turns and of deletions, each of
\* which is where its kind and its target allow.
THEOREM TypesInvariant == DeletionSpec => []TypesInv
<1> QED
  BY TypesInitially, TypesStay, TypesKept, PTL DEF DeletionSpec

\* DeletionTypeOK, of deletions beside deploys, requests and turns (app.py _run_delete_job).
THEOREM DeletionTypesHold == DeletionSpec => []DeletionTypeOK
<1>1. ASSUME TypesInv PROVE DeletionTypeOK
  <2>1. DeployTypeOK
    <3>1. \A d \in Deploys : job[d] \in Jobs
      BY <1>1 DEF TypesInv, Basis, AppTypes
    <3> QED
      BY <1>1, <3>1 DEF TypesInv, Basis, Narrow, AppTypes, DeployTypeOK, Unit, Fragment, Jobs
  <2>2. \A j \in Deletes : del[j].left \subseteq Sessions /\ del[j].apps \subseteq Slugs
    BY <1>1 DEF TypesInv, DelTypes, Dels
  <2> QED
    BY <1>1, <2>1, <2>2 DEF TypesInv, DelTypes, DeletionTypeOK
<1> QED
  BY <1>1, TypesInvariant, PTL

-----------------------------------------------------------------------------
(***************************************************************************)
(* That nothing is left.  The author of something is lapsed when he is still  *)
(* at work, or when his session is known to have been worked on meanwhile.    *)
(***************************************************************************)
Lapsed(d) == Active(d) \/ job[d].from \in late
Ashes(k)  == \A d \in Authors(k) \ {0} : Lapsed(d)
Smooth    == \A j \in Deletes : ~del[j].swallowed
Running(j) == del[j].status = "running"

\* What is there for a slug was written by jobs for it.
AuthorsOwn ==
  \A k \in Slugs : \A d \in Authors(k) \ {0} : d \in Deploys /\ job[d] # NoJob /\ job[d].slug = k

RowsLive   == \A k \in Slugs : Has(k) => row[k].from \in sess
StraysLate == \A d \in Deploys : stray[d] # "none" => job[d].from \in late

\* Nothing works any more for a session that is gone or being deleted.
Quiet ==
  \A s \in Sessions \ late :
    s \notin sess \/ Under(s) => turn[s] = "none" /\ \A d \in Deploys : job[d].from = s => ~Active(d)

\* Where there is no row, all that is left was written by who is lapsed.
Rowless == Smooth => \A k \in Slugs : ~Has(k) => Ashes(k)

\* The sessions a deletion is done with, up to some step.
BusDone  == {"rows", "next", "project"}
CkptDone == {"bus"} \cup BusDone
SrcDone  == {"checkpoint"} \cup CkptDone
AppsDone == {"workspace"} \cup SrcDone
KillDone == {"list", "apps", "tree"} \cup AppsDone
Done(j, steps) ==
  (Targets(j) \ (del[j].left \cup {del[j].cur})) \cup (IF del[j].at \in steps THEN {del[j].cur} ELSE {})

\* The apps it is done with.
Cleared(j, k) ==
  \/ row[k].from \in Done(j, AppsDone)
  \/ del[j].at \in {"apps", "tree"} /\ row[k].from = del[j].cur /\ k \notin del[j].apps

\* The unit of the app it is at.
UnitDown(j) ==
  LET k == del[j].app IN
  del[j].at = "tree" /\ row[k].from = del[j].cur /\ unit[k].by # 0 => Lapsed(unit[k].by)

AppsCleared ==
  Smooth => \A j \in Deletes : Running(j) => UnitDown(j) /\ \A k \in Slugs : Cleared(j, k) => Ashes(k)

\* What is left of session s in one respect is what its own removal has left.
Killed(s)   == s \in runs => <<"process", s>> \in kept
Unworked(s) == src[s] # 0 => <<"workspace", s>> \in kept
Dropt(s)    == s \in ckpt => <<"checkpoint", s>> \in kept

\* A process of a session that nobody else works on is registered, or was told to end.
Registered == \A s \in sess \ late : s \in procs \/ Killed(s)

Emptied(j, s) ==
  /\ s \in Done(j, KillDone) => Killed(s)
  /\ s \in Done(j, SrcDone) => Unworked(s)
  /\ s \in Done(j, CkptDone) => Dropt(s)
  /\ s \in Done(j, BusDone) => s \notin bus
Purged == \A j \in Deletes : Running(j) => \A s \in Targets(j) \cap (sess \ late) : Emptied(j, s)

Gone == \A s \in Sessions \ (sess \cup late) : s \notin bus /\ Killed(s) /\ Unworked(s) /\ Dropt(s)

TraceInv ==
  /\ TypesInv /\ AuthorsOwn /\ RowsLive /\ StraysLate /\ Quiet
  /\ Rowless /\ AppsCleared /\ Registered /\ Purged /\ Gone

-----------------------------------------------------------------------------
\* Who writes for a slug.
LEMMA AuthorsAre ==
  ASSUME NEW k \in Slugs, NEW d
  PROVE  /\ d \in Authors(k) <=> (\E p \in Parts : d = files[k][p] \/ d = parked[k][p]) \/ d = unit[k].by
         /\ d \in Authors(k)' <=> (\E p \in Parts : d = files'[k][p] \/ d = parked'[k][p]) \/ d = unit'[k].by
BY DEF Authors

LEMMA AuthorsChange ==
  ASSUME AppTypes, JobsInv, Narrow, DeployNext, NEW k \in Slugs, NEW d \in Authors(k)', d # 0
  PROVE  d \in Authors(k) \/ (d \in Deploys /\ Active(d) /\ job[d].slug = k)
<1>1. CASE d = unit'[k].by
  <2>1. unit'[k].by \in {0, unit[k].by} \/ \E e \in Deploys : Active(e) /\ job[e].slug = k /\ unit'[k].by = e
    BY UnitsChange
  <2> QED
    BY <1>1, <2>1, AuthorsAre
<1>2. ASSUME NEW p \in Parts, d = files'[k][p] \/ d = parked'[k][p]
      PROVE  d \in Authors(k) \/ (d \in Deploys /\ Active(d) /\ job[d].slug = k)
  <2>1. \/ d \in {0, files[k][p], parked[k][p]}
        \/ \E e \in Deploys : Active(e) /\ job[e].slug = k /\ d = e
    BY <1>2, TreesChange DEF Unparked, Moved
  <2> QED
    BY <2>1, AuthorsAre
<1> QED
  BY <1>1, <1>2, AuthorsAre

LEMMA AuthorsFade ==
  ASSUME Shrinks, NEW k \in Slugs, NEW d \in Authors(k)', d # 0
  PROVE  d \in Authors(k)
<1>1. \A p \in Parts : /\ files'[k][p] \in {files[k][p], 0} /\ parked'[k][p] \in {parked[k][p], 0}
  BY DEF Shrinks, Empty
<1>2. unit'[k].by \in {unit[k].by, 0}
  BY DEF Shrinks, NoUnit
<1> QED
  BY <1>1, <1>2, AuthorsAre

\* A job of a session stays one.
LEMMA ActiveIs ==
  ASSUME JobsInv, NEW d \in Deploys, Active(d)
  PROVE  job[d] # NoJob
<1>1. CASE InFlight(d)
  BY <1>1 DEF InFlight, NoJob
<1>2. CASE stray[d] # "none"
  BY <1>2 DEF JobsInv, JobInv
<1> QED
  BY <1>1, <1>2 DEF Active

LEMMA JobStays ==
  ASSUME AppTypes, JobsInv, DeployNext, NEW d \in Deploys, job[d] # NoJob
  PROVE  job'[d] # NoJob /\ job'[d].slug = job[d].slug /\ job'[d].from = job[d].from
BY JobsChange DEF Turn, Same, New

\* How a job that is under way ends.
LEMMA JobEnds ==
  ASSUME JobsInv, AppTypes, OnLoop \/ InThread, NEW d \in Deploys, InFlight(d), ~InFlight(d)'
  PROVE  job'[d].status \in {"failed", "cancelled"} \/ Has(job[d].slug)
<1>0. job[d] # NoJob /\ job \in [Deploys -> Jobs]
  BY DEF InFlight, NoJob, AppTypes
<1>1. job' # job
  BY DEF InFlight
<1>2. ASSUME NEW e \in Deploys, NEW status \in {"failed", "cancelled"}, RollBack(e, status)
      PROVE  job'[d].status \in {"failed", "cancelled"}
  <2>1. job' = [job EXCEPT ![e] = Closed(job[e], status)]
    BY <1>2 DEF RollBack
  <2>2. e = d
    BY <1>0, <2>1 DEF InFlight
  <2>3. Closed(job[e], status).status = status
    BY <1>0 DEF Closed, Jobs
  <2> QED
    BY <1>0, <2>1, <2>2, <2>3
<1>3. ASSUME NEW e \in Deploys, NEW c, job' = [job EXCEPT ![e] = c], job[e].status = c.status
      PROVE  FALSE
  BY <1>0, <1>3 DEF InFlight
<1>4. ASSUME NEW e \in Deploys, Operate(e) \/ Prepare(e) \/ StartFails(e) \/ RecordRow(e), ~RollBack(e, "failed")
      PROVE  FALSE
  <2>1. job[e] \in Jobs
    BY <1>0
  <2>2. PICK c : job' = [job EXCEPT ![e] = c] /\ job[e].status = c.status
    <3>1. CASE Operate(e)
      <4> DEFINE v == IF job[e].at = "copy" THEN built[job[e].from] ELSE job[e].ver
                 c(p) == [job[e] EXCEPT !.at = After(job[e].at, job[e].full), !.port = p, !.ver = v]
      <4>1. PICK p : job' = [job EXCEPT ![e] = c(p)]
        BY <1>0, <3>1 DEF Operate
      <4>2. c(p).status = job[e].status
        BY <2>1 DEF Jobs
      <4> HIDE DEF c
      <4> QED
        BY <4>1, <4>2
    <3>2. CASE RecordRow(e)
      <4> DEFINE o == row'[job[e].slug].owner
                 c == [job[e] EXCEPT !.at = "regen", !.owner = o]
      <4>1. job' = [job EXCEPT ![e].at = "regen", ![e].owner = o]
        BY <1>4, <3>2, Zenon DEF RecordRow
      <4> HIDE DEF o
      <4>2. job' = [job EXCEPT ![e] = c]
        BY <1>0, <4>1
      <4>3. c.status = job[e].status
        BY <2>1 DEF Jobs
      <4> QED
        BY <4>2, <4>3
    <3>3. CASE Prepare(e) \/ StartFails(e)
      <4> DEFINE a == After(job[e].at, job[e].full)
                 c == [job[e] EXCEPT !.at = a]
      <4>1. job' = [job EXCEPT ![e].at = a]
        BY <1>4, <3>3, Zenon DEF Prepare, StartFails, Advance
      <4> HIDE DEF a
      <4>2. job' = [job EXCEPT ![e] = c]
        BY <1>0, <4>1
      <4>3. c.status = job[e].status
        BY <2>1 DEF Jobs
      <4> QED
        BY <4>2, <4>3
    <3> QED
      BY <1>4, <3>1, <3>2, <3>3
  <2> QED
    BY <1>3, <2>2
<1>5. ASSUME NEW e \in Deploys, NEW s \in Sessions, NEW k \in Slugs, NEW full \in Kinds, Deploy(e, s, k, full)
      PROVE  FALSE
  <2>1. job[e] = NoJob /\ \E c : job' = [job EXCEPT ![e] = c]
    BY <1>5 DEF Deploy
  <2> QED
    BY <1>0, <2>1 DEF InFlight
<1>6. ASSUME NEW e \in Deploys, Validate(e) PROVE job'[d].status \in {"failed", "cancelled"}
  <2>1. CASE RollBack(e, "failed")
    BY <1>2, <2>1
  <2>2. CASE job' = [job EXCEPT ![e].status = "running", ![e].at = "eager"]
    BY <1>0, <2>2 DEF InFlight, Jobs
  <2> QED
    BY <1>6, <2>1, <2>2 DEF Validate
<1>7. ASSUME NEW e \in Deploys, Finish(e) PROVE job'[d].status \in {"failed", "cancelled"} \/ Has(job[d].slug)
  <2>1. CASE RollBack(e, "failed")
    BY <1>2, <2>1
  <2>2. CASE ~RollBack(e, "failed")
    <3>1. Has(job[e].slug) /\ job' = [job EXCEPT ![e].status = "succeeded"]
      BY <1>7, <2>2 DEF Finish
    <3> QED
      BY <1>0, <3>1 DEF InFlight
  <2> QED
    BY <2>1, <2>2
<1>8. ASSUME NEW e \in Deploys, Sweep(e) PROVE FALSE
  <2>1. e # d /\ \E c : job' = [job EXCEPT ![e] = c]
    BY <1>8 DEF Sweep, InFlight, Ended
  <2> QED
    BY <1>0, <2>1 DEF InFlight
<1>9. CASE OnLoop
  BY <1>2, <1>4, <1>5, <1>6, <1>7, <1>8, <1>9 DEF OnLoop, Cancel, OperationFails
<1>10. CASE InThread /\ ~OnLoop
  <2>1. CASE \E e \in Deploys : Operate(e)
    BY <1>2, <1>4, <2>1
  <2>2. CASE ~\E e \in Deploys : Operate(e)
    BY <1>1, <1>10, <2>2 DEF InThread, Edit, StrayEnds, AskStart, AskStop, AskDelete, RequestStep, ServiceStarts,
       DirectoryMoves, DirectoryGoes, RowChanges, RequestEnds, Reap, jobVars
  <2> QED
    BY <2>1, <2>2
<1> QED
  BY <1>9, <1>10

-----------------------------------------------------------------------------
\* What is known to have come in between stays known.
LEMMA LateGrows ==
  ASSUME TypesInv, DeletionNext
  PROVE  late \subseteq late'
<1>1. ASSUME NEW s \in Sessions, Post(s) \/ TurnWorks(s) \/ TurnEnds(s) PROVE late \subseteq late'
  BY <1>1 DEF Post, TurnWorks, TurnEnds, Late
<1>2. ASSUME NEW j \in Deletes, DeleteStep(j) PROVE late \subseteq late'
  BY <1>2, Shrinking DEF Shrinks
<1>3. CASE Works
  BY <1>3, WorksIs
<1>4. ASSUME NEW j, NEW s, Asks(j, s) PROVE late \subseteq late'
  BY <1>4 DEF Asks, AskDeletion
<1>5. CASE (\E j \in Deletes : AskCancel(j)) \/ Crash
  BY <1>5 DEF AskCancel, Crash
<1> QED
  BY <1>1, <1>2, <1>3, <1>4, <1>5, Steps

\* Who is lapsed stays so while nobody can have another app there: a job that ends without
\* having made one leaves a mark.
LEMMA Stops ==
  ASSUME TypesInv, StraysLate, Works, NEW d \in Deploys, Lapsed(d),
         ~Has(job[d].slug) \/ Under(row[job[d].slug].from)
  PROVE  Lapsed(d)'
<1>0. AppTypes /\ JobsInv /\ DeployNext /\ late \subseteq late' /\ late \subseteq Sessions
  BY WorksIs DEF TypesInv, Basis, DelTypes
<1>1. job[d] # NoJob
  BY <1>0, DeletionAssumption DEF Lapsed, Active, InFlight, NoJob, JobsInv, JobInv
<1>2. job[d].from \in Sessions /\ job'[d].from = job[d].from
  BY <1>0, <1>1, JobRuns, JobStays
<1>3. CASE job[d].from \in late
  BY <1>0, <1>2, <1>3 DEF Lapsed
<1>4. CASE Active(d) /\ job[d].from \notin late
  <2>1. InFlight(d)
    BY <1>4 DEF StraysLate, Active
  <2>2. CASE InFlight(d)'
    BY <2>2 DEF Lapsed, Active
  <2>3. CASE ~InFlight(d)'
    <3>1. job'[d].status \in {"failed", "cancelled"} \/ Has(job[d].slug)
      BY <1>0, <2>1, <2>3, JobEnds DEF Works
    <3>2. Abandoned(job[d].from)
      BY <1>2, <1>4, <3>1 DEF Abandoned
    <3>3. job[d].from \in late'
      BY <1>2, <3>2 DEF Works, Beside
    <3> QED
      BY <1>2, <3>3 DEF Lapsed
  <2> QED
    BY <2>2, <2>3
<1> QED
  BY <1>3, <1>4 DEF Lapsed

LEMMA AuthorsStay ==
  ASSUME TypesInv, AuthorsOwn, DeletionNext
  PROVE  AuthorsOwn'
<1>0. AppTypes /\ JobsInv /\ Narrow
  BY DEF TypesInv, Basis
<1>1. ASSUME DeployNext PROVE AuthorsOwn'
  <2>1. ASSUME NEW k \in Slugs, NEW d \in Authors(k)', d # 0
        PROVE  d \in Deploys /\ job'[d] # NoJob /\ job'[d].slug = k
    <3>1. d \in Authors(k) \/ (d \in Deploys /\ Active(d) /\ job[d].slug = k)
      BY <1>0, <1>1, <2>1, AuthorsChange
    <3>2. d \in Deploys /\ job[d] # NoJob /\ job[d].slug = k
      BY <1>0, <2>1, <3>1, ActiveIs DEF AuthorsOwn
    <3> QED
      BY <1>0, <1>1, <3>2, JobStays
  <2> QED
    BY <2>1 DEF AuthorsOwn
<1>2. ASSUME NEW j \in Deletes, DeleteStep(j) PROVE AuthorsOwn'
  <2>1. Shrinks /\ UNCHANGED job
    BY <1>2, Shrinking DEF Shrinks, jobVars
  <2>2. ASSUME NEW k \in Slugs, NEW d \in Authors(k)', d # 0
        PROVE  d \in Deploys /\ job'[d] # NoJob /\ job'[d].slug = k
    BY <2>1, <2>2, AuthorsFade DEF AuthorsOwn
  <2> QED
    BY <2>2 DEF AuthorsOwn
<1>3. CASE UNCHANGED deployVars
  BY <1>3 DEF AuthorsOwn, Authors, deployVars, appVars, jobVars
<1> QED
  BY <1>1, <1>2, <1>3, Steps, CalmSteps

\* Sessions go when everything of theirs has been dealt with.
LEMMA Drops ==
  ASSUME TypesInv, NEW j \in Deletes, DeleteStep(j)
  PROVE  \/ UNCHANGED sess
         \/ \E gone \in SUBSET Targets(j) :
              /\ Dropped(gone) /\ Running(j) /\ gone \subseteq Done(j, BusDone)
              /\ UNCHANGED <<runs, ckpt, bus, kept, late>>
<1>0. Narrow /\ Shape(j)
  BY DEF TypesInv, DelShape
<1>1. CASE DropRows(j)
  <2>1. Running(j) /\ del[j].at = "rows" /\ UNCHANGED <<runs, ckpt, bus, kept, late>>
    BY <1>1 DEF DropRows, At, Running
  <2>2. {del[j].cur} \subseteq Targets(j) /\ {del[j].cur} \subseteq Done(j, BusDone)
    BY <1>0, <2>1 DEF Shape, PreDrop, Done, BusDone
  <2>3. UNCHANGED sess \/ Dropped({del[j].cur})
    BY <1>1 DEF DropRows, deployVars
  <2> QED
    BY <2>1, <2>2, <2>3
<1>2. CASE DropProject(j)
  <2>1. Running(j) /\ del[j].at = "project" /\ UNCHANGED <<runs, ckpt, bus, kept, late>>
    BY <1>2 DEF DropProject, At, Running
  <2>2. CASE UNCHANGED sess
    BY <2>2
  <2>3. CASE ~UNCHANGED sess
    <3> DEFINE gone == InProject(ProjectOf[del[j].target])
    <3>1. del[j].project /\ Dropped(gone)
      BY <1>2, <2>3 DEF DropProject, deployVars
    <3>2. gone \subseteq Targets(j) /\ Targets(j) \subseteq Done(j, BusDone)
      BY <1>0, <2>1, <3>1 DEF InProject, Targets, Narrow, Done, BusDone, Shape
    <3> HIDE DEF gone
    <3> QED
      BY <2>1, <3>1, <3>2
  <2> QED
    BY <2>2, <2>3
<1>3. CASE ~DropRows(j) /\ ~DropProject(j)
  BY <1>3 DEF DeleteStep, Begin, NextSession, CancelAgent, AgentAwaited, KillProcesses, ListApps, TearDown,
     RemoveApp, AppsGone, RemoveWorkspace, DropCheckpoint, ClearBus, deployVars
<1> QED
  BY <1>1, <1>2, <1>3

LEMMA StraysOnlyCancelled ==
  ASSUME AppTypes, OnLoop \/ InThread, NEW d \in Deploys, stray'[d] # "none", stray[d] = "none"
  PROVE  \E e \in Deploys : Cancel(e)
<1>0. stray' # stray
  OBVIOUS
<1>1. CASE OnLoop
  BY <1>0, <1>1 DEF OnLoop, Deploy, Validate, OperationFails, StartFails, Prepare, RecordRow, Finish, Sweep
<1>2. CASE InThread
  <2>1. ASSUME NEW e \in Deploys, StrayEnds(e) PROVE FALSE
    BY <2>1 DEF StrayEnds, AppTypes
  <2> QED
    BY <1>0, <1>2, <2>1 DEF InThread, Edit, Operate, AskStart, AskStop, AskDelete, RequestStep, ServiceStarts,
       DirectoryMoves, DirectoryGoes, RowChanges, RequestEnds, Reap, jobVars
<1> QED
  BY <1>1, <1>2

LEMMA RowsLiveStay ==
  ASSUME TypesInv, RowsLive, DeletionNext
  PROVE  RowsLive'
<1>0. AppTypes /\ JobsInv
  BY DEF TypesInv, Basis
<1>1. ASSUME DeployNext PROVE RowsLive'
  <2>1. UNCHANGED sess
    BY <1>1, SessionsStay
  <2>2. CASE \A l \in Slugs : SameApp(l)
    BY <2>1, <2>2 DEF RowsLive, Has, SameApp
  <2>3. ASSUME NEW d \in Deploys, RecordRow(d) PROVE RowsLive'
    <3>1. /\ job[d].slug \in Slugs /\ \A l \in Slugs \ {job[d].slug} : row'[l] = row[l]
          /\ \/ row'[job[d].slug] = row[job[d].slug]
             \/ row[job[d].slug] # NoRow /\ row'[job[d].slug].from = row[job[d].slug].from
             \/ row'[job[d].slug].from \in sess
      BY <1>0, <2>3, Records
    <3> QED
      BY <2>1, <3>1 DEF RowsLive, Has
  <2> QED
    BY <1>0, <1>1, <2>2, <2>3, RowsChange
<1>2. ASSUME NEW j \in Deletes, DeleteStep(j) PROVE RowsLive'
  <2>1. CASE UNCHANGED sess
    BY <1>2, <2>1, Shrinking DEF Shrinks, RowsLive, Has
  <2>2. ASSUME NEW gone, Dropped(gone) PROVE RowsLive'
    BY <2>2, DropKeeps DEF RowsLive, Has
  <2> QED
    BY <1>2, <2>1, <2>2, Drops
<1>3. CASE UNCHANGED deployVars
  BY <1>3 DEF RowsLive, Has, deployVars, appVars
<1> QED
  BY <1>1, <1>2, <1>3, Steps, CalmSteps

LEMMA StraysLateStay ==
  ASSUME TypesInv, StraysLate, DeletionNext
  PROVE  StraysLate'
<1>0. AppTypes /\ JobsInv /\ late \subseteq late'
  BY LateGrows DEF TypesInv, Basis
<1>1. ASSUME Works PROVE StraysLate'
  <2>1. ASSUME NEW d \in Deploys, stray'[d] # "none" PROVE job'[d].from \in late'
    <3>1. DeployNext /\ Turn(d)
      BY <1>0, <1>1, WorksIs, JobsChange
    <3>2. CASE stray[d] # "none"
      <4>1. job[d] # NoJob
        BY <1>0, <3>2 DEF JobsInv, JobInv
      <4> QED
        BY <1>0, <3>1, <3>2, <4>1, JobStays DEF StraysLate
    <3>3. CASE stray[d] = "none"
      <4>1. Same(d) /\ job[d] # NoJob
        BY <2>1, <3>1, <3>3 DEF Turn
      <4>2. PICK e \in Deploys : Cancel(e) /\ stray'[d] # stray[d]
        BY <1>0, <1>1, <2>1, <3>3, StraysOnlyCancelled DEF Works
      <4>3. d = e
        BY <1>0, <4>2 DEF Cancel, AppTypes
      <4>4. job'[d].status = "cancelled"
        BY <1>0, <4>2, <4>3 DEF Cancel, RollBack, Closed, AppTypes, Jobs
      <4>5. job[d].from \in Sessions /\ job'[d].from = job[d].from
        BY <1>0, <4>1, JobRuns DEF Same
      <4>6. Abandoned(job[d].from)
        BY <4>4, <4>5 DEF Abandoned
      <4> QED
        BY <1>1, <4>5, <4>6 DEF Works, Beside
    <3> QED
      BY <3>2, <3>3
  <2> QED
    BY <2>1 DEF StraysLate
<1>2. CASE Crash
  BY <1>2 DEF Crash, Restart, StraysLate
<1>3. ASSUME UNCHANGED jobVars PROVE StraysLate'
  BY <1>0, <1>3 DEF StraysLate, jobVars
<1>4. ASSUME NEW j \in Deletes, DeleteStep(j) PROVE StraysLate'
  BY <1>3, <1>4, Shrinking DEF Shrinks
<1>5. CASE UNCHANGED deployVars
  BY <1>3, <1>5 DEF deployVars
<1> QED
  BY <1>1, <1>2, <1>4, <1>5, Steps, CalmSteps

\* Which sessions are being deleted.
LEMMA UnderKept ==
  ASSUME UNCHANGED del
  PROVE  /\ \A s \in Sessions : Under(s)' <=> Under(s)
         /\ \A j \in Deletes : Targets(j)' = Targets(j)
BY DEF Under, Open, Targets

LEMMA UnderShrinks ==
  ASSUME DelTypes, DelShape, NEW j \in Deletes, OtherDels(j), SameDel(j) \/ Opens(j) \/ Closes(j),
         NEW s \in Sessions, Under(s)'
  PROVE  Under(s)
<1>1. PICK i \in Deletes : Open(i)' /\ s \in Targets(i)'
  BY DEF Under
<1>2. CASE i # j
  BY <1>1, <1>2 DEF OtherDels, Under, Open, Targets
<1>3. CASE i = j
  <2>1. ~Closes(j)
    BY <1>1, <1>3 DEF Closes, Open, Outcomes
  <2>2. Open(j) /\ Targets(j)' = Targets(j)
    BY <1>1, <1>3, <2>1 DEF SameDel, Opens, Open, Targets
  <2> QED
    BY <1>1, <1>3, <2>2 DEF Under
<1> QED
  BY <1>2, <1>3

LEMMA QuietStays ==
  ASSUME TypesInv, Quiet, DeletionNext
  PROVE  Quiet'
<1>0. AppTypes /\ JobsInv /\ Narrow /\ DelTypes /\ DelShape /\ late \subseteq late'
  BY LateGrows DEF TypesInv, Basis
<1> DEFINE Idle(s) == turn[s] = "none" /\ \A d \in Deploys : job[d].from = s => ~Active(d)
           IdleThen(s) == turn'[s] = "none" /\ \A d \in Deploys : job'[d].from = s => ~Active(d)'
<1> SUFFICES ASSUME NEW s \in Sessions, s \notin late', s \notin sess' \/ Under(s)'
             PROVE  IdleThen(s)
  BY DEF Quiet
<1>a. s \notin late /\ (s \notin sess \/ Under(s) => Idle(s))
  BY <1>0 DEF Quiet
<1>b. ASSUME UNCHANGED <<job, stray>>, Idle(s), turn'[s] = turn[s] PROVE IdleThen(s)
  BY <1>b DEF Active, InFlight
<1> HIDE DEF Idle
<1>1. ASSUME NEW t \in Sessions, Post(t) \/ TurnWorks(t) \/ TurnEnds(t) PROVE IdleThen(s)
  <2>1. UNCHANGED <<sess, job, stray, del>>
    BY <1>1 DEF Post, TurnWorks, TurnEnds, Unmoved, deployVars, jobVars
  <2>2. Idle(s) /\ turn[s] = "none" /\ (s \notin sess \/ Under(s))
    BY <1>a, <2>1, UnderKept DEF Idle
  <2>3. CASE Post(t)
    <3>1. t # s
      BY <2>2, <2>3 DEF Post, Late
    <3> QED
      BY <1>0, <1>b, <2>1, <2>2, <2>3, <3>1 DEF Post, DelTypes
  <2>4. CASE TurnWorks(t)
    BY <1>b, <2>1, <2>2, <2>4 DEF TurnWorks
  <2>5. CASE TurnEnds(t)
    <3>1. turn'[s] = turn[s]
      BY <1>0, <2>2, <2>5 DEF TurnEnds, DelTypes
    <3> QED
      BY <1>b, <2>1, <2>2, <3>1
  <2> QED
    BY <1>1, <2>3, <2>4, <2>5
<1>2. ASSUME NEW j \in Deletes, NEW t \in Sessions, Asks(j, t) PROVE IdleThen(s)
  <2> DEFINE all == del'[j].left
  <2>1. /\ UNCHANGED <<sess, job, stray>> /\ OtherDels(j) /\ del'[j].target = t
        /\ all = (IF del'[j].project THEN InProject(ProjectOf[t]) ELSE {t})
    BY <1>2, AskedFor DEF deployVars, jobVars
  <2>2. /\ late' = late \cup {u \in all : turn[u] # "none" \/ Under(u)
                                \/ \E d \in Deploys : Active(d) /\ job[d].from = u}
        /\ turn'[s] = turn[s] \/ turn[s] = "running"
    BY <1>2, AskedFor
  <2>3. Idle(s)
    <3>1. CASE s \in all
      BY <2>2, <3>1 DEF Idle
    <3>2. CASE s \notin all
      <4>1. ASSUME Under(s)' PROVE s \notin sess \/ Under(s)
        <5>1. PICK i \in Deletes : Open(i)' /\ s \in Targets(i)'
          BY <4>1 DEF Under
        <5>2. CASE i # j
          BY <2>1, <5>1, <5>2 DEF OtherDels, Under, Open, Targets
        <5>3. CASE i = j
          BY <2>1, <3>2, <5>1, <5>3 DEF Targets, InProject
        <5> QED
          BY <5>2, <5>3
      <4> QED
        BY <1>a, <2>1, <4>1
    <3> QED
      BY <3>1, <3>2
  <2>4. turn'[s] = turn[s]
    BY <2>2, <2>3 DEF Idle
  <2> QED
    BY <1>b, <2>1, <2>3, <2>4
<1>3. ASSUME NEW j \in Deletes, AskCancel(j) PROVE IdleThen(s)
  <2>1. OtherDels(j) /\ SameDel(j) /\ UNCHANGED <<sess, turn, job, stray>>
    BY <1>0, <1>3, AskedToCancel DEF Stays, deployVars, jobVars
  <2>2. Under(s)' => Under(s)
    BY <1>0, <2>1, UnderShrinks
  <2> QED
    BY <1>a, <1>b, <2>1, <2>2
<1>4. ASSUME NEW j \in Deletes, DeleteStep(j) PROVE IdleThen(s)
  <2>1. OtherDels(j) /\ (SameDel(j) \/ Opens(j) \/ Closes(j))
    BY <1>0, <1>4, DelSteps DEF Walks, Picks, Stays
  <2>2. Under(s)' => Under(s)
    BY <1>0, <2>1, UnderShrinks
  <2>3. s \notin sess' => s \notin sess \/ Under(s)
    <3>1. ASSUME NEW gone \in SUBSET Targets(j), Dropped(gone), Running(j), s \notin sess', s \in sess
          PROVE  Under(s)
      BY <3>1 DEF Dropped, Running, Under, Open
    <3> QED
      BY <1>4, <3>1, Drops
  <2>4. Idle(s)
    BY <1>a, <2>2, <2>3
  <2>5. turn'[s] = turn[s]
    BY <1>4, <2>4, TurnStays DEF Idle
  <2>6. UNCHANGED <<job, stray>>
    BY <1>4, Shrinking DEF Shrinks, jobVars
  <2> QED
    BY <1>b, <2>4, <2>5, <2>6
<1>5. ASSUME Works PROVE IdleThen(s)
  <2>1. DeployNext /\ UNCHANGED <<turn, del, sess>>
    BY <1>5, WorksIs, SessionsStay DEF Works
  <2>2. Idle(s) /\ (s \notin sess \/ Under(s))
    BY <1>a, <2>1, UnderKept
  <2>3. ASSUME NEW d \in Deploys, job'[d].from = s, Active(d)' PROVE FALSE
    <3>1. Turn(d)
      BY <1>0, <2>1, JobsChange
    <3>2. CASE New(d) /\ job'[d].status = "pending"
      <4>1. Under(s)
        BY <2>2, <2>3, <3>2 DEF New
      <4>2. Touched(s)
        BY <2>3, <3>2 DEF Touched
      <4> QED
        BY <1>5, <4>1, <4>2 DEF Works, Beside
    <3>3. CASE ~(New(d) /\ job'[d].status = "pending")
      <4>1. Active(d) /\ job'[d].from = job[d].from
        <5>1. CASE job'[d] = job[d] /\ stray'[d] \in {stray[d], "none"}
          BY <2>3, <5>1 DEF Active, InFlight
        <5>2. CASE /\ Same(d) /\ job[d] # NoJob /\ job'[d].status \in Ended \cup {"swept"}
                   /\ stray'[d] # "none" => Active(d)
          BY <2>3, <5>2 DEF Active, InFlight, Ended, Same
        <5>3. CASE Same(d) /\ InFlight(d)
          BY <5>3 DEF Active, Same
        <5> QED
          BY <3>1, <3>3, <5>1, <5>2, <5>3 DEF Turn
      <4> QED
        BY <2>2, <2>3, <4>1 DEF Idle
    <3> QED
      BY <3>2, <3>3
  <2> QED
    BY <2>1, <2>2, <2>3 DEF Idle
<1>6. CASE Crash
  <2>1. turn'[s] = "none"
    BY <1>6 DEF Crash
  <2>2. ASSUME NEW d \in Deploys PROVE ~Active(d)'
    <3>1. stray'[d] = "none" /\ job'[d] = (IF job[d] = NoJob THEN NoJob ELSE Closed(job[d], "swept"))
      BY <1>6 DEF Crash, Restart
    <3>2. job'[d].status \in {"none", "swept"}
      BY <1>0, <3>1 DEF NoJob, Closed, AppTypes, Jobs
    <3> QED
      BY <3>1, <3>2 DEF Active, InFlight
  <2> QED
    BY <2>1, <2>2
<1> QED
  BY <1>1, <1>2, <1>3, <1>4, <1>5, <1>6, Steps

-----------------------------------------------------------------------------
LEMMA SmoothBefore ==
  ASSUME TypesInv, DeletionNext, ~Crash, Smooth'
  PROVE  Smooth
<1>0. DelTypes /\ DelShape /\ Narrow
  BY DEF TypesInv
<1>1. CASE UNCHANGED del
  BY <1>1 DEF Smooth
<1>2. ASSUME NEW j \in Deletes, OtherDels(j) PROVE Smooth
  BY <1>2 DEF Smooth, OtherDels
<1>3. (\E s \in Sessions : Post(s) \/ TurnWorks(s) \/ TurnEnds(s)) => UNCHANGED del
  BY DEF Post, TurnWorks, TurnEnds, Unmoved
<1>4. Works => UNCHANGED del
  BY DEF Works
<1>5. ASSUME NEW j \in Deletes, DeleteStep(j) \/ AskCancel(j) PROVE Smooth
  <2>1. OtherDels(j)
    BY <1>0, <1>5, DelSteps, AskedToCancel
  <2> QED
    BY <1>2, <2>1
<1>6. ASSUME NEW j \in Deletes, NEW s \in Sessions, Asks(j, s) PROVE Smooth
  <2>1. OtherDels(j)
    BY <1>6, AskedFor
  <2> QED
    BY <1>2, <2>1
<1> QED
  BY <1>1, <1>3, <1>4, <1>5, <1>6, Steps

LEMMA LapsedStays ==
  ASSUME UNCHANGED <<job, stray>>, late \subseteq late', NEW d, Lapsed(d)
  PROVE  Lapsed(d)'
BY DEF Lapsed, Active, InFlight

\* The rows that a step of a deletion drops.
LEMMA RowGoes ==
  ASSUME TypesInv, RowsLive, NEW j \in Deletes, DeleteStep(j), NEW k \in Slugs, row'[k] # row[k]
  PROVE  \/ RemoveApp(j) /\ Running(j) /\ del[j].at = "tree" /\ k = del[j].app
         \/ \E gone \in SUBSET Targets(j) :
              Dropped(gone) /\ Running(j) /\ gone \subseteq Done(j, BusDone) /\ row[k].from \in gone
<1>0. AppTypes /\ Narrow
  BY DEF TypesInv, Basis
<1>1. CASE RemoveApp(j)
  <2>1. Running(j) /\ del[j].at = "tree" /\ (row' = [row EXCEPT ![del[j].app] = NoRow] \/ row' = row)
    BY <1>1 DEF RemoveApp, At, Running
  <2> QED
    BY <1>0, <1>1, <2>1 DEF AppTypes
<1>2. CASE ~RemoveApp(j)
  <2>1. ASSUME NEW gone, Dropped(gone) PROVE row[k].from \in gone
    BY <2>1, DropKeeps
  <2>2. CASE UNCHANGED sess
    <3>1. \E gone : Dropped(gone)
      BY <1>2 DEF DeleteStep, Begin, NextSession, CancelAgent, AgentAwaited, KillProcesses, ListApps, TearDown,
     AppsGone, RemoveWorkspace, DropCheckpoint, ClearBus, deployVars, appVars, DropRows, DropProject
    <3>2. row[k].from \notin sess
      BY <2>1, <2>2, <3>1 DEF Dropped
    <3>3. Has(k)
      BY <3>1, DropKeeps DEF Has
    <3> QED
      BY <3>2, <3>3 DEF RowsLive
  <2> QED
    BY <2>1, <2>2, Drops
<1> QED
  BY <1>1, <1>2

-----------------------------------------------------------------------------
\* What no row leads to was written by who is lapsed: when nothing happens to apps,
LEMMA RowlessCalm ==
  ASSUME TraceInv, UNCHANGED deployVars, late \subseteq late', Smooth' => Smooth
  PROVE  Rowless'
<1> SUFFICES ASSUME Smooth', NEW k \in Slugs, ~Has(k)', NEW d \in Authors(k)', d # 0
             PROVE  Lapsed(d)'
  BY DEF Rowless, Ashes
<1>1. UNCHANGED <<row, files, parked, unit, job, stray>>
  BY DEF deployVars, appVars, jobVars
<1>2. ~Has(k) /\ d \in Authors(k)
  BY <1>1 DEF Has, Authors
<1>3. Lapsed(d)
  BY <1>2 DEF TraceInv, Rowless, Ashes
<1> QED
  BY <1>1, <1>3, LapsedStays

\* when something does,
LEMMA RowlessWorks ==
  ASSUME TraceInv, Works
  PROVE  Rowless'
<1>0. /\ TypesInv /\ AuthorsOwn /\ StraysLate /\ Rowless /\ DeployNext /\ UNCHANGED del
      /\ AppTypes /\ JobsInv /\ Narrow
  BY WorksIs DEF TraceInv, TypesInv, Basis, Works
<1> SUFFICES ASSUME Smooth', NEW k \in Slugs, ~Has(k)', NEW d \in Authors(k)', d # 0
             PROVE  Lapsed(d)'
  BY DEF Rowless, Ashes
<1>1. d \in Authors(k) \/ (d \in Deploys /\ Active(d) /\ job[d].slug = k)
  BY <1>0, AuthorsChange
<1>2. d \in Deploys /\ job[d] # NoJob /\ job[d].slug = k
  BY <1>0, <1>1, ActiveIs DEF AuthorsOwn
<1>3. CASE ~Has(k)
  <2>1. Smooth
    BY <1>0 DEF Smooth
  <2>2. Lapsed(d)
    BY <1>0, <1>1, <1>3, <2>1 DEF Rowless, Ashes, Lapsed
  <2> QED
    BY <1>0, <1>2, <1>3, <2>2, Stops
<1>4. CASE Has(k)
  <2>1. job[d].from \in Sessions /\ job'[d].from = job[d].from
    BY <1>0, <1>2, JobRuns, JobStays
  <2>2. Abandoned(job[d].from)
    BY <1>2, <1>4 DEF Abandoned, Has
  <2>3. job[d].from \in late'
    BY <2>1, <2>2 DEF Works, Beside
  <2> QED
    BY <2>1, <2>3 DEF Lapsed
<1> QED
  BY <1>3, <1>4

\* after a restart, which clears away all of it,
LEMMA RowlessRestart ==
  ASSUME TraceInv, Crash
  PROVE  Rowless'
<1> SUFFICES ASSUME NEW k \in Slugs, ~Has(k)', NEW d \in Authors(k)', d # 0
             PROVE  FALSE
  BY DEF Rowless, Ashes
<1>1. Restart /\ UNCHANGED row
  BY DEF Crash, Restart
<1>2. row[k].port = 0 /\ ~Has(k)
  BY <1>1 DEF Has, NoRow
<1>3. files'[k] = Empty /\ parked'[k] = Empty /\ unit'[k] = NoUnit
  BY <1>1, <1>2 DEF Restart, Reconcile
<1> QED
  BY <1>3, AuthorsAre DEF Empty, NoUnit

\* and when a deletion drops a row.
LEMMA RowlessDeletes ==
  ASSUME TraceInv, NEW j \in Deletes, DeleteStep(j)
  PROVE  Rowless'
<1>0. /\ TypesInv /\ AuthorsOwn /\ RowsLive /\ Rowless /\ AppsCleared
      /\ AppTypes /\ JobsInv /\ DelTypes /\ DelShape /\ Narrow
  BY DEF TraceInv, TypesInv, Basis
<1> SUFFICES ASSUME Smooth', NEW k \in Slugs, ~Has(k)', NEW d \in Authors(k)', d # 0
             PROVE  Lapsed(d)'
  BY DEF Rowless, Ashes
<1>1. Shrinks /\ UNCHANGED <<job, stray, req, count, met>> /\ late \subseteq late'
  BY <1>0, Shrinking DEF Shrinks, jobVars
<1>2. d \in Authors(k)
  BY <1>1, AuthorsFade
<1>3. Smooth
  <2>1. OtherDels(j)
    BY <1>0, DelSteps
  <2> QED
    BY <2>1 DEF Smooth, OtherDels
<1>4. CASE Lapsed(d)
  BY <1>1, <1>4, LapsedStays
<1>5. CASE ~Has(k)
  BY <1>0, <1>2, <1>3, <1>4, <1>5 DEF Rowless, Ashes
<1>6. ASSUME Has(k), RemoveApp(j), Running(j), del[j].at = "tree", k = del[j].app PROVE Lapsed(d)'
  <2>1. /\ files' = [files EXCEPT ![k] = Empty] /\ parked' = [parked EXCEPT ![k] = Empty]
        /\ UNCHANGED unit
    BY <1>6 DEF RemoveApp, Has
  <2>2. files'[k] = Empty /\ parked'[k] = Empty
    BY <1>0, <2>1 DEF AppTypes
  <2>3. d = unit[k].by
    BY <2>1, <2>2, AuthorsAre DEF Empty
  <2>4. CASE row[k].from = del[j].cur
    BY <1>0, <1>3, <1>4, <1>6, <2>3, <2>4 DEF AppsCleared, UnitDown
  <2>5. CASE row[k].from # del[j].cur
    <3>1. d \in Deploys /\ job[d].from \in Sessions
      BY <1>0, <1>2, JobRuns DEF AuthorsOwn
    <3>2. job[d].from \in late'
      BY <1>6, <2>3, <2>5, <3>1 DEF RemoveApp, Has
    <3> QED
      BY <1>1, <3>2 DEF Lapsed
  <2> QED
    BY <2>4, <2>5
<1>7. ASSUME NEW gone, Running(j), gone \subseteq Done(j, BusDone), row[k].from \in gone PROVE Lapsed(d)'
  <2>1. Cleared(j, k)
    BY <1>7 DEF Cleared, Done, AppsDone, SrcDone, CkptDone
  <2> QED
    BY <1>0, <1>2, <1>3, <1>4, <1>7, <2>1 DEF AppsCleared, Ashes
<1>8. CASE Has(k)
  <2>1. row'[k] # row[k]
    BY <1>8 DEF Has
  <2> QED
    BY <1>0, <1>6, <1>7, <1>8, <2>1, RowGoes
<1> QED
  BY <1>5, <1>8

-----------------------------------------------------------------------------
\* A step leaves a deletion as it is, is its own, or asks for it.
Held(j) == Stays(j) /\ Steady(j) /\ del'[j].at = del[j].at

LEMMA HeldOr ==
  ASSUME TypesInv, DeletionNext, ~Crash, NEW j \in Deletes
  PROVE  Held(j) \/ DeleteStep(j) \/ \E s \in Sessions : Asks(j, s)
<1>0. DelTypes /\ DelShape /\ Narrow
  BY DEF TypesInv
<1>1. ASSUME del'[j] = del[j] PROVE Held(j)
  BY <1>1 DEF Held, Stays, SameDel, Steady
<1>2. ASSUME NEW i \in Deletes, DeleteStep(i), i # j PROVE Held(j)
  <2>1. OtherDels(i)
    BY <1>0, <1>2, DelSteps
  <2> QED
    BY <1>1, <1>2, <2>1 DEF OtherDels
<1>3. ASSUME NEW i \in Deletes, NEW s \in Sessions, Asks(i, s), i # j PROVE Held(j)
  <2>1. OtherDels(i)
    BY <1>3, AskedFor
  <2> QED
    BY <1>1, <1>3, <2>1 DEF OtherDels
<1>4. ASSUME NEW i \in Deletes, AskCancel(i) PROVE Held(j)
  <2>1. OtherDels(i) /\ Held(i)
    BY <1>0, <1>4, AskedToCancel DEF Held
  <2> QED
    BY <1>1, <2>1 DEF OtherDels
<1>5. ASSUME NEW s \in Sessions, Post(s) \/ TurnWorks(s) \/ TurnEnds(s) PROVE Held(j)
  <2>1. UNCHANGED del
    BY <1>5 DEF Post, TurnWorks, TurnEnds, Unmoved
  <2> QED
    BY <1>1, <2>1
<1>6. CASE Works
  BY <1>1, <1>6 DEF Works
<1> QED
  BY <1>2, <1>3, <1>4, <1>5, <1>6, Steps

LEMMA HeldIs ==
  ASSUME NEW j \in Deletes, Held(j)
  PROVE  /\ Targets(j)' = Targets(j) /\ (Running(j)' <=> Running(j))
         /\ \A steps : Done(j, steps)' = Done(j, steps)
BY DEF Held, Stays, SameDel, Targets, Running, Done

\* A deletion that has just been asked for has dealt with nothing.
LEMMA NoneDone ==
  ASSUME TypesInv, NEW j \in Deletes, NEW t \in Sessions, Asks(j, t), NEW s \in sess, NEW steps
  PROVE  s \notin Done(j, steps)'
<1>1. /\ del'[j].target = t /\ del'[j].cur = NoSession
      /\ del'[j].left = (IF del'[j].project THEN InProject(ProjectOf[t]) ELSE {t})
  BY AskedFor
<1>2. s \in Sessions /\ s # NoSession
  BY DeletionAssumption DEF TypesInv, Narrow
<1>3. Targets(j)' = {u \in Sessions : IF del'[j].project THEN ProjectOf[u] = ProjectOf[t] ELSE u = t}
  BY <1>1 DEF Targets
<1>4. s \in Targets(j)' => s \in del'[j].left
  BY <1>1, <1>3 DEF InProject
<1>5. Done(j, steps)' = (Targets(j)' \ (del'[j].left \cup {NoSession}))
                        \cup (IF del'[j].at \in steps THEN {NoSession} ELSE {})
  BY <1>1 DEF Done
<1> QED
  BY <1>2, <1>4, <1>5

\* What a deletion gets done with in a step.
Reached == {BusDone, CkptDone, SrcDone, AppsDone, KillDone}

LEMMA DoneAfter ==
  ASSUME TypesInv, NEW j \in Deletes, Walks(j) \/ Picks(j) \/ Opens(j), NEW steps \in Reached,
         NEW s \in sess, s \in Done(j, steps)'
  PROVE  /\ Running(j)
         /\ \/ s \in Done(j, steps)
            \/ Walks(j) /\ s = del[j].cur /\ del'[j].at \in steps /\ del[j].at \notin steps
<1>0. Shape(j) /\ s \in Sessions /\ s # NoSession
  BY DeletionAssumption DEF TypesInv, Narrow, DelShape
<1>1. /\ "next" \in steps /\ "processes" \notin steps /\ "agent" \notin steps
  BY DEF Reached, BusDone, CkptDone, SrcDone, AppsDone, KillDone
<1>2. Done(j, steps)' = (Targets(j)' \ (del'[j].left \cup {del'[j].cur}))
                        \cup (IF del'[j].at \in steps THEN {del'[j].cur} ELSE {})
  BY DEF Done
<1>3. SameDel(j) => Targets(j)' = Targets(j)
  BY DEF SameDel, Targets
<1>4. CASE Walks(j)
  BY <1>2, <1>3, <1>4 DEF Walks, Stays, Done, Running
<1>5. CASE Picks(j)
  <2>1. s \in Targets(j) /\ s \notin del[j].left
    BY <1>1, <1>2, <1>3, <1>5 DEF Picks
  <2> QED
    BY <1>1, <1>5, <2>1 DEF Picks, Done, Running
<1>6. CASE Opens(j)
  <2>1. Targets(j)' = Targets(j) /\ del'[j].cur = NoSession
    BY <1>0, <1>6 DEF Opens, Targets, Shape
  <2>2. s \in Targets(j) => s \in del'[j].left
    BY <1>6 DEF Opens, Targets, InProject
  <2> QED
    BY <1>0, <1>2, <2>1, <2>2
<1> QED
  BY <1>4, <1>5, <1>6

-----------------------------------------------------------------------------
\* Where apps only go, what is left was there.
LEMMA Fades ==
  ASSUME TypesInv, UNCHANGED deployVars \/ (\E i \in Deletes : DeleteStep(i))
  PROVE  /\ UNCHANGED <<job, stray>>
         /\ \A k \in Slugs : /\ row'[k] \in {row[k], NoRow} /\ unit'[k] \in {unit[k], NoUnit}
                             /\ \A d \in Authors(k)' : d # 0 => d \in Authors(k)
<1>1. CASE UNCHANGED deployVars
  BY <1>1 DEF deployVars, appVars, jobVars, Authors
<1>2. ASSUME NEW i \in Deletes, DeleteStep(i)
      PROVE  /\ UNCHANGED <<job, stray>>
             /\ \A k \in Slugs : /\ row'[k] \in {row[k], NoRow} /\ unit'[k] \in {unit[k], NoUnit}
                                 /\ \A d \in Authors(k)' : d # 0 => d \in Authors(k)
  <2>1. Shrinks
    BY <1>2, Shrinking
  <2> QED
    BY <2>1, AuthorsFade DEF Shrinks, jobVars
<1> QED
  BY <1>1, <1>2

\* Who is lapsed stays so as long as nobody can put another app there.
LEMMA StillLapsed ==
  ASSUME TraceInv, Works, Smooth, NEW k \in Slugs, NEW d \in Authors(k)', d # 0,
         Has(k) => Under(row[k].from) /\ (d \in Authors(k) => Lapsed(d))
  PROVE  Lapsed(d)'
<1>0. /\ TypesInv /\ AuthorsOwn /\ StraysLate /\ Rowless /\ DeployNext
      /\ AppTypes /\ JobsInv /\ Narrow
  BY WorksIs DEF TraceInv, TypesInv, Basis
<1>1. d \in Authors(k) \/ (d \in Deploys /\ Active(d) /\ job[d].slug = k)
  BY <1>0, AuthorsChange
<1>2. d \in Deploys /\ job[d].slug = k
  BY <1>0, <1>1 DEF AuthorsOwn
<1>3. Lapsed(d)
  BY <1>0, <1>1 DEF Rowless, Ashes, Lapsed
<1> QED
  BY <1>0, <1>2, <1>3, Stops

\* The row of a cleared app is of a session that is being deleted.
LEMMA ClearedUnder ==
  ASSUME TraceInv, NEW j \in Deletes, NEW k \in Slugs, Running(j), Has(k),
         Cleared(j, k) \/ (del[j].at = "tree" /\ row[k].from = del[j].cur)
  PROVE  Under(row[k].from)
<1>1. row[k].from \in Sessions /\ row[k].from # NoSession /\ Shape(j)
  BY DeletionAssumption DEF TraceInv, TypesInv, Narrow, RowsLive, DelShape
<1>2. row[k].from \in Targets(j)
  BY <1>1 DEF Cleared, Done, Shape, Running, Open
<1> QED
  BY <1>1, <1>2 DEF Under, Open, Running

\* What a deletion's own step clears.
LEMMA ClearedAfter ==
  ASSUME TraceInv, NEW j \in Deletes, DeleteStep(j), Running(j)', ~del'[j].swallowed, NEW k \in Slugs, Has(k),
         row'[k] = row[k], Cleared(j, k)'
  PROVE  /\ Running(j)
         /\ \/ Cleared(j, k)
            \/ del[j].at = "tree" /\ k = del[j].app /\ row[k].from = del[j].cur
<1>0. TypesInv /\ Shape(j) /\ row[k].from \in sess /\ Narrow /\ DelTypes /\ DelShape
  BY DEF TraceInv, TypesInv, DelShape, RowsLive
<1>1. Walks(j) \/ Picks(j) \/ Opens(j)
  <2>1. ~Closes(j)
    BY DEF Closes, Running, Outcomes
  <2> QED
    BY <1>0, <2>1, DelSteps
<1>2. CASE row[k].from \in Done(j, AppsDone)'
  <2>0. Running(j)
    BY <1>0, <1>1, <1>2, DoneAfter DEF Reached
  <2>1. CASE row[k].from \in Done(j, AppsDone)
    BY <2>0, <2>1 DEF Cleared
  <2>2. CASE row[k].from \notin Done(j, AppsDone)
    <3>1. Walks(j) /\ row[k].from = del[j].cur /\ del'[j].at \in AppsDone /\ del[j].at \notin AppsDone
      BY <1>0, <1>1, <1>2, <2>2, DoneAfter DEF Reached
    <3>2. del[j].at = "apps" /\ del[j].apps = {}
      BY <3>1 DEF Walks, AppsDone, SrcDone, CkptDone, BusDone
    <3> QED
      BY <2>0, <3>1, <3>2 DEF Cleared
  <2> QED
    BY <2>1, <2>2
<1>3. CASE del'[j].at \in {"apps", "tree"} /\ row[k].from = del'[j].cur /\ k \notin del'[j].apps
  <2>1. Walks(j) /\ del'[j].cur = del[j].cur
    BY <1>1, <1>3 DEF Walks, Stays, Picks, Opens
  <2>2. k \in AppsOf(del[j].cur)
    BY <1>3, <2>1 DEF AppsOf
  <2> QED
    BY <1>3, <2>1, <2>2 DEF Walks, Steady, Cleared, Running
<1> QED
  BY <1>2, <1>3 DEF Cleared

LEMMA TreeRemoved ==
  ASSUME TypesInv, NEW j \in Deletes, DeleteStep(j), Running(j), del[j].at = "tree", ~del'[j].swallowed
  PROVE  /\ del[j].app \in Slugs /\ UNCHANGED unit
         /\ files'[del[j].app] = Empty /\ parked'[del[j].app] = Empty
<1>0. AppTypes /\ DelTypes /\ Shape(j) /\ del[j] \in Dels
  BY DEF TypesInv, Basis, DelShape, DelTypes
<1>1. RemoveApp(j)
  BY DEF DeleteStep, Running, Begin, NextSession, CancelAgent, AgentAwaited, KillProcesses, ListApps, TearDown,
     AppsGone, RemoveWorkspace, DropCheckpoint, ClearBus, DropRows, DropProject, At
<1>2. del[j].app \in Slugs
  BY <1>0 DEF Shape, Dels
<1>3. ASSUME NEW apps,
             del' = [del EXCEPT ![j] = [[del[j] EXCEPT !.at = "apps", !.app = Nobody, !.apps = apps]
                                          EXCEPT !.swallowed = TRUE]]
      PROVE  FALSE
  BY <1>0, <1>3 DEF DelTypes, Dels
<1>4. /\ files' = [files EXCEPT ![del[j].app] = Empty] /\ parked' = [parked EXCEPT ![del[j].app] = Empty]
      /\ UNCHANGED unit
  BY <1>1, <1>3 DEF RemoveApp
<1> QED
  BY <1>0, <1>2, <1>4 DEF AppTypes

LEMMA TreeReached ==
  ASSUME TypesInv, NEW j \in Deletes, DeleteStep(j), del'[j].at = "tree", ~del'[j].swallowed
  PROVE  unit'[del'[j].app] = NoUnit
<1>0. Narrow /\ DelTypes /\ DelShape /\ del[j] \in Dels
  BY DEF TypesInv, DelTypes
<1>1. del[j].at = "apps" /\ del[j].status = "running"
  <2>1. Walks(j)
    BY <1>0, DelSteps DEF Picks, Opens, Closes
  <2> QED
    BY <2>1 DEF Walks
<1>2. AppsGone(j) \/ \E k \in Slugs : TearDown(j, k)
  BY <1>1 DEF DeleteStep, Begin, NextSession, CancelAgent, AgentAwaited, KillProcesses, ListApps,
     RemoveApp, RemoveWorkspace, DropCheckpoint, ClearBus, DropRows, DropProject, At
<1>3. ~AppsGone(j)
  BY <1>0 DEF AppsGone, Goes, DelTypes, Dels
<1>4. PICK k \in Slugs : TearDown(j, k)
  BY <1>2, <1>3
<1>5. PICK stays \in SUBSET {"unit", "route"} :
        /\ unit' = IF "unit" \in stays THEN unit ELSE [unit EXCEPT ![k] = NoUnit]
        /\ del' = [del EXCEPT ![j] = [del[j] EXCEPT !.at = "tree", !.app = k,
                                                    !.swallowed = @ \/ stays # {}]]
  BY <1>4 DEF TearDown
<1>6. del'[j].app = k /\ stays = {}
  BY <1>0, <1>5 DEF DelTypes, Dels
<1> QED
  BY <1>0, <1>5, <1>6 DEF Narrow

-----------------------------------------------------------------------------
\* An app stays its session's as long as it has a row.
LEMMA FromStays ==
  ASSUME TypesInv, DeployNext, NEW k \in Slugs, Has(k), Has(k)'
  PROVE  row'[k].from = row[k].from
<1>0. AppTypes /\ JobsInv
  BY DEF TypesInv, Basis
<1>1. CASE \A l \in Slugs : SameApp(l)
  BY <1>1 DEF SameApp, Has
<1>2. ASSUME NEW d \in Deploys, RecordRow(d) PROVE row'[k].from = row[k].from
  BY <1>0, <1>2, Records DEF Has
<1>3. (\E d \in Deploys : RecordRow(d)) \/ \A l \in Slugs : SameApp(l)
  BY <1>0, RowsChange
<1> QED
  BY <1>1, <1>2, <1>3

\* What a deletion has dealt with stays dealt with while others work on their apps,
LEMMA ClearedWorks ==
  ASSUME TraceInv, Rowless', Works
  PROVE  AppsCleared'
<1>0. /\ TypesInv /\ Rowless /\ AppsCleared /\ DeployNext /\ UNCHANGED del
      /\ AppTypes /\ JobsInv /\ Narrow
  BY WorksIs DEF TraceInv, TypesInv, Basis, Works
<1> SUFFICES ASSUME Smooth', NEW j \in Deletes, Running(j)'
             PROVE  UnitDown(j)' /\ \A k \in Slugs : Cleared(j, k)' => Ashes(k)'
  BY DEF AppsCleared
<1>1. Smooth /\ Running(j)
  BY <1>0 DEF Smooth, Running
<1>2. UnitDown(j) /\ \A k \in Slugs : Cleared(j, k) => Ashes(k)
  BY <1>0, <1>1 DEF AppsCleared
<1>3. ASSUME NEW k \in Slugs, Has(k)', Cleared(j, k)', NEW d \in Authors(k)', d # 0 PROVE Lapsed(d)'
  <2>1. ASSUME Has(k) PROVE Under(row[k].from) /\ (d \in Authors(k) => Lapsed(d))
    <3>1. row'[k].from = row[k].from
      BY <1>0, <1>3, <2>1, FromStays
    <3>2. Cleared(j, k)
      BY <1>0, <1>3, <3>1 DEF Cleared, Done, Targets
    <3>3. Under(row[k].from)
      BY <1>1, <2>1, <3>2, ClearedUnder
    <3> QED
      BY <1>2, <1>3, <3>2, <3>3 DEF Ashes
  <2> QED
    BY <1>1, <1>3, <2>1, StillLapsed
<1>4. UnitDown(j)'
  <2> SUFFICES ASSUME NEW k, k = del[j].app, del[j].at = "tree", row'[k].from = del[j].cur,
                      NEW d, d = unit'[k].by, d # 0
               PROVE  Lapsed(d)'
    BY <1>0 DEF UnitDown
  <2>1. k \in Slugs /\ del[j].cur \in Sessions
    BY <1>0 DEF TypesInv, DelShape, DelTypes, Dels, Shape, PreDrop, Targets
  <2>4. Has(k)'
    BY <2>1, DeletionAssumption DEF Has, NoRow
  <2>2. d \in Authors(k)'
    BY <2>1, AuthorsAre
  <2>3. ASSUME Has(k) PROVE Under(row[k].from) /\ Lapsed(d)
    <3>1. row[k].from = del[j].cur
      BY <1>0, <2>1, <2>3, <2>4, FromStays
    <3>2. Under(row[k].from)
      BY <1>1, <2>1, <2>3, <3>1, ClearedUnder
    <3>3. d = unit[k].by \/ Active(d)
      BY <1>0, <2>1, UnitsChange
    <3> QED
      BY <1>2, <3>1, <3>2, <3>3 DEF UnitDown, Lapsed
  <2> QED
    BY <1>1, <2>1, <2>2, <2>3, StillLapsed
<1>5. ASSUME NEW k \in Slugs, Cleared(j, k)' PROVE Ashes(k)'
  <2>1. CASE Has(k)'
    BY <1>3, <1>5, <2>1 DEF Ashes
  <2>2. CASE ~Has(k)'
    BY <2>2 DEF Rowless
  <2> QED
    BY <2>1, <2>2
<1> QED
  BY <1>4, <1>5

\* and while nothing is added to any.
LEMMA ClearedElse ==
  ASSUME TraceInv, Rowless', DeletionNext, ~Crash,
         UNCHANGED deployVars \/ (\E i \in Deletes : DeleteStep(i))
  PROVE  AppsCleared'
<1>0. /\ TypesInv /\ RowsLive /\ AppsCleared /\ Narrow /\ late \subseteq late'
  BY LateGrows DEF TraceInv, TypesInv
<1> SUFFICES ASSUME Smooth', NEW j \in Deletes, Running(j)'
             PROVE  UnitDown(j)' /\ \A k \in Slugs : Cleared(j, k)' => Ashes(k)'
  BY DEF AppsCleared
<1>1. Smooth /\ \A i \in Deletes : Running(i) => UnitDown(i) /\ \A k \in Slugs : Cleared(i, k) => Ashes(k)
  BY <1>0, SmoothBefore DEF AppsCleared
<1>2. /\ UNCHANGED <<job, stray>>
      /\ \A k \in Slugs : /\ row'[k] \in {row[k], NoRow} /\ unit'[k] \in {unit[k], NoUnit}
                          /\ \A d \in Authors(k)' : d # 0 => d \in Authors(k)
  BY <1>0, Fades
<1>3. ASSUME NEW d, Lapsed(d) PROVE Lapsed(d)'
  BY <1>0, <1>2, <1>3, LapsedStays
<1>4. ASSUME NEW k \in Slugs, Ashes(k) \/ ~Has(k)' PROVE Ashes(k)'
  <2>1. CASE Ashes(k)
    BY <1>2, <1>3, <2>1 DEF Ashes
  <2>2. CASE ~Has(k)'
    BY <2>2 DEF Rowless
  <2> QED
    BY <1>4, <2>1, <2>2
<1>5. CASE Held(j)
  <2>1. Running(j) /\ \A steps : Done(j, steps)' = Done(j, steps)
    BY <1>5, HeldIs
  <2>2. ASSUME NEW k \in Slugs, Cleared(j, k)', Has(k)' PROVE Ashes(k)
    <3>1. row'[k] = row[k]
      BY <1>2, <2>2 DEF Has
    <3>2. Cleared(j, k)
      BY <1>5, <2>1, <2>2, <3>1 DEF Cleared, Held, Stays, Steady
    <3> QED
      BY <1>1, <2>1, <3>2
  <2>3. UnitDown(j)'
    <3> SUFFICES ASSUME NEW k, k = del[j].app, del[j].at = "tree", row'[k].from = del[j].cur,
                        NEW d, d = unit'[k].by, d # 0
                 PROVE  Lapsed(d)'
      BY <1>5 DEF UnitDown, Held, Stays, Steady
    <3>1. k \in Slugs /\ del[j].cur \in Sessions
      BY <1>0 DEF TypesInv, DelShape, DelTypes, Dels, Shape, PreDrop, Targets
    <3>2. row'[k] = row[k] /\ unit'[k] = unit[k]
      BY <1>2, <3>1, DeletionAssumption DEF NoRow, NoUnit
    <3>3. Lapsed(d)
      BY <1>1, <2>1, <3>2 DEF UnitDown
    <3> QED
      BY <1>3, <3>3
  <2> QED
    BY <1>4, <2>2, <2>3
<1>6. ASSUME NEW t \in Sessions, Asks(j, t)
      PROVE  UnitDown(j)' /\ \A k \in Slugs : Cleared(j, k)' => Ashes(k)'
  <2>1. del'[j].at \notin {"apps", "tree"}
    BY <1>0, <1>6, AskedFor
  <2>2. ASSUME NEW k \in Slugs, Cleared(j, k)', Has(k)' PROVE FALSE
    <3>1. row'[k] = row[k] /\ Has(k)
      BY <1>2, <2>2 DEF Has
    <3>2. row[k].from \in sess
      BY <1>0, <3>1 DEF RowsLive
    <3> QED
      BY <1>0, <1>6, <2>1, <2>2, <3>1, <3>2, NoneDone DEF Cleared
  <2> QED
    BY <1>4, <2>1, <2>2 DEF UnitDown
<1>7. CASE DeleteStep(j)
  <2>0. ~del'[j].swallowed
    BY DEF Smooth
  <2>1. UnitDown(j)'
    BY <1>0, <1>7, <2>0, TreeReached DEF UnitDown, NoUnit
  <2>2. ASSUME NEW k \in Slugs, Cleared(j, k)', Has(k)' PROVE Ashes(k)'
    <3>1. row'[k] = row[k] /\ Has(k)
      BY <1>2, <2>2 DEF Has
    <3>2. /\ Running(j)
          /\ Cleared(j, k) \/ (del[j].at = "tree" /\ k = del[j].app /\ row[k].from = del[j].cur)
      BY <1>7, <2>0, <2>2, <3>1, ClearedAfter
    <3>3. CASE Cleared(j, k)
      BY <1>1, <1>4, <3>2, <3>3
    <3>4. CASE del[j].at = "tree" /\ k = del[j].app /\ row[k].from = del[j].cur
      <4>1. files'[k] = Empty /\ parked'[k] = Empty /\ UNCHANGED unit
        BY <1>0, <1>7, <2>0, <3>2, <3>4, TreeRemoved
      <4>2. \A d \in Authors(k)' : d # 0 => d = unit[k].by
        BY <4>1, AuthorsAre DEF Empty
      <4>3. unit[k].by # 0 => Lapsed(unit[k].by)
        BY <1>1, <3>2, <3>4 DEF UnitDown
      <4> QED
        BY <1>3, <4>2, <4>3 DEF Ashes
    <3> QED
      BY <3>2, <3>3, <3>4
  <2> QED
    BY <1>4, <2>1, <2>2
<1> QED
  BY <1>0, <1>5, <1>6, <1>7, HeldOr

-----------------------------------------------------------------------------
\* Workspaces change where a turn edits them.
LEMMA SourcesChange ==
  ASSUME Works
  PROVE  UNCHANGED src \/ \E s \in Sessions : turn[s] # "none" /\ Edit(s)
<1>1. CASE OnLoop
  BY <1>1 DEF OnLoop, Deploy, Cancel, Validate, OperationFails, StartFails, Prepare, RecordRow, Finish, Sweep,
     RollBack
<1>2. CASE InThread
  BY <1>2 DEF InThread, StrayEnds, Operate, AskStart, AskStop, AskDelete, RequestStep, ServiceStarts,
     DirectoryMoves, DirectoryGoes, RowChanges, RequestEnds, Reap
<1> QED
  BY <1>1, <1>2 DEF Works

\* Nobody brings back what is left of a session that is gone or being deleted without
\* being noticed.
LEMMA NotAdded ==
  ASSUME TraceInv, DeletionNext, NEW s \in Sessions, s \notin late', s \notin sess \/ Under(s)
  PROVE  /\ Killed(s) => Killed(s)'
         /\ Unworked(s) => Unworked(s)'
         /\ Dropt(s) => Dropt(s)'
         /\ s \notin bus => s \notin bus'
<1> DEFINE NoMore ==
         /\ src'[s] \in {src[s], 0} /\ (s \in runs' => s \in runs)
         /\ (s \in ckpt' => s \in ckpt) /\ (s \in bus' => s \in bus) /\ kept \subseteq kept'
<1>0. TypesInv /\ late \subseteq late' /\ DelTypes /\ DelShape /\ AppTypes
  BY LateGrows DEF TraceInv, TypesInv, Basis
<1>a. turn[s] = "none"
  BY <1>0 DEF TraceInv, Quiet
<1>1. ASSUME NEW t \in Sessions, Post(t) \/ TurnWorks(t) \/ TurnEnds(t)
      PROVE  NoMore
  <2>1. UNCHANGED <<src, kept>>
    BY <1>1 DEF Post, TurnWorks, TurnEnds, Unmoved, deployVars
  <2>2. CASE Post(t)
    <3>1. t # s
      BY <2>2 DEF Post, Late
    <3> QED
      BY <2>1, <2>2, <3>1 DEF Post
  <2>3. CASE TurnWorks(t)
    <3>1. t # s
      BY <1>a, <2>3 DEF TurnWorks
    <3> QED
      BY <2>1, <2>3, <3>1 DEF TurnWorks
  <2>4. CASE TurnEnds(t)
    BY <2>1, <2>4 DEF TurnEnds, Unmoved
  <2> QED
    BY <1>1, <2>2, <2>3, <2>4
<1>2. ASSUME NEW j \in Deletes, NEW t \in Sessions, Asks(j, t)
      PROVE  NoMore
  <2>1. /\ UNCHANGED <<deployVars, ckpt, runs, kept>> /\ bus' \in {bus, bus \cup {t}} /\ t \in sess
        /\ del'[j].left = (IF del'[j].project THEN InProject(ProjectOf[t]) ELSE {t})
    BY <1>0, <1>2, AskedFor
  <2>2. late' = late \cup {u \in del'[j].left : turn[u] # "none" \/ Under(u)
                             \/ \E d \in Deploys : Active(d) /\ job[d].from = u}
    BY <1>0, <1>2, AskedFor
  <2>3. s # t
    BY <2>1, <2>2 DEF InProject
  <2> QED
    BY <2>1, <2>3 DEF deployVars
<1>3. ASSUME NEW j \in Deletes, AskCancel(j)
      PROVE  NoMore
  BY <1>3 DEF AskCancel, deployVars
<1>4. ASSUME NEW j \in Deletes, DeleteStep(j)
      PROVE  NoMore
  BY <1>0, <1>4, Shrinking DEF Shrinks
<1>5. ASSUME Works
      PROVE  NoMore
  <2>1. UNCHANGED <<ckpt, runs, bus, kept>>
    BY <1>5 DEF Works
  <2>2. src'[s] = src[s]
    BY <1>0, <1>a, <1>5, SourcesChange DEF Edit, AppTypes
  <2> QED
    BY <2>1, <2>2
<1>6. ASSUME Crash PROVE NoMore
  BY <1>6 DEF Crash, Restart
<1>7. NoMore
  <2> HIDE DEF NoMore
  <2> QED
    BY <1>1, <1>2, <1>3, <1>4, <1>5, <1>6, Steps
<1> QED
  BY <1>7 DEF Killed, Unworked, Dropt

\* What a deletion does where it is.
LEMMA StepIs ==
  ASSUME NEW j \in Deletes, DeleteStep(j), Running(j)
  PROVE  /\ del[j].at = "processes" => KillProcesses(j)
         /\ del[j].at = "workspace" => RemoveWorkspace(j)
         /\ del[j].at = "checkpoint" => DropCheckpoint(j)
         /\ del[j].at = "bus" => ClearBus(j)
BY DEF DeleteStep, Running, Begin, NextSession, CancelAgent, AgentAwaited, KillProcesses, ListApps, TearDown,
   RemoveApp, AppsGone, RemoveWorkspace, DropCheckpoint, ClearBus, DropRows, DropProject, At

\* The sessions a deletion is done with have nothing left, as long as they have a row.
LEMMA PurgedStay ==
  ASSUME TraceInv, DeletionNext
  PROVE  Purged'
<1>0. TypesInv /\ late \subseteq late' /\ DelTypes /\ DelShape /\ AppTypes /\ Purged /\ Narrow
      /\ Registered
  BY LateGrows DEF TraceInv, TypesInv, Basis
<1> SUFFICES ASSUME NEW j \in Deletes, Running(j)', NEW s \in Targets(j)', s \in sess', s \notin late'
             PROVE  Emptied(j, s)'
  BY DEF Purged
<1>1. ~Crash
  BY <1>0, Crashes DEF Running
<1>2. s \in sess /\ s \in Sessions /\ s \notin late
  <2>1. sess' \subseteq sess
    <3>1. ASSUME NEW i \in Deletes, DeleteStep(i) PROVE sess' \subseteq sess
      BY <1>0, <3>1, Shrinking DEF Shrinks
    <3>2. DeployNext => sess' = sess
      BY SessionsStay
    <3>3. UNCHANGED deployVars => sess' = sess
      BY DEF deployVars
    <3> QED
      BY <3>1, <3>2, <3>3, Steps, CalmSteps
  <2> QED
    BY <1>0, <2>1 DEF Narrow
<1>3. ASSUME Running(j), s \in Targets(j)
      PROVE  /\ Emptied(j, s) /\ (Killed(s) => Killed(s)') /\ (Unworked(s) => Unworked(s)')
             /\ (Dropt(s) => Dropt(s)') /\ (s \notin bus => s \notin bus')
  <2>1. Under(s)
    BY <1>2, <1>3 DEF Under, Running, Open
  <2> QED
    BY <1>0, <1>2, <1>3, <2>1, NotAdded DEF Purged
<1>4. CASE Held(j)
  BY <1>3, <1>4, HeldIs DEF Emptied
<1>5. ASSUME NEW t \in Sessions, Asks(j, t) PROVE Emptied(j, s)'
  BY <1>0, <1>2, <1>5, NoneDone DEF Emptied
<1>6. CASE DeleteStep(j)
  <2>1. Walks(j) \/ Picks(j) \/ Opens(j)
    <3>1. ~Closes(j)
      BY DEF Closes, Running, Outcomes
    <3> QED
      BY <1>0, <1>6, <3>1, DelSteps
  <2>2. ASSUME NEW steps \in Reached, s \in Done(j, steps)'
        PROVE  /\ Running(j) /\ s \in Targets(j)
               /\ \/ s \in Done(j, steps)
                  \/ Walks(j) /\ s = del[j].cur /\ del'[j].at \in steps /\ del[j].at \notin steps
    <3>1. /\ Running(j)
          /\ \/ s \in Done(j, steps)
             \/ Walks(j) /\ s = del[j].cur /\ del'[j].at \in steps /\ del[j].at \notin steps
      BY <1>0, <1>2, <2>1, <2>2, DoneAfter
    <3>2. Targets(j)' = Targets(j)
      BY <2>1, <3>1 DEF Walks, Picks, Opens, Stays, SameDel, Targets, Running
    <3> QED
      BY <3>1, <3>2
  <2>0. ASSUME s \in Done(j, KillDone)' PROVE Killed(s)'
    <3>1. Running(j) /\ s \in Targets(j)
      BY <2>2, <2>0 DEF Reached
    <3>2. CASE s \in Done(j, KillDone)
      BY <1>3, <3>1, <3>2 DEF Emptied
    <3>3. CASE s = del[j].cur /\ Walks(j) /\ del'[j].at \in KillDone /\ del[j].at \notin KillDone
      <4>1. del[j].at = "processes"
        BY <3>3 DEF Walks, KillDone, AppsDone, SrcDone, CkptDone, BusDone
      <4>2. KillProcesses(j) /\ (s \in procs \/ Killed(s))
        BY <1>0, <1>2, <1>6, <3>1, <4>1, StepIs DEF Registered
      <4> QED
        BY <3>3, <4>2 DEF KillProcesses, Leaves, Killed
    <3> QED
      BY <2>2, <2>0, <3>2, <3>3 DEF Reached
  <2>3. ASSUME s \in Done(j, SrcDone)' PROVE Unworked(s)'
    <3>1. Running(j) /\ s \in Targets(j)
      BY <2>2, <2>3 DEF Reached
    <3>2. CASE s \in Done(j, SrcDone)
      BY <1>3, <3>1, <3>2 DEF Emptied
    <3>3. CASE s = del[j].cur /\ Walks(j) /\ del'[j].at \in SrcDone /\ del[j].at \notin SrcDone
      <4>1. del[j].at = "workspace"
        BY <3>3 DEF Walks, SrcDone, CkptDone, BusDone
      <4>2. RemoveWorkspace(j) /\ ProjectOf[s] \in projects
        BY <1>0, <1>2, <1>6, <3>1, <4>1, StepIs DEF DelTypes
      <4>3. src' = [src EXCEPT ![s] = 0] \/ <<"workspace", s>> \in kept'
        BY <3>3, <4>2 DEF RemoveWorkspace, Leaves
      <4> QED
        BY <1>0, <1>2, <4>3 DEF AppTypes, Unworked
    <3> QED
      BY <2>2, <2>3, <3>2, <3>3 DEF Reached
  <2>4. ASSUME s \in Done(j, CkptDone)' PROVE Dropt(s)'
    <3>1. Running(j) /\ s \in Targets(j)
      BY <2>2, <2>4 DEF Reached
    <3>2. CASE s \in Done(j, CkptDone)
      BY <1>3, <3>1, <3>2 DEF Emptied
    <3>3. CASE s = del[j].cur /\ Walks(j) /\ del'[j].at \in CkptDone /\ del[j].at \notin CkptDone
      <4>1. del[j].at = "checkpoint"
        BY <3>3 DEF Walks, CkptDone, BusDone
      <4> QED
        BY <1>6, <3>1, <3>3, <4>1, StepIs DEF DropCheckpoint, Leaves, Dropt
    <3> QED
      BY <2>2, <2>4, <3>2, <3>3 DEF Reached
  <2>5. ASSUME s \in Done(j, BusDone)' PROVE s \notin bus'
    <3>1. Running(j) /\ s \in Targets(j)
      BY <2>2, <2>5 DEF Reached
    <3>2. CASE s \in Done(j, BusDone)
      BY <1>3, <3>1, <3>2 DEF Emptied
    <3>3. CASE s = del[j].cur /\ Walks(j) /\ del'[j].at \in BusDone /\ del[j].at \notin BusDone
      <4>1. del[j].at = "bus"
        BY <3>3 DEF Walks, BusDone
      <4> QED
        BY <1>6, <3>1, <3>3, <4>1, StepIs DEF ClearBus
    <3> QED
      BY <2>2, <2>5, <3>2, <3>3 DEF Reached
  <2> QED
    BY <2>0, <2>3, <2>4, <2>5 DEF Emptied
<1> QED
  BY <1>0, <1>1, <1>4, <1>5, <1>6, HeldOr

\* A process is registered when it starts, and its row goes when it is told to end or with
\* its session's.
LEMMA RegisteredStays ==
  ASSUME TraceInv, DeletionNext
  PROVE  Registered'
<1>0. TypesInv /\ late \subseteq late' /\ Registered
  BY LateGrows DEF TraceInv
<1> SUFFICES ASSUME NEW s \in sess', s \notin late'
             PROVE  s \in procs' \/ Killed(s)'
  BY DEF Registered
<1>1. CASE UNCHANGED <<sess, procs, runs, kept>>
  BY <1>0, <1>1 DEF Registered, Killed
<1>2. ASSUME NEW t \in Sessions, Post(t) \/ TurnWorks(t) \/ TurnEnds(t) PROVE s \in procs' \/ Killed(s)'
  <2>1. UNCHANGED sess /\ UNCHANGED kept
    BY <1>2 DEF Post, TurnWorks, TurnEnds, Unmoved, deployVars
  <2>2. CASE TurnWorks(t)
    BY <1>0, <2>1, <2>2 DEF TurnWorks, Registered, Killed
  <2>3. CASE Post(t) \/ TurnEnds(t)
    BY <1>1, <2>1, <2>3 DEF Post, TurnEnds, Unmoved
  <2> QED
    BY <1>2, <2>2, <2>3
<1>3. ASSUME NEW j \in Deletes, NEW t \in Sessions, Asks(j, t) PROVE s \in procs' \/ Killed(s)'
  BY <1>0, <1>1, <1>3, AskedFor DEF deployVars
<1>4. ASSUME NEW j \in Deletes, AskCancel(j) PROVE s \in procs' \/ Killed(s)'
  BY <1>1, <1>4 DEF AskCancel, deployVars
<1>5. ASSUME NEW j \in Deletes, DeleteStep(j) PROVE s \in procs' \/ Killed(s)'
  <2>1. s \in sess /\ s \notin late /\ runs' \subseteq runs /\ kept \subseteq kept'
    BY <1>0, <1>5, Shrinking DEF Shrinks
  <2>2. s \in procs \/ Killed(s)
    BY <1>0, <2>1 DEF Registered
  <2>3. CASE KillProcesses(j)
    BY <2>2, <2>3 DEF KillProcesses, Leaves, Killed
  <2>4. CASE s \in procs => s \in procs'
    BY <2>1, <2>2, <2>4 DEF Killed
  <2>5. CASE ~KillProcesses(j)
    <3>1. UNCHANGED procs \/ \E gone : Dropped(gone)
      BY <1>5, <2>5 DEF DeleteStep, Begin, NextSession, CancelAgent, AgentAwaited, ListApps, TearDown,
         RemoveApp, AppsGone, RemoveWorkspace, DropCheckpoint, ClearBus, DropRows, DropProject
    <3> QED
      BY <2>4, <3>1 DEF Dropped
  <2> QED
    BY <2>3, <2>5
<1>6. CASE Works
  <2>1. sess' = sess
    BY <1>6, WorksIs, SessionsStay
  <2> QED
    BY <1>1, <1>6, <2>1 DEF Works
<1>7. CASE Crash
  BY <1>1, <1>7 DEF Crash, Restart
<1> QED
  BY <1>2, <1>3, <1>4, <1>5, <1>6, <1>7, Steps

\* Nor when it has none.
LEMMA GoneStay ==
  ASSUME TraceInv, DeletionNext
  PROVE  Gone'
<1>0. TypesInv /\ late \subseteq late' /\ Purged /\ Gone
  BY LateGrows DEF TraceInv
<1> SUFFICES ASSUME NEW s \in Sessions, s \notin sess', s \notin late'
             PROVE  s \notin bus' /\ Killed(s)' /\ Unworked(s)' /\ Dropt(s)'
  BY DEF Gone
<1>1. CASE s \notin sess
  BY <1>0, <1>1, NotAdded DEF Gone
<1>2. CASE s \in sess
  <2>1. ASSUME NEW j \in Deletes, DeleteStep(j)
        PROVE  s \notin bus' /\ Killed(s)' /\ Unworked(s)' /\ Dropt(s)'
    <3>1. PICK gone \in SUBSET Targets(j) :
            /\ Dropped(gone) /\ Running(j) /\ gone \subseteq Done(j, BusDone)
            /\ UNCHANGED <<runs, ckpt, bus, kept, late>>
      BY <1>0, <1>2, <2>1, Drops
    <3>2. s \in gone /\ UNCHANGED src
      BY <1>2, <3>1 DEF Dropped
    <3>3. /\ s \in Done(j, BusDone) /\ s \in Done(j, CkptDone) /\ s \in Done(j, SrcDone)
          /\ s \in Done(j, KillDone)
      BY <3>1, <3>2 DEF Done, KillDone, AppsDone, SrcDone, CkptDone
    <3>4. Emptied(j, s)
      BY <1>0, <1>2, <3>1, <3>2 DEF Purged
    <3> QED
      BY <3>1, <3>2, <3>3, <3>4 DEF Emptied, Killed, Unworked, Dropt
  <2>2. DeployNext => sess' = sess
    BY SessionsStay
  <2>3. UNCHANGED deployVars => sess' = sess
    BY DEF deployVars
  <2> QED
    BY <1>2, <2>1, <2>2, <2>3, Steps, CalmSteps
<1> QED
  BY <1>1, <1>2

-----------------------------------------------------------------------------
LEMMA TraceInitially == DeletionInit => TraceInv
<1> SUFFICES ASSUME DeletionInit PROVE TraceInv
  OBVIOUS
<1>1. /\ sess = Sessions /\ row = [k \in Slugs |-> NoRow] /\ unit = [k \in Slugs |-> NoUnit]
      /\ files = [k \in Slugs |-> Empty] /\ parked = [k \in Slugs |-> Empty]
      /\ job = [d \in Deploys |-> NoJob] /\ stray = [d \in Deploys |-> "none"]
      /\ del = [j \in Deletes |-> NoDel] /\ runs = {}
  BY DEF DeletionInit, DeployInit
<1>2. TypesInv
  BY TypesInitially
<1>3. \A k \in Slugs : \A d \in Authors(k) : d = 0
  BY <1>1, AuthorsAre DEF Empty, NoUnit
<1>4. \A j \in Deletes : ~Running(j) /\ ~Open(j)
  BY <1>1 DEF Running, Open, NoDel
<1>5. AuthorsOwn /\ Rowless
  BY <1>3 DEF AuthorsOwn, Rowless, Ashes
<1>6. RowsLive /\ StraysLate /\ Gone /\ Registered
  BY <1>1 DEF RowsLive, Has, StraysLate, Gone, Registered, Killed
<1>7. Quiet
  BY <1>1, <1>4 DEF Quiet, Under
<1>8. AppsCleared /\ Purged
  BY <1>4 DEF AppsCleared, Purged
<1> QED
  BY <1>2, <1>5, <1>6, <1>7, <1>8 DEF TraceInv

LEMMA TraceStays ==
  ASSUME TraceInv, DeletionNext
  PROVE  TraceInv'
<1>1. TypesInv' /\ AuthorsOwn' /\ RowsLive' /\ StraysLate' /\ Quiet'
  BY TypesStay, AuthorsStay, RowsLiveStay, StraysLateStay, QuietStays DEF TraceInv
<1>2. Purged' /\ Gone' /\ Registered'
  BY PurgedStay, GoneStay, RegisteredStays
<1>3. \/ UNCHANGED deployVars \/ Works \/ Crash \/ \E i \in Deletes : DeleteStep(i)
  BY Steps, CalmSteps
<1>4. Rowless'
  <2>1. CASE UNCHANGED deployVars /\ ~Crash
    BY <2>1, LateGrows, SmoothBefore, RowlessCalm DEF TraceInv
  <2> QED
    BY <1>3, <2>1, RowlessWorks, RowlessRestart, RowlessDeletes
<1>5. AppsCleared'
  <2>1. CASE Crash
    <3>1. \A j \in Deletes : ~Running(j)'
      BY <2>1, Crashes DEF TraceInv, TypesInv, Running
    <3> QED
      BY <3>1 DEF AppsCleared
  <2>2. CASE ~Crash
    BY <1>3, <1>4, <2>2, ClearedWorks, ClearedElse
  <2> QED
    BY <2>1, <2>2
<1> QED
  BY <1>1, <1>2, <1>4, <1>5 DEF TraceInv

LEMMA TraceKept ==
  ASSUME TraceInv, UNCHANGED deletionVars
  PROVE  TraceInv'
<1>1. /\ UNCHANGED <<sess, row, files, parked, unit, src, job, stray>>
      /\ UNCHANGED <<turn, procs, runs, ckpt, bus, del, kept, late>>
  BY DEF deletionVars, delVars, deployVars, appVars, jobVars
<1>2. TypesInv'
  BY TypesKept DEF TraceInv
<1>3. \A k \in Slugs : Authors(k)' = Authors(k) /\ (Has(k)' <=> Has(k)) /\ (Ashes(k)' <=> Ashes(k))
  BY <1>1 DEF Authors, Has, Ashes, Lapsed, Active, InFlight
<1>4. AuthorsOwn' /\ RowsLive' /\ StraysLate'
  BY <1>1, <1>3 DEF TraceInv, AuthorsOwn, RowsLive, StraysLate
<1>5. Quiet'
  BY <1>1 DEF TraceInv, Quiet, Under, Open, Targets, Active, InFlight
<1>6. Rowless'
  BY <1>1, <1>3 DEF TraceInv, Rowless, Smooth
<1>7. \A j \in Deletes : /\ (Running(j)' <=> Running(j)) /\ (UnitDown(j)' <=> UnitDown(j))
                         /\ \A k \in Slugs : Cleared(j, k)' <=> Cleared(j, k)
  BY <1>1 DEF Running, UnitDown, Cleared, Done, Targets, Lapsed, Active, InFlight
<1>8. AppsCleared'
  BY <1>1, <1>3, <1>7 DEF TraceInv, AppsCleared, Smooth
<1>9. Purged' /\ Gone' /\ Registered'
  BY <1>1 DEF TraceInv, Purged, Gone, Registered, Running, Emptied, Done, Targets, Killed, Unworked, Dropt
<1> QED
  BY <1>2, <1>4, <1>5, <1>6, <1>8, <1>9 DEF TraceInv

\* Every reachable state accounts for what is left of a session: to each deletion what it
\* has dealt with, to each author whose app has gone the work that was still under way.
THEOREM TraceInvariant == DeletionSpec => []TraceInv
<1> QED
  BY TraceInitially, TraceStays, TraceKept, PTL DEF DeletionSpec

\* NoTrace: a session that was deleted while nothing else worked on it leaves no row of a
\* process and no bus, no process, checkpoint or workspace but one whose own removal failed,
\* and, unless something of an app stayed, no file or unit but in another session's app
\* (app.py _run_delete_job, _purge_session_everything).
THEOREM NoTraceHolds == DeletionSpec => []NoTrace
<1>1. ASSUME TraceInv PROVE NoTrace
  <2> SUFFICES ASSUME NEW s \in Sessions, s \notin sess, s \notin late
               PROVE  Traceless(s) /\ (Smooth => Appless(s))
    BY DEF NoTrace, Smooth
  <2>1. Traceless(s)
    BY <1>1 DEF TraceInv, TypesInv, DelTypes, Gone, Killed, Unworked, Dropt, Traceless
  <2> SUFFICES ASSUME Smooth PROVE Appless(s)
    BY <2>1
  <2>2. ASSUME NEW k \in Slugs, NEW d \in Authors(k), d # 0, job[d].from = s
        PROVE  Has(k) /\ row[k].from # s
    <3>1. d \in Deploys
      BY <1>1, <2>2 DEF TraceInv, AuthorsOwn
    <3>2. ~Lapsed(d)
      BY <1>1, <2>2, <3>1 DEF TraceInv, Quiet, Lapsed
    <3>3. Has(k)
      BY <1>1, <2>2, <3>2 DEF TraceInv, Rowless, Ashes
    <3> QED
      BY <1>1, <3>3 DEF TraceInv, RowsLive
  <2> QED
    BY <2>2 DEF Appless
<1> QED
  BY <1>1, TraceInvariant, PTL

-----------------------------------------------------------------------------
(***************************************************************************)
(* That a deletion waits for nothing but the event loop.                      *)
(***************************************************************************)
\* The guard of some step of deletion j holds.
Proceeds(j) ==
  \/ del[j].status = "pending" /\ Free
  \/ del[j].status = "running" /\ del[j].at = "wait" /\ Free
  \/ \E step \in (PreDrop \ {"wait", "apps"}) \cup {"next", "project"} : At(j, step)
  \/ At(j, "apps") /\ (del[j].apps = {} \/ \E k \in Slugs : k \in del[j].apps)

\* No deletion that could have the loop is stuck (app.py _run_delete_job,
\* _purge_session_everything).
NoneStuck == \A j \in Deletes : Open(j) /\ (del[j].sync \/ loop \in {0, j}) => Proceeds(j)

\* A running deletion is at a step, and an asynchronous one has the loop but while it waits
\* for the agent.
Scheduled(j) ==
  /\ Running(j) => del[j].at \in PreDrop \cup {"next", "project"}
  /\ Running(j) /\ ~del[j].sync /\ del[j].at # "wait" => loop = j
  /\ del[j].at = "wait" => loop # j

LoopInv == \A j \in Deletes : Scheduled(j)

\* What a step of a deletion does to the loop.
LEMMA LoopAfter ==
  ASSUME TypesInv, LoopInv, NEW j \in Deletes, DeleteStep(j)
  PROVE  \/ del[j].sync /\ Running(j) /\ loop' = loop
         \/ /\ ~del[j].sync /\ loop \in {0, j}
            /\ \/ Closes(j) /\ loop' = 0
               \/ del'[j].at = "wait" /\ loop' = 0
               \/ del'[j].at # "wait" /\ loop' = j
<1> DEFINE Result ==
         \/ del[j].sync /\ Running(j) /\ loop' = loop
         \/ /\ ~del[j].sync /\ loop \in {0, j}
            /\ \/ Closes(j) /\ loop' = 0
               \/ del'[j].at = "wait" /\ loop' = 0
               \/ del'[j].at # "wait" /\ loop' = j
<1> SUFFICES Result
  OBVIOUS
<1>0. DelTypes /\ Shape(j) /\ Scheduled(j) /\ j # 0 /\ (loop = j => ~del[j].sync)
  BY DEF TypesInv, DelShape, LoopInv, DelTypes, Deletes
<1>a. {"failed", "cancelled", "succeeded"} \subseteq Outcomes
  BY DEF Outcomes
<1>b. OtherDels(j) /\ (Walks(j) \/ Picks(j) \/ Opens(j) \/ Closes(j))
  BY DelSteps DEF TypesInv
<1>1. ASSUME NEW status \in {"failed", "cancelled", "succeeded"}, Open(j), Ends(j, status),
             loop \in {0, j} \/ (del[j].sync /\ Running(j))
      PROVE  Result
  <2>1. Closes(j) /\ loop' = (IF loop = j THEN 0 ELSE loop)
    BY <1>0, <1>1, <1>a, EndsIs
  <2>2. CASE del[j].sync
    <3>1. Running(j) /\ loop # j
      BY <1>0, <1>1, <2>2 DEF Open, Running, Shape
    <3> QED
      BY <2>1, <2>2, <3>1
  <2> QED
    BY <1>1, <2>1, <2>2
<1>2. CASE Begin(j)
  <2>1. del[j].status = "pending" /\ loop = 0 /\ ~del[j].sync /\ Open(j)
    BY <1>0, <1>2 DEF Begin, Free, Shape, Open
  <2>2. CASE Ends(j, "failed")
    BY <1>1, <2>1, <2>2
  <2>3. CASE ~Ends(j, "failed")
    <3>1. loop' = j
      BY <1>2, <2>3 DEF Begin
    <3>2. Opens(j) \/ Closes(j)
      BY <1>b, <2>1 DEF Walks, Picks
    <3>3. del'[j].at # "wait"
      BY <3>2 DEF Opens, Closes
    <3> QED
      BY <2>1, <3>1, <3>3
  <2> QED
    BY <2>2, <2>3
<1>3. CASE CancelAgent(j)
  <2>1. Running(j) /\ del[j].at = "agent" /\ ~del[j].sync /\ loop = j
    BY <1>0, <1>3 DEF CancelAgent, At, Running, Shape
  <2>2. CASE Goes(j, "wait") /\ loop' = 0
    <3>1. del'[j].at = "wait"
      BY <1>0, <2>2, GoesIs DEF Ats, PreDrop
    <3> QED
      BY <2>1, <2>2, <3>1
  <2>3. CASE Goes(j, "processes") /\ loop' = loop
    <3>1. del'[j].at = "processes"
      BY <1>0, <2>3, GoesIs DEF Ats, PreDrop
    <3> QED
      BY <2>1, <2>3, <3>1
  <2> QED
    BY <1>3, <2>2, <2>3 DEF CancelAgent
<1>4. CASE AgentAwaited(j)
  <2>1. Running(j) /\ del[j].at = "wait" /\ ~del[j].sync /\ loop = 0 /\ Open(j)
    BY <1>0, <1>4 DEF AgentAwaited, Free, Running, Shape, Open
  <2>2. CASE Ends(j, "cancelled")
    BY <1>1, <2>1, <2>2
  <2>3. CASE Goes(j, "processes") /\ loop' = j
    <3>1. del'[j].at = "processes"
      BY <1>0, <2>3, GoesIs DEF Ats, PreDrop
    <3> QED
      BY <2>1, <2>3, <3>1
  <2> QED
    BY <1>4, <2>2, <2>3 DEF AgentAwaited
<1>5. ASSUME NEW step \in PreDrop \cup {"next", "project"}, At(j, step), step \notin {"agent", "wait"},
             UNCHANGED loop
      PROVE  Result
  <2>1. Running(j) /\ del[j].at = step /\ (~del[j].sync => loop = j)
    BY <1>5 DEF At, Running
  <2>2. del'[j].at # "wait"
    BY <1>b, <1>5, <2>1 DEF Walks, Picks, Opens, Closes
  <2> QED
    BY <1>5, <2>1, <2>2
<1>6. CASE NextSession(j)
  <2>1. At(j, "next")
    BY <1>6 DEF NextSession
  <2>2. CASE Ends(j, "cancelled")
    <3>1. Open(j) /\ Running(j) /\ (~del[j].sync => loop = j)
      BY <2>1 DEF At, Open, Running
    <3> QED
      BY <1>0, <1>1, <2>2, <3>1 DEF DelTypes, Dels
  <2>3. CASE UNCHANGED loop
    BY <1>5, <2>1, <2>3
  <2> QED
    BY <1>6, <2>2, <2>3 DEF NextSession
<1>7. CASE DropProject(j)
  <2>1. Ends(j, "failed") \/ Ends(j, "succeeded")
    BY <1>7 DEF DropProject
  <2>2. Open(j) /\ Running(j) /\ (~del[j].sync => loop = j)
    BY <1>7 DEF DropProject, At, Open, Running
  <2> QED
    BY <1>1, <2>1, <2>2
<1>8. CASE \/ KillProcesses(j) \/ AppsGone(j) \/ RemoveWorkspace(j) \/ DropCheckpoint(j) \/ ClearBus(j)
           \/ ListApps(j) \/ RemoveApp(j) \/ DropRows(j) \/ \E k \in Slugs : TearDown(j, k)
  <2>1. UNCHANGED loop
    BY <1>8 DEF KillProcesses, AppsGone, RemoveWorkspace, DropCheckpoint, ClearBus, ListApps, RemoveApp,
                DropRows, TearDown
  <2>2. \E step \in {"processes", "apps", "workspace", "checkpoint", "bus", "list", "tree", "rows"} : At(j, step)
    BY <1>8 DEF KillProcesses, AppsGone, RemoveWorkspace, DropCheckpoint, ClearBus, ListApps, RemoveApp,
                DropRows, TearDown
  <2> QED
    BY <1>5, <2>1, <2>2 DEF PreDrop
<1> HIDE DEF Result
<1> QED
  BY <1>2, <1>3, <1>4, <1>6, <1>7, <1>8 DEF DeleteStep

\* Only one asynchronous deletion is past its wait at a time: the next one starts, or goes on,
\* when the loop is free.
LEMMA LoopDeletes ==
  ASSUME TypesInv, TypesInv', LoopInv, NEW j \in Deletes, DeleteStep(j)
  PROVE  LoopInv'
<1>1. OtherDels(j) /\ (Walks(j) \/ Picks(j) \/ Opens(j) \/ Closes(j))
  BY DelSteps DEF TypesInv
<1>2. Shape(j) /\ Shape(j)' /\ Scheduled(j) /\ j # 0 /\ (loop = j => ~del[j].sync)
  BY DEF TypesInv, DelShape, LoopInv, DelTypes, Deletes
<1>3. ASSUME NEW i \in Deletes, i # j PROVE Scheduled(i)'
  <2>1. del'[i] = del[i] /\ Scheduled(i) /\ i # 0
    BY <1>1, <1>3 DEF OtherDels, LoopInv, Deletes
  <2>2. loop' = loop \/ (loop \in {0, j} /\ loop' \in {0, j})
    BY LoopAfter
  <2> QED
    BY <1>3, <2>1, <2>2 DEF Scheduled, Running
<1>4. Scheduled(j)'
  <2>1. Running(j)' => del'[j].at \in PreDrop \cup {"next", "project"}
    BY <1>1 DEF Walks, Picks, Opens, Closes, Running, Outcomes, PreDrop
  <2>2. CASE del[j].sync /\ Running(j) /\ loop' = loop
    <3>1. Closes(j) \/ del'[j].sync
      BY <1>1, <2>2 DEF Walks, Picks, Opens, Stays, SameDel
    <3>2. CASE Closes(j)
      BY <3>2 DEF Closes, Outcomes, Scheduled, Running
    <3>3. CASE del'[j].sync
      BY <1>2, <2>1, <3>3 DEF Scheduled, Shape
    <3> QED
      BY <3>1, <3>2, <3>3
  <2>3. CASE Closes(j)
    BY <2>3 DEF Closes, Outcomes, Scheduled, Running
  <2>4. CASE del'[j].at = "wait" /\ loop' = 0
    BY <1>2, <2>1, <2>4 DEF Scheduled
  <2>5. CASE del'[j].at # "wait" /\ loop' = j
    BY <2>1, <2>5 DEF Scheduled
  <2> QED
    BY <2>2, <2>3, <2>4, <2>5, LoopAfter
<1> QED
  BY <1>3, <1>4 DEF LoopInv

LEMMA LoopStays ==
  ASSUME TypesInv, TypesInv', LoopInv, DeletionNext
  PROVE  LoopInv'
<1>0. DelTypes /\ DelShape
  BY DEF TypesInv
<1>1. ASSUME UNCHANGED <<del, loop>> PROVE LoopInv'
  BY <1>1 DEF LoopInv, Scheduled, Running
<1>2. ASSUME NEW s \in Sessions, Post(s) \/ TurnWorks(s) \/ TurnEnds(s) PROVE LoopInv'
  BY <1>1, <1>2 DEF Post, TurnWorks, TurnEnds, Unmoved
<1>3. ASSUME NEW j \in Deletes, NEW s \in Sessions, Asks(j, s) PROVE LoopInv'
  <2>1. /\ OtherDels(j) /\ UNCHANGED loop
        /\ \/ del'[j].status = "running" /\ del'[j].at = "next"
           \/ del'[j].status = "pending" /\ del'[j].at = "none"
    BY <1>3, AskedFor
  <2>2. del'[j].status = "running" => del'[j].sync
    <3>1. PICK project \in BOOLEAN, sync \in BOOLEAN : AskDeletion(j, s, project, sync)
      BY <1>3 DEF Asks
    <3> DEFINE left == IF project THEN InProject(ProjectOf[s]) ELSE {s}
    <3>2. del'[j] = [NoDel EXCEPT !.status = IF sync THEN "running" ELSE "pending",
                        !.at = IF sync THEN "next" ELSE "none", !.sync = sync,
                        !.project = project, !.target = s, !.left = left]
      BY <1>0, <3>1 DEF AskDeletion, DelTypes
    <3> HIDE DEF left
    <3>3. del'[j].status = (IF sync THEN "running" ELSE "pending") /\ (del'[j].sync <=> sync)
      BY <3>2 DEF NoDel
    <3> QED
      BY <3>3
  <2>3. ASSUME NEW i \in Deletes PROVE Scheduled(i)'
    <3>1. CASE i = j
      BY <2>1, <2>2, <3>1 DEF Scheduled, Running
    <3>2. CASE i # j
      BY <2>1, <3>2 DEF OtherDels, LoopInv, Scheduled, Running
    <3> QED
      BY <3>1, <3>2
  <2> QED
    BY <2>3 DEF LoopInv
<1>4. ASSUME NEW j \in Deletes, AskCancel(j) PROVE LoopInv'
  <2>1. /\ OtherDels(j) /\ SameDel(j) /\ del'[j].at = del[j].at /\ UNCHANGED loop
    BY <1>0, <1>4, AskedToCancel DEF Stays
  <2> QED
    BY <2>1 DEF OtherDels, SameDel, LoopInv, Scheduled, Running
<1>5. ASSUME NEW j \in Deletes, DeleteStep(j) PROVE LoopInv'
  BY <1>5, LoopDeletes
<1>6. CASE Works
  BY <1>1, <1>6 DEF Works
<1>7. CASE Crash
  <2>1. \A j \in Deletes : del'[j].status \in {"none", "lost"} /\ del'[j].at = "none"
    BY <1>0, <1>7, Crashes
  <2> QED
    BY <2>1 DEF LoopInv, Scheduled, Running
<1> QED
  BY <1>2, <1>3, <1>4, <1>5, <1>6, <1>7, Steps

LEMMA LoopInitially == DeletionInit => LoopInv
BY DEF DeletionInit, LoopInv, Scheduled, Running, NoDel

\* An asynchronous deletion keeps the event loop from its first step to its end, but for the
\* wait for the agent it cancels, and no two of them are past it together (app.py
\* _run_delete_job).
THEOREM LoopInvariant == DeletionSpec => []LoopInv
<1>1. ASSUME LoopInv, UNCHANGED deletionVars PROVE LoopInv'
  BY <1>1 DEF deletionVars, delVars, LoopInv, Scheduled, Running
<1> QED
  BY <1>1, LoopInitially, LoopStays, TypesInvariant, PTL DEF DeletionSpec

\* NoneStuck, the guards of NeverStuck, for every set of sessions and any number of deletions.
THEOREM NoneStuckHolds == DeletionSpec => []NoneStuck
<1>1. ASSUME TypesInv, LoopInv, NEW j \in Deletes, Open(j), del[j].sync \/ loop \in {0, j}
      PROVE  Proceeds(j)
  <2>1. DelTypes /\ Shape(j) /\ Scheduled(j) /\ j # 0 /\ del[j] \in Dels
    BY <1>1 DEF TypesInv, DelShape, LoopInv, DelTypes, Deletes
  <2>2. CASE del[j].status = "pending"
    <3>1. ~del[j].sync /\ loop # j
      BY <2>1, <2>2 DEF Shape, DelTypes
    <3> QED
      BY <1>1, <2>2, <3>1 DEF Proceeds, Free
  <2>3. CASE Running(j) /\ del[j].at = "wait"
    <3>1. ~del[j].sync /\ loop # j
      BY <2>1, <2>3 DEF Shape, Scheduled
    <3> QED
      BY <1>1, <2>3, <3>1 DEF Proceeds, Free, Running
  <2>4. CASE Running(j) /\ del[j].at # "wait"
    <3>1. At(j, del[j].at)
      BY <2>1, <2>4 DEF At, Running, Scheduled
    <3>2. CASE del[j].at = "apps"
      <4>1. del[j].apps \subseteq Slugs
        BY <2>1 DEF Dels
      <4> QED
        BY <3>1, <3>2, <4>1 DEF Proceeds
    <3>3. CASE del[j].at # "apps"
      BY <2>1, <2>4, <3>1, <3>3 DEF Proceeds, Scheduled
    <3> QED
      BY <3>2, <3>3
  <2> QED
    BY <1>1, <2>2, <2>3, <2>4 DEF Open, Running
<1>2. TypesInv /\ LoopInv => NoneStuck
  BY <1>1 DEF NoneStuck
<1> QED
  BY <1>2, TypesInvariant, LoopInvariant, PTL
=============================================================================
