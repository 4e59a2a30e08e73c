------------------------- MODULE TurnLifecycleProofs -------------------------
(***************************************************************************)
(* Theorems about TurnLifecycle, for any number of turns and any prompts.  *)
(***************************************************************************)
EXTENDS TurnLifecycle, TLAPS

(***************************************************************************)
(* The inductive invariant behind the end-of-turn properties: what the     *)
(* suspension point of a task says about its worker and its output.        *)
(***************************************************************************)
NotOpened(t) ==
  /\ worker[t] = "none"
  /\ done[t] = 0
  /\ answer[t] = NoTurn
  /\ breadcrumb[t] = "none"
  /\ ~flag[t]

Driving(t) ==
  /\ opened[t]
  /\ ~flag[t]
  /\ breadcrumb[t] = "none"
  /\ worker[t] \notin {"none", "dropped"}
  /\ done[t] = (IF worker[t] = "returned" THEN 1 ELSE 0)

WorkDone(t) ==
  /\ opened[t]
  /\ ~flag[t]
  /\ breadcrumb[t] = "none"
  /\ worker[t] = "returned"
  /\ done[t] = 1

Failed(t) ==
  /\ opened[t]
  /\ ~flag[t]
  /\ breadcrumb[t] = "error"
  /\ worker[t] = "raised"
  /\ done[t] = 1

Interrupted(t) ==
  /\ opened[t]
  /\ flag[t]
  /\ breadcrumb[t] = "cancelled"
  /\ worker[t] \notin {"none", "queued"}
  /\ IF worker[t] = "returned" THEN done[t] \in {1, 2} ELSE done[t] = 1

TurnInv(t) ==
  /\ post[t] # "accepted" => pc[t] = "none"
  /\ pc[t] \in {"none", "created"} => ~opened[t] /\ NotOpened(t)
  /\ pc[t] = "driving" => Driving(t)
  /\ pc[t] \in {"cancelling", "saving"} => Interrupted(t)
  /\ pc[t] \in {"ports", "commit"} => WorkDone(t)
  /\ pc[t] = "ended" =>
       \/ ~opened[t] /\ NotOpened(t)
       \/ WorkDone(t) \/ Failed(t) \/ Interrupted(t)
  /\ summary[t] = (IF Closed(t) THEN 1 ELSE 0)
  /\ answer[t] # NoTurn => worker[t] = "returned"

IInv == TypeOK /\ \A t \in Turns : TurnInv(t)

(***************************************************************************)
(* The inductive invariant behind serialisation.                           *)
(***************************************************************************)
Waiting(u) == post[u] = "waiting"

SerialInv ==
  /\ \A t \in Turns : Live(t) => registry = t
  /\ \A t \in Turns : callback[t] => registry = t /\ pc[t] = "ended"
  /\ \A u, v \in Turns : Waiting(u) /\ Waiting(v) => u = v
  /\ \A t, u \in Turns : Waiting(u) /\ (Live(t) \/ callback[t]) => waitsFor[u] = t
-----------------------------------------------------------------------------
\* A step of turn t, or the cancel endpoint, is one of the actions below.
LEMMA StepCases ==
  ASSUME Next
  PROVE  \/ CancelTurn
         \/ \E t \in Turns :
              \/ PostFresh(t)
              \/ PostInterrupt(t)
              \/ PostResume(t)
              \/ DoneCallback(t)
              \/ TaskStart(t)
              \/ TaskNeverStarts(t)
              \/ TaskAnswered(t)
              \/ TaskError(t)
              \/ TaskCancelled(t)
              \/ CancelRead(t)
              \/ CancelPersist(t)
              \/ LateCancel(t)
              \/ WorkerRead(t)
              \/ WorkerSeed(t)
              \/ WorkerReply(t)
              \/ WorkerFinish(t)
              \/ WorkerPersist(t)
              \/ WorkerFail(t)
              \/ PortsStopped(t)
              \/ Committed(t)
BY Zenon DEF Next, Request, LoopStep, ThreadStep

\* Sequences of items: the empty one, and one more item at the end.
LEMMA ItemSeq ==
  /\ <<>> \in Seq(Item)
  /\ \A h \in Seq(Item), m \in Item : Append(h, m) \in Seq(Item)
OBVIOUS

\* Dropping the worker's own copy of the history keeps its type.
LEMMA ForgetType ==
  ASSUME NEW t \in Turns, mem \in [Turns -> Seq(Item)], Forget(t)
  PROVE  mem' \in [Turns -> Seq(Item)]
BY ItemSeq, Zenon DEF Forget

\* The prompt of a turn is a message.
LEMMA HumanType == \A t \in Turns : Human(t) \in Item
BY DEF Human, Item

\* A digest is a history too.
LEMMA SavedType ==
  ASSUME NEW t \in Turns, NEW h \in Seq(Item), NEW g \in Saved(h, t)
  PROVE  g \in Seq(Item)
<1>1. [role |-> "digest", turn |-> t] \in Item
  BY DEF Item
<1>2. <<[role |-> "digest", turn |-> t]>> \in Seq(Item)
  BY <1>1
<1> QED
  BY <1>2, Zenon DEF Saved

\* Every step keeps the types; the bounds on done and summary need TurnInv.
LEMMA TypeStep ==
  ASSUME IInv, [Next]_vars
  PROVE  TypeOK'
<1> USE DEF TypeOK, requestVars, taskVars, graphVars, outputVars, PostStates,
            TaskStates, WorkerStates, NoTurn
<1>a. TypeOK /\ \A s \in Turns : TurnInv(s)
  BY DEF IInv
<1>1. ASSUME NEW t \in Turns, PostFresh(t) PROVE TypeOK'
  BY <1>a, <1>1 DEF PostFresh, CreateTask
<1>2. ASSUME NEW t \in Turns, PostInterrupt(t) PROVE TypeOK'
  BY <1>a, <1>2 DEF PostInterrupt, InFlight
<1>3. ASSUME NEW t \in Turns, PostResume(t) PROVE TypeOK'
  BY <1>a, <1>3 DEF PostResume, CreateTask
<1>4. ASSUME NEW t \in Turns, DoneCallback(t) PROVE TypeOK'
  BY <1>a, <1>4 DEF DoneCallback
<1>5. ASSUME NEW t \in Turns, TaskStart(t) PROVE TypeOK'
  BY <1>a, <1>5 DEF TaskStart
<1>6. ASSUME NEW t \in Turns, TaskNeverStarts(t) PROVE TypeOK'
  BY <1>a, <1>6 DEF TaskNeverStarts, EndTask
<1>7. ASSUME NEW t \in Turns, TaskAnswered(t) PROVE TypeOK'
  <2>1. summary[t] = 0
    BY <1>a, <1>7 DEF TaskAnswered, TurnInv, Closed
  <2> QED
    BY <1>a, <1>7, <2>1 DEF TaskAnswered
<1>8. ASSUME NEW t \in Turns, TaskError(t) PROVE TypeOK'
  <2>1. summary[t] = 0 /\ done[t] = 0
    BY <1>a, <1>8 DEF TaskError, TurnInv, Closed, Driving
  <2> QED
    BY <1>a, <1>8, <2>1 DEF TaskError, EndTask
<1>9. ASSUME NEW t \in Turns, TaskCancelled(t) PROVE TypeOK'
  BY <1>a, <1>9 DEF TaskCancelled, CancelHandler, TurnInv,
                    Driving
<1>10. ASSUME NEW t \in Turns, CancelPersist(t) PROVE TypeOK'
  <2>1. summary[t] = 0
    BY <1>a, <1>10 DEF CancelPersist, TurnInv, Closed
  <2>2. ckpt' = ckpt \/ ckpt' \in Saved(Append(held, Human(t)), t)
    <3>1. ckpt' \in {ckpt} \cup IF HasPrompt(held, t) THEN {} ELSE Saved(Append(held, Human(t)), t)
      BY <1>10, Zenon DEF CancelPersist
    <3> QED
      BY <3>1, Zenon
  <2>3. ckpt' \in Seq(Item)
    <3>1. ckpt \in Seq(Item) /\ held \in Seq(Item)
      BY <1>a
    <3>2. Append(held, Human(t)) \in Seq(Item)
      BY <3>1, HumanType, ItemSeq
    <3> QED
      BY <2>2, <3>1, <3>2, SavedType
  <2>4. UNCHANGED <<requestVars, cancelReq, flag, worker, mem, touched, opened,
                    done, answer, breadcrumb, committed>>
    BY <1>10, Zenon DEF CancelPersist
  <2>5. /\ pc' \in [Turns -> TaskStates]
        /\ callback' \in [Turns -> BOOLEAN]
        /\ summary' \in [Turns -> 0 .. 1]
        /\ held' \in Seq(Item)
    BY <1>a, <1>10, <2>1, ItemSeq DEF CancelPersist, EndTask
  <2> QED
    BY <1>a, <2>3, <2>4, <2>5
<1>11. ASSUME NEW t \in Turns, LateCancel(t) PROVE TypeOK'
  BY <1>a, <1>11 DEF LateCancel, EndTask
<1>12. ASSUME NEW t \in Turns, WorkerRead(t) PROVE TypeOK'
  BY <1>a, <1>12 DEF WorkerRead, WorkerMoves, Human, Item
<1>13. ASSUME NEW t \in Turns, WorkerSeed(t) PROVE TypeOK'
  <2>1. ckpt' \in Seq(Item)
    BY <1>a, <1>13, SavedType DEF WorkerSeed
  <2>2. worker' \in [Turns -> WorkerStates]
    BY <1>a, <1>13 DEF WorkerSeed, WorkerMoves
  <2>3. UNCHANGED <<requestVars, taskVars, flag, mem, touched, outputVars,
                    committed, held>>
    BY <1>13 DEF WorkerSeed
  <2> QED
    BY <1>a, <2>1, <2>2, <2>3
<1>14. ASSUME NEW t \in Turns, WorkerReply(t) PROVE TypeOK'
  <2>1. PICK h \in Saved(mem[t], t), role \in {"ai", "thought"} :
          mem' = [mem EXCEPT ![t] = Append(h, [role |-> role, turn |-> t])]
    BY <1>14, Zenon DEF WorkerReply
  <2>2. Append(h, [role |-> role, turn |-> t]) \in Seq(Item)
    <3>1. [role |-> role, turn |-> t] \in Item
      BY DEF Item
    <3>2. h \in Seq(Item)
      BY <1>a, SavedType
    <3> QED
      BY <3>1, <3>2, ItemSeq
  <2>3. mem' \in [Turns -> Seq(Item)]
    BY <1>a, <2>1, <2>2
  <2>4. ckpt' \in Saved(mem'[t], t)
    BY <1>14, Zenon DEF WorkerReply
  <2>5. ckpt' \in Seq(Item)
    BY <2>3, <2>4, SavedType
  <2>6. touched' \in [Turns -> BOOLEAN]
    BY <1>a, <1>14 DEF WorkerReply
  <2>7. UNCHANGED <<requestVars, taskVars, flag, worker, outputVars, committed, held>>
    BY <1>14, Zenon DEF WorkerReply
  <2> QED
    BY <1>a, <2>3, <2>5, <2>6, <2>7
<1>15. ASSUME NEW t \in Turns, WorkerFinish(t) PROVE TypeOK'
  <2>1. /\ mem' \in [Turns -> Seq(Item)]
        /\ worker' \in [Turns -> WorkerStates]
    <3>1. CASE flag[t]
      <4>1. Forget(t)
        BY <1>15, <3>1 DEF WorkerFinish
      <4> QED
        BY <1>a, <1>15, <3>1, <4>1, ForgetType DEF WorkerFinish, WorkerMoves
    <3>2. CASE ~flag[t]
      BY <1>a, <1>15, <3>2 DEF WorkerFinish, WorkerMoves
    <3> QED
      BY <3>1, <3>2
  <2> QED
    BY <1>a, <1>15, <2>1 DEF WorkerFinish
<1>16. ASSUME NEW t \in Turns, WorkerPersist(t) PROVE TypeOK'
  <2>1. done[t] \in {0, 1}
    BY <1>a, <1>16 DEF WorkerPersist, WorkerMoves, TurnInv, NotOpened, Driving,
                       WorkDone, Failed, Interrupted
  <2>2. answer' \in [Turns -> Turns \cup {NoTurn}]
    <3>1. ASSUME NEW i \in DOMAIN ckpt PROVE ckpt[i].turn \in Turns
      <4>1. ckpt[i] \in Item
        BY <1>a
      <4> QED
        BY <4>1 DEF Item
    <3> QED
      BY <1>a, <1>16, <3>1 DEF WorkerPersist, LastText
  <2>3. mem' \in [Turns -> Seq(Item)]
    BY <1>a, <1>16, ForgetType DEF WorkerPersist
  <2>4. /\ done' \in [Turns -> 0 .. 2]
        /\ worker' \in [Turns -> WorkerStates]
    BY <1>a, <1>16, <2>1 DEF WorkerPersist, WorkerMoves
  <2>5. UNCHANGED <<post, waitsFor, registry, pc, cancelReq, callback, flag,
                    ckpt, touched, opened, summary, breadcrumb, committed, held>>
    BY <1>16 DEF WorkerPersist
  <2> QED
    BY <1>a, <2>2, <2>3, <2>4, <2>5
<1>17. ASSUME NEW t \in Turns, WorkerFail(t) PROVE TypeOK'
  <2>1. mem' \in [Turns -> Seq(Item)]
    BY <1>a, <1>17, ForgetType DEF WorkerFail
  <2>2. worker' \in [Turns -> WorkerStates]
    BY <1>a, <1>17 DEF WorkerFail, WorkerMoves
  <2>3. UNCHANGED <<post, waitsFor, registry, pc, cancelReq, callback, flag,
                    ckpt, touched, done, answer, opened, summary, breadcrumb, committed, held>>
    BY <1>17 DEF WorkerFail
  <2>4. TypeOK
    BY <1>a
  <2> HIDE DEF requestVars, taskVars, graphVars, outputVars, PostStates, TaskStates,
               WorkerStates, NoTurn
  <2> QED
    BY <2>1, <2>2, <2>3, <2>4 DEF TypeOK
<1>18. ASSUME NEW t \in Turns, PortsStopped(t) PROVE TypeOK'
  <2>1. /\ pc' \in [Turns -> TaskStates]
        /\ callback' \in [Turns -> BOOLEAN]
        /\ touched' \in [Turns -> BOOLEAN]
    BY <1>a, <1>18 DEF PortsStopped, EndTask
  <2>2. UNCHANGED <<post, waitsFor, registry, cancelReq, flag, worker, mem, ckpt,
                    opened, done, summary, answer, breadcrumb, committed, held>>
    BY <1>18 DEF PortsStopped
  <2>3. TypeOK
    BY <1>a
  <2> HIDE DEF requestVars, taskVars, graphVars, outputVars, PostStates, TaskStates,
               WorkerStates, NoTurn
  <2> QED
    BY <2>1, <2>2, <2>3 DEF TypeOK
<1>19. ASSUME NEW t \in Turns, Committed(t) PROVE TypeOK'
  BY <1>a, <1>19 DEF Committed, EndTask
<1>20. CASE CancelTurn
  BY <1>a, <1>20 DEF CancelTurn, InFlight
<1>21. CASE UNCHANGED vars
  BY <1>a, <1>21 DEF vars
<1>c. ASSUME NEW t \in Turns, CancelRead(t) PROVE TypeOK'
  BY <1>a, <1>c DEF CancelRead
<1> QED
  BY StepCases, <1>c, <1>1, <1>2, <1>3, <1>4, <1>5, <1>6, <1>7, <1>8, <1>9, <1>10, <1>11, <1>12, <1>13, <1>14, <1>15, <1>16, <1>17, <1>18, <1>19, <1>20, <1>21
\* A step that leaves the task, the worker and the output of a turn alone.
LEMMA TurnInvFrame ==
  ASSUME NEW s \in Turns, TurnInv(s), post'[s] = post[s],
         pc'[s] = pc[s], worker'[s] = worker[s], flag'[s] = flag[s],
         opened'[s] = opened[s], done'[s] = done[s], summary'[s] = summary[s],
         answer'[s] = answer[s], breadcrumb'[s] = breadcrumb[s]
  PROVE  TurnInv(s)'
BY DEF TurnInv, NotOpened, Driving, WorkDone, Failed, Interrupted, Closed

\* Every step keeps what the suspension point of each task says.
LEMMA TurnInvStep ==
  ASSUME IInv, [Next]_vars, NEW s \in Turns
  PROVE  TurnInv(s)'
<1> USE DEF requestVars, taskVars, graphVars, outputVars
<1>a. TurnInv(s)
  BY DEF IInv
<1>b. TypeOK
  BY DEF IInv
<1>1. ASSUME NEW t \in Turns, PostFresh(t) PROVE TurnInv(s)'
  <2>1. CASE s = t
    BY <1>a, <1>b, <1>1, <2>1 DEF PostFresh, CreateTask, Arrives, TypeOK, TurnInv, NotOpened,
       Driving, WorkDone, Failed, Interrupted, Closed, NoTurn
  <2>2. CASE s # t
    BY <1>a, <1>b, <1>1, <2>2, TurnInvFrame DEF PostFresh, CreateTask, TypeOK
  <2> QED
    BY <2>1, <2>2
<1>2. ASSUME NEW t \in Turns, PostInterrupt(t) PROVE TurnInv(s)'
  <2>1. CASE s = t
    BY <1>a, <1>b, <1>2, <2>1 DEF PostInterrupt, Arrives, TypeOK, TurnInv, NotOpened,
       Driving, WorkDone, Failed, Interrupted, Closed, NoTurn
  <2>2. CASE s # t
    BY <1>a, <1>b, <1>2, <2>2, TurnInvFrame DEF PostInterrupt, TypeOK
  <2> QED
    BY <2>1, <2>2
<1>3. ASSUME NEW t \in Turns, PostResume(t) PROVE TurnInv(s)'
  <2>1. CASE s = t
    BY <1>a, <1>b, <1>3, <2>1 DEF PostResume, CreateTask, TypeOK, TurnInv, NotOpened,
       Driving, WorkDone, Failed, Interrupted, Closed, NoTurn
  <2>2. CASE s # t
    BY <1>a, <1>b, <1>3, <2>2, TurnInvFrame DEF PostResume, CreateTask, TypeOK
  <2> QED
    BY <2>1, <2>2
<1>4. ASSUME NEW t \in Turns, DoneCallback(t) PROVE TurnInv(s)'
  <2>1. CASE s = t
    BY <1>a, <1>b, <1>4, <2>1 DEF DoneCallback, TypeOK, TurnInv, NotOpened,
       Driving, WorkDone, Failed, Interrupted, Closed, NoTurn
  <2>2. CASE s # t
    BY <1>a, <1>b, <1>4, <2>2, TurnInvFrame DEF DoneCallback, TypeOK
  <2> QED
    BY <2>1, <2>2
<1>5. ASSUME NEW t \in Turns, TaskStart(t) PROVE TurnInv(s)'
  <2>1. CASE s = t
    BY <1>a, <1>b, <1>5, <2>1 DEF TaskStart, TypeOK, TurnInv, NotOpened,
       Driving, WorkDone, Failed, Interrupted, Closed, NoTurn
  <2>2. CASE s # t
    BY <1>a, <1>b, <1>5, <2>2, TurnInvFrame DEF TaskStart, TypeOK
  <2> QED
    BY <2>1, <2>2
<1>6. ASSUME NEW t \in Turns, TaskNeverStarts(t) PROVE TurnInv(s)'
  <2>1. CASE s = t
    BY <1>a, <1>b, <1>6, <2>1 DEF TaskNeverStarts, EndTask, TypeOK, TurnInv, NotOpened,
       Driving, WorkDone, Failed, Interrupted, Closed, NoTurn
  <2>2. CASE s # t
    BY <1>a, <1>b, <1>6, <2>2, TurnInvFrame DEF TaskNeverStarts, EndTask, TypeOK
  <2> QED
    BY <2>1, <2>2
<1>7. ASSUME NEW t \in Turns, TaskAnswered(t) PROVE TurnInv(s)'
  <2>1. CASE s = t
    BY <1>a, <1>b, <1>7, <2>1 DEF TaskAnswered, TypeOK, TurnInv, NotOpened,
       Driving, WorkDone, Failed, Interrupted, Closed, NoTurn
  <2>2. CASE s # t
    BY <1>a, <1>b, <1>7, <2>2, TurnInvFrame DEF TaskAnswered, TypeOK
  <2> QED
    BY <2>1, <2>2
<1>8. ASSUME NEW t \in Turns, TaskError(t) PROVE TurnInv(s)'
  <2>1. CASE s = t
    BY <1>a, <1>b, <1>8, <2>1 DEF TaskError, EndTask, TypeOK, TurnInv, NotOpened,
       Driving, WorkDone, Failed, Interrupted, Closed, NoTurn
  <2>2. CASE s # t
    BY <1>a, <1>b, <1>8, <2>2, TurnInvFrame DEF TaskError, EndTask, TypeOK
  <2> QED
    BY <2>1, <2>2
<1>9. ASSUME NEW t \in Turns, TaskCancelled(t) PROVE TurnInv(s)'
  <2>1. CASE s = t
    BY <1>a, <1>b, <1>9, <2>1 DEF TaskCancelled, CancelHandler, TypeOK, TurnInv, NotOpened,
       Driving, WorkDone, Failed, Interrupted, Closed, NoTurn
  <2>2. CASE s # t
    BY <1>a, <1>b, <1>9, <2>2, TurnInvFrame DEF TaskCancelled, CancelHandler, TypeOK
  <2> QED
    BY <2>1, <2>2
<1>10. ASSUME NEW t \in Turns, CancelPersist(t) PROVE TurnInv(s)'
  <2>1. CASE s = t
    BY <1>a, <1>b, <1>10, <2>1 DEF CancelPersist, EndTask, TypeOK, TurnInv, NotOpened,
       Driving, WorkDone, Failed, Interrupted, Closed, NoTurn
  <2>2. CASE s # t
    BY <1>a, <1>b, <1>10, <2>2, TurnInvFrame DEF CancelPersist, EndTask, TypeOK
  <2> QED
    BY <2>1, <2>2
<1>11. ASSUME NEW t \in Turns, LateCancel(t) PROVE TurnInv(s)'
  <2>1. CASE s = t
    BY <1>a, <1>b, <1>11, <2>1 DEF LateCancel, EndTask, TypeOK, TurnInv, NotOpened,
       Driving, WorkDone, Failed, Interrupted, Closed, NoTurn
  <2>2. CASE s # t
    BY <1>a, <1>b, <1>11, <2>2, TurnInvFrame DEF LateCancel, EndTask, TypeOK
  <2> QED
    BY <2>1, <2>2
<1>12. ASSUME NEW t \in Turns, WorkerRead(t) PROVE TurnInv(s)'
  <2>1. CASE s = t
    BY <1>a, <1>b, <1>12, <2>1 DEF WorkerRead, WorkerMoves, TypeOK, TurnInv, NotOpened,
       Driving, WorkDone, Failed, Interrupted, Closed, NoTurn
  <2>2. CASE s # t
    BY <1>a, <1>b, <1>12, <2>2, TurnInvFrame DEF WorkerRead, WorkerMoves, TypeOK
  <2> QED
    BY <2>1, <2>2
<1>13. ASSUME NEW t \in Turns, WorkerSeed(t) PROVE TurnInv(s)'
  <2>1. CASE s = t
    BY <1>a, <1>b, <1>13, <2>1 DEF WorkerSeed, WorkerMoves, TypeOK, TurnInv, NotOpened,
       Driving, WorkDone, Failed, Interrupted, Closed, NoTurn
  <2>2. CASE s # t
    BY <1>a, <1>b, <1>13, <2>2, TurnInvFrame DEF WorkerSeed, WorkerMoves, TypeOK
  <2> QED
    BY <2>1, <2>2
<1>14. ASSUME NEW t \in Turns, WorkerReply(t) PROVE TurnInv(s)'
  <2>1. CASE s = t
    BY <1>a, <1>b, <1>14, <2>1 DEF WorkerReply, TypeOK, TurnInv, NotOpened,
       Driving, WorkDone, Failed, Interrupted, Closed, NoTurn
  <2>2. CASE s # t
    BY <1>a, <1>b, <1>14, <2>2, TurnInvFrame DEF WorkerReply, TypeOK
  <2> QED
    BY <2>1, <2>2
<1>15. ASSUME NEW t \in Turns, WorkerFinish(t) PROVE TurnInv(s)'
  <2>1. CASE s = t
    BY <1>a, <1>b, <1>15, <2>1 DEF WorkerFinish, WorkerMoves, TypeOK, TurnInv, NotOpened,
       Driving, WorkDone, Failed, Interrupted, Closed, NoTurn
  <2>2. CASE s # t
    BY <1>a, <1>b, <1>15, <2>2, TurnInvFrame DEF WorkerFinish, WorkerMoves, TypeOK
  <2> QED
    BY <2>1, <2>2
<1>16. ASSUME NEW t \in Turns, WorkerPersist(t) PROVE TurnInv(s)'
  <2>1. CASE s = t
    BY <1>a, <1>b, <1>16, <2>1 DEF WorkerPersist, WorkerMoves, TypeOK, TurnInv, NotOpened,
       Driving, WorkDone, Failed, Interrupted, Closed, NoTurn
  <2>2. CASE s # t
    BY <1>a, <1>b, <1>16, <2>2, TurnInvFrame DEF WorkerPersist, WorkerMoves, TypeOK
  <2> QED
    BY <2>1, <2>2
<1>17. ASSUME NEW t \in Turns, WorkerFail(t) PROVE TurnInv(s)'
  <2>1. CASE s = t
    BY <1>a, <1>b, <1>17, <2>1 DEF WorkerFail, WorkerMoves, TypeOK, TurnInv, NotOpened,
       Driving, WorkDone, Failed, Interrupted, Closed, NoTurn
  <2>2. CASE s # t
    BY <1>a, <1>b, <1>17, <2>2, TurnInvFrame DEF WorkerFail, WorkerMoves, TypeOK
  <2> QED
    BY <2>1, <2>2
<1>18. ASSUME NEW t \in Turns, PortsStopped(t) PROVE TurnInv(s)'
  <2>1. CASE s = t
    BY <1>a, <1>b, <1>18, <2>1 DEF PortsStopped, EndTask, TypeOK, TurnInv, NotOpened,
       Driving, WorkDone, Failed, Interrupted, Closed, NoTurn
  <2>2. CASE s # t
    BY <1>a, <1>b, <1>18, <2>2, TurnInvFrame DEF PortsStopped, EndTask, TypeOK
  <2> QED
    BY <2>1, <2>2
<1>19. ASSUME NEW t \in Turns, Committed(t) PROVE TurnInv(s)'
  <2>1. CASE s = t
    BY <1>a, <1>b, <1>19, <2>1 DEF Committed, EndTask, TypeOK, TurnInv, NotOpened,
       Driving, WorkDone, Failed, Interrupted, Closed, NoTurn
  <2>2. CASE s # t
    BY <1>a, <1>b, <1>19, <2>2, TurnInvFrame DEF Committed, EndTask, TypeOK
  <2> QED
    BY <2>1, <2>2
<1>20. CASE CancelTurn
  BY <1>a, <1>20, TurnInvFrame DEF CancelTurn
<1>21. CASE UNCHANGED vars
  BY <1>a, <1>21, TurnInvFrame DEF vars
<1>c. ASSUME NEW t \in Turns, CancelRead(t) PROVE TurnInv(s)'
  <2>1. CASE s = t
    BY <1>a, <1>b, <1>c, <2>1 DEF CancelRead, TypeOK, TurnInv, NotOpened,
       Driving, WorkDone, Failed, Interrupted, Closed, NoTurn
  <2>2. CASE s # t
    BY <1>a, <1>b, <1>c, <2>2, TurnInvFrame DEF CancelRead, TypeOK
  <2> QED
    BY <2>1, <2>2
<1> QED
  BY StepCases, <1>c, <1>1, <1>2, <1>3, <1>4, <1>5, <1>6, <1>7, <1>8, <1>9, <1>10, <1>11, <1>12, <1>13, <1>14, <1>15, <1>16, <1>17, <1>18, <1>19, <1>20, <1>21

\* A fresh session satisfies it.
LEMMA InitIInv ==
  ASSUME Init
  PROVE  IInv
<1>1. TypeOK
  <2>1. mem \in [Turns -> Seq(Item)] /\ ckpt \in Seq(Item) /\ held \in Seq(Item)
    BY ItemSeq DEF Init
  <2> QED
    BY <2>1 DEF Init, TypeOK, NoTurn, PostStates, TaskStates, WorkerStates
<1>2. ASSUME NEW t \in Turns PROVE TurnInv(t)
  BY DEF Init, TurnInv, NotOpened, Closed
<1> QED
  BY <1>1, <1>2 DEF IInv

\* The inductive invariant holds in every state of every behaviour.
LEMMA Inductive == Spec => []IInv
<1>1. IInv /\ [Next]_vars => IInv'
  <2> SUFFICES ASSUME IInv, [Next]_vars PROVE IInv'
    OBVIOUS
  <2> QED
    BY TypeStep, TurnInvStep DEF IInv
<1> QED
  BY InitIInv, <1>1, PTL DEF Spec

\* Every variable keeps its type, whatever the number of turns: in particular a
\* turn never has more than two done events and one turn_summary.
THEOREM TypeCorrect == Spec => []TypeOK
BY Inductive, PTL DEF IInv

\* Whatever the interleaving of POSTs, cancels, workers and callbacks, a turn
\* that is past its finalizer has one turn_summary, was told to stop streaming,
\* and was told so once unless it was cancelled.
THEOREM ClosesOnceHolds == Spec => []ClosesOnce
<1>1. IInv => ClosesOnce
  BY DEF IInv, TypeOK, ClosesOnce, TurnInv, NotOpened, Driving, WorkDone,
         Failed, Interrupted, Closed
<1> QED
  BY Inductive, <1>1, PTL

\* The rows a turn leaves in the database never contradict one another, for any
\* number of turns that share the session.
THEOREM RowsAgreeHolds == Spec => []RowsAgree
<1>1. IInv => RowsAgree
  <2> SUFFICES ASSUME IInv, NEW t \in Turns
               PROVE  /\ breadcrumb[t] = "cancelled" <=> flag[t]
                      /\ breadcrumb[t] = "error" =>
                           answer[t] = NoTurn /\ worker[t] = "raised"
                      /\ answer[t] # NoTurn => worker[t] = "returned"
                      /\ Closed(t) /\ breadcrumb[t] = "none" =>
                           worker[t] = "returned"
    BY DEF RowsAgree
  <2>1. TurnInv(t) /\ pc[t] \in TaskStates /\ opened[t] \in BOOLEAN
                   /\ flag[t] \in BOOLEAN
    BY DEF IInv, TypeOK
  <2> QED
    BY <2>1 DEF TurnInv, NotOpened, Driving, WorkDone, Failed, Interrupted,
                Closed, TaskStates
<1> QED
  BY Inductive, <1>1, PTL

\* The step behind NoLateAnswer, for one turn.
LEMMA NoLateAnswerStep ==
  ASSUME TypeOK, [Next]_vars, NEW s \in Turns, flag[s], worker[s] # "finalising"
  PROVE  answer'[s] = answer[s] /\ worker'[s] # "finalising"
<1> USE DEF requestVars, taskVars, graphVars, outputVars
<1>a. /\ answer \in [Turns -> Turns \cup {NoTurn}]
      /\ worker \in [Turns -> WorkerStates]
  BY DEF TypeOK
<1>1. ASSUME NEW t \in Turns, PostFresh(t)
      PROVE  answer'[s] = answer[s] /\ worker'[s] # "finalising"
  BY <1>a, <1>1 DEF PostFresh, CreateTask
<1>2. ASSUME NEW t \in Turns, PostInterrupt(t)
      PROVE  answer'[s] = answer[s] /\ worker'[s] # "finalising"
  BY <1>a, <1>2 DEF PostInterrupt
<1>3. ASSUME NEW t \in Turns, PostResume(t)
      PROVE  answer'[s] = answer[s] /\ worker'[s] # "finalising"
  BY <1>a, <1>3 DEF PostResume, CreateTask
<1>4. ASSUME NEW t \in Turns, DoneCallback(t)
      PROVE  answer'[s] = answer[s] /\ worker'[s] # "finalising"
  BY <1>a, <1>4 DEF DoneCallback
<1>5. ASSUME NEW t \in Turns, TaskStart(t)
      PROVE  answer'[s] = answer[s] /\ worker'[s] # "finalising"
  BY <1>a, <1>5 DEF TaskStart
<1>6. ASSUME NEW t \in Turns, TaskNeverStarts(t)
      PROVE  answer'[s] = answer[s] /\ worker'[s] # "finalising"
  BY <1>a, <1>6 DEF TaskNeverStarts, EndTask
<1>7. ASSUME NEW t \in Turns, TaskAnswered(t)
      PROVE  answer'[s] = answer[s] /\ worker'[s] # "finalising"
  BY <1>a, <1>7 DEF TaskAnswered
<1>8. ASSUME NEW t \in Turns, TaskError(t)
      PROVE  answer'[s] = answer[s] /\ worker'[s] # "finalising"
  BY <1>a, <1>8 DEF TaskError, EndTask
<1>9. ASSUME NEW t \in Turns, TaskCancelled(t)
      PROVE  answer'[s] = answer[s] /\ worker'[s] # "finalising"
  BY <1>a, <1>9 DEF TaskCancelled, CancelHandler
<1>10. ASSUME NEW t \in Turns, CancelPersist(t)
      PROVE  answer'[s] = answer[s] /\ worker'[s] # "finalising"
  BY <1>a, <1>10 DEF CancelPersist, EndTask
<1>11. ASSUME NEW t \in Turns, LateCancel(t)
      PROVE  answer'[s] = answer[s] /\ worker'[s] # "finalising"
  BY <1>a, <1>11 DEF LateCancel, EndTask
<1>12. ASSUME NEW t \in Turns, WorkerRead(t)
      PROVE  answer'[s] = answer[s] /\ worker'[s] # "finalising"
  BY <1>a, <1>12 DEF WorkerRead, WorkerMoves
<1>13. ASSUME NEW t \in Turns, WorkerSeed(t)
      PROVE  answer'[s] = answer[s] /\ worker'[s] # "finalising"
  BY <1>a, <1>13 DEF WorkerSeed, WorkerMoves
<1>14. ASSUME NEW t \in Turns, WorkerReply(t)
      PROVE  answer'[s] = answer[s] /\ worker'[s] # "finalising"
  BY <1>a, <1>14 DEF WorkerReply
<1>15. ASSUME NEW t \in Turns, WorkerFinish(t)
      PROVE  answer'[s] = answer[s] /\ worker'[s] # "finalising"
  BY <1>a, <1>15 DEF WorkerFinish, WorkerMoves
<1>16. ASSUME NEW t \in Turns, WorkerPersist(t)
      PROVE  answer'[s] = answer[s] /\ worker'[s] # "finalising"
  BY <1>a, <1>16 DEF WorkerPersist, WorkerMoves
<1>17. ASSUME NEW t \in Turns, WorkerFail(t)
      PROVE  answer'[s] = answer[s] /\ worker'[s] # "finalising"
  BY <1>a, <1>17 DEF WorkerFail, WorkerMoves
<1>18. ASSUME NEW t \in Turns, PortsStopped(t)
      PROVE  answer'[s] = answer[s] /\ worker'[s] # "finalising"
  BY <1>a, <1>18 DEF PortsStopped, EndTask
<1>19. ASSUME NEW t \in Turns, Committed(t)
      PROVE  answer'[s] = answer[s] /\ worker'[s] # "finalising"
  BY <1>a, <1>19 DEF Committed, EndTask
<1>20. CASE CancelTurn
  BY <1>20 DEF CancelTurn
<1>21. CASE UNCHANGED vars
  BY <1>21 DEF vars
<1>c. ASSUME NEW t \in Turns, CancelRead(t)
      PROVE  answer'[s] = answer[s] /\ worker'[s] # "finalising"
  BY <1>a, <1>c DEF CancelRead
<1> QED
  BY StepCases, <1>c, <1>1, <1>2, <1>3, <1>4, <1>5, <1>6, <1>7, <1>8, <1>9, <1>10, <1>11, <1>12, <1>13, <1>14, <1>15, <1>16, <1>17, <1>18, <1>19, <1>20, <1>21

\* A worker that had not passed its check when the cancel handler set the flag
\* never writes an answer afterwards, in any session and any interleaving.
THEOREM NoLateAnswerHolds == Spec => NoLateAnswer
<1>1. TypeOK /\ [Next]_vars =>
        [\A t \in Turns :
           flag[t] /\ worker[t] # "finalising" =>
             /\ answer'[t] = answer[t]
             /\ worker'[t] # "finalising"]_vars
  BY NoLateAnswerStep
<1> QED
  BY TypeCorrect, <1>1, PTL DEF Spec, NoLateAnswer

-----------------------------------------------------------------------------
\* What the requests and the tasks keep of the registry, one POST at a time.
LEMMA SerialStep ==
  ASSUME ~ConcurrentPosts, ~LoopRace, TypeOK, SerialInv, [Next]_vars
  PROVE  SerialInv'
<1> USE DEF requestVars, taskVars, graphVars, outputVars, SerialInv, Live,
            Waiting, NoTurn, Turns
<1>a. /\ post \in [Turns -> PostStates]
      /\ waitsFor \in [Turns -> Turns \cup {NoTurn}]
      /\ registry \in Turns \cup {NoTurn}
      /\ pc \in [Turns -> TaskStates]
      /\ callback \in [Turns -> BOOLEAN]
  BY DEF TypeOK
<1>b. SerialInv
  OBVIOUS
<1>1. ASSUME NEW t \in Turns, PostFresh(t) PROVE SerialInv'
  BY <1>a, <1>b, <1>1 DEF PostFresh, CreateTask, Arrives, InFlight
<1>2. ASSUME NEW t \in Turns, PostInterrupt(t) PROVE SerialInv'
  BY <1>a, <1>b, <1>2 DEF PostInterrupt, Arrives, InFlight
<1>3. ASSUME NEW t \in Turns, PostResume(t) PROVE SerialInv'
  BY <1>a, <1>b, <1>3 DEF PostResume, CreateTask
<1>4. ASSUME NEW t \in Turns, DoneCallback(t) PROVE SerialInv'
  BY <1>a, <1>b, <1>4 DEF DoneCallback
<1>5. ASSUME NEW t \in Turns, TaskStart(t) PROVE SerialInv'
  BY <1>a, <1>b, <1>5 DEF TaskStart
<1>6. ASSUME NEW t \in Turns, TaskNeverStarts(t) PROVE SerialInv'
  BY <1>a, <1>b, <1>6 DEF TaskNeverStarts, EndTask
<1>7. ASSUME NEW t \in Turns, TaskAnswered(t) PROVE SerialInv'
  BY <1>a, <1>b, <1>7 DEF TaskAnswered
<1>8. ASSUME NEW t \in Turns, TaskError(t) PROVE SerialInv'
  BY <1>a, <1>b, <1>8 DEF TaskError, EndTask
<1>9. ASSUME NEW t \in Turns, TaskCancelled(t) PROVE SerialInv'
  BY <1>a, <1>b, <1>9 DEF TaskCancelled, CancelHandler
<1>10. ASSUME NEW t \in Turns, CancelPersist(t) PROVE SerialInv'
  BY <1>a, <1>b, <1>10 DEF CancelPersist, EndTask
<1>11. ASSUME NEW t \in Turns, LateCancel(t) PROVE SerialInv'
  BY <1>a, <1>b, <1>11 DEF LateCancel, EndTask
<1>12. ASSUME NEW t \in Turns, WorkerRead(t) PROVE SerialInv'
  BY <1>a, <1>b, <1>12 DEF WorkerRead
<1>13. ASSUME NEW t \in Turns, WorkerSeed(t) PROVE SerialInv'
  BY <1>a, <1>b, <1>13 DEF WorkerSeed
<1>14. ASSUME NEW t \in Turns, WorkerReply(t) PROVE SerialInv'
  BY <1>a, <1>b, <1>14 DEF WorkerReply
<1>15. ASSUME NEW t \in Turns, WorkerFinish(t) PROVE SerialInv'
  BY <1>a, <1>b, <1>15 DEF WorkerFinish
<1>16. ASSUME NEW t \in Turns, WorkerPersist(t) PROVE SerialInv'
  BY <1>a, <1>b, <1>16 DEF WorkerPersist
<1>17. ASSUME NEW t \in Turns, WorkerFail(t) PROVE SerialInv'
  BY <1>a, <1>b, <1>17 DEF WorkerFail
<1>18. ASSUME NEW t \in Turns, PortsStopped(t) PROVE SerialInv'
  <2>1. UNCHANGED <<post, waitsFor, registry>> /\ pc[t] = "ports"
    BY <1>18 DEF PortsStopped
  <2>2. CASE touched[t]
    <3>1. pc' = [pc EXCEPT ![t] = "commit"] /\ UNCHANGED callback
      BY <1>18, <2>2 DEF PortsStopped
    <3> QED
      BY <1>a, <1>b, <2>1, <3>1
  <2>3. CASE ~touched[t]
    <3>1. EndTask(t)
      BY <1>18, <2>3 DEF PortsStopped
    <3> QED
      BY <1>a, <1>b, <2>1, <3>1 DEF EndTask
  <2> QED
    BY <2>2, <2>3
<1>19. ASSUME NEW t \in Turns, Committed(t) PROVE SerialInv'
  BY <1>a, <1>b, <1>19 DEF Committed, EndTask
<1>20. CASE CancelTurn
  BY <1>a, <1>b, <1>20 DEF CancelTurn
<1>21. CASE UNCHANGED vars
  BY <1>a, <1>b, <1>21 DEF vars
<1>c. ASSUME NEW t \in Turns, CancelRead(t) PROVE SerialInv'
  BY <1>a, <1>b, <1>c DEF CancelRead
<1> QED
  BY StepCases, <1>c, <1>1, <1>2, <1>3, <1>4, <1>5, <1>6, <1>7, <1>8, <1>9, <1>10, <1>11, <1>12, <1>13, <1>14, <1>15, <1>16, <1>17, <1>18, <1>19, <1>20, <1>21

\* If POSTs do not overlap and none slips in between the end of a task and its
\* done-callback, cancel-and-wait serialises any number of turns: at most one
\* task is unfinished, and it is the one the registry names.
THEOREM SerialisedHolds ==
  ASSUME ~ConcurrentPosts, ~LoopRace
  PROVE  Spec => []Serialised
<1>1. Init => SerialInv
  BY DEF Init, SerialInv, Live, Waiting
<1>2. TypeOK /\ SerialInv /\ [Next]_vars => SerialInv'
  BY SerialStep
<1>3. SerialInv => Serialised
  BY DEF SerialInv, Serialised
<1> QED
  BY TypeCorrect, <1>1, <1>2, <1>3, PTL DEF Spec

-----------------------------------------------------------------------------
(* The published events implement TurnPromise.                             *)

\* A turn whose task, worker and output a step leaves alone is read as before.
LEMMA BarFrame ==
  ASSUME NEW s \in Turns, pc'[s] = pc[s], opened'[s] = opened[s],
         summary'[s] = summary[s], breadcrumb'[s] = breadcrumb[s]
  PROVE  phaseBar'[s] = phaseBar[s] /\ verdictBar'[s] = verdictBar[s]
BY DEF phaseBar, verdictBar

\* When only turn t is read differently, the promise sees one move of t.
LEMMA BarMoves ==
  ASSUME NEW t \in Turns, NEW from, NEW to,
         \A s \in Turns \ {t} : /\ phaseBar'[s] = phaseBar[s]
                                /\ verdictBar'[s] = verdictBar[s],
         phaseBar[t] = from, phaseBar'[t] = to
  PROVE  /\ Promise!Moves(t, from, to)
         /\ verdictBar'[t] = verdictBar[t] => UNCHANGED verdictBar
         /\ verdictBar' = [verdictBar EXCEPT ![t] = verdictBar'[t]]
<1>1. /\ phaseBar = [s \in Turns |-> phaseBar[s]]
      /\ phaseBar' = [s \in Turns |-> phaseBar'[s]]
      /\ verdictBar = [s \in Turns |-> verdictBar[s]]
      /\ verdictBar' = [s \in Turns |-> verdictBar'[s]]
  BY DEF phaseBar, verdictBar
<1>2. phaseBar' = [phaseBar EXCEPT ![t] = to]
  BY <1>1
<1>3. verdictBar' = [verdictBar EXCEPT ![t] = verdictBar'[t]]
  BY <1>1
<1>4. verdictBar'[t] = verdictBar[t] => verdictBar' = verdictBar
  BY <1>1
<1> QED
  BY <1>2, <1>3, <1>4 DEF Promise!Moves

\* When every turn is read as before, the promise stutters.
LEMMA BarStutters ==
  ASSUME \A s \in Turns : /\ phaseBar'[s] = phaseBar[s]
                          /\ verdictBar'[s] = verdictBar[s]
  PROVE  UNCHANGED Promise!vars
<1>1. /\ phaseBar = [s \in Turns |-> phaseBar[s]]
      /\ phaseBar' = [s \in Turns |-> phaseBar'[s]]
      /\ verdictBar = [s \in Turns |-> verdictBar[s]]
      /\ verdictBar' = [s \in Turns |-> verdictBar'[s]]
  BY DEF phaseBar, verdictBar
<1> QED
  BY <1>1 DEF Promise!vars

\* Every step of the session is a step of the promise, or none.
LEMMA PromiseStep ==
  ASSUME IInv, [Next]_vars
  PROVE  [Promise!Next]_(Promise!vars)
<1> USE DEF requestVars, taskVars, graphVars, outputVars
<1>a. /\ pc \in [Turns -> TaskStates]
      /\ opened \in [Turns -> BOOLEAN]
      /\ summary \in [Turns -> 0 .. 1]
      /\ breadcrumb \in [Turns -> {"none", "cancelled", "error"}]
  BY DEF IInv, TypeOK
<1>b. \A t \in Turns : TurnInv(t)
  BY DEF IInv
<1>1. ASSUME NEW t \in Turns, PostFresh(t) PROVE Promise!Next
  <2>1. \A s \in Turns \ {t} : /\ phaseBar'[s] = phaseBar[s]
                               /\ verdictBar'[s] = verdictBar[s]
    BY <1>a, <1>1, BarFrame DEF PostFresh, CreateTask
  <2>2. /\ pc[t] = "none" /\ ~opened[t] /\ summary[t] = 0
        /\ pc'[t] = "created" /\ ~opened'[t] /\ summary'[t] = 0
    BY <1>a, <1>b, <1>1 DEF PostFresh, CreateTask, Arrives, TurnInv, Closed
  <2>3. /\ phaseBar[t] = "unseen" /\ phaseBar'[t] = "accepted"
        /\ verdictBar[t] = "none" /\ verdictBar'[t] = "none"
    BY <2>2 DEF phaseBar, verdictBar
  <2>4. Promise!Accept(t)
    BY <2>1, <2>3, BarMoves DEF Promise!Accept
  <2> QED
    BY <2>4 DEF Promise!Next
<1>2. ASSUME NEW t \in Turns, PostResume(t) PROVE Promise!Next
  <2>1. \A s \in Turns \ {t} : /\ phaseBar'[s] = phaseBar[s]
                               /\ verdictBar'[s] = verdictBar[s]
    BY <1>a, <1>2, BarFrame DEF PostResume, CreateTask
  <2>2. /\ pc[t] = "none" /\ ~opened[t] /\ summary[t] = 0
        /\ pc'[t] = "created" /\ ~opened'[t] /\ summary'[t] = 0
    BY <1>a, <1>b, <1>2 DEF PostResume, CreateTask, Arrives, TurnInv, Closed
  <2>3. /\ phaseBar[t] = "unseen" /\ phaseBar'[t] = "accepted"
        /\ verdictBar[t] = "none" /\ verdictBar'[t] = "none"
    BY <2>2 DEF phaseBar, verdictBar
  <2>4. Promise!Accept(t)
    BY <2>1, <2>3, BarMoves DEF Promise!Accept
  <2> QED
    BY <2>4 DEF Promise!Next
<1>3. ASSUME NEW t \in Turns, TaskStart(t) PROVE Promise!Next
  <2>1. \A s \in Turns \ {t} : /\ phaseBar'[s] = phaseBar[s]
                               /\ verdictBar'[s] = verdictBar[s]
    BY <1>a, <1>3, BarFrame DEF TaskStart
  <2>2. /\ pc[t] = "created" /\ ~opened[t] /\ summary[t] = 0
        /\ opened'[t] /\ summary'[t] = 0
    BY <1>a, <1>b, <1>3 DEF TaskStart, TurnInv, Closed
  <2>3. /\ phaseBar[t] = "accepted" /\ phaseBar'[t] = "open"
        /\ verdictBar[t] = "none" /\ verdictBar'[t] = "none"
    BY <2>2 DEF phaseBar, verdictBar
  <2>4. Promise!Open(t)
    BY <2>1, <2>3, BarMoves DEF Promise!Open
  <2> QED
    BY <2>4 DEF Promise!Next
<1>4. ASSUME NEW t \in Turns, TaskNeverStarts(t) PROVE Promise!Next
  <2>1. \A s \in Turns \ {t} : /\ phaseBar'[s] = phaseBar[s]
                               /\ verdictBar'[s] = verdictBar[s]
    BY <1>a, <1>4, BarFrame DEF TaskNeverStarts, EndTask
  <2>2. /\ pc[t] = "created" /\ ~opened[t] /\ summary[t] = 0
        /\ pc'[t] = "ended" /\ ~opened'[t] /\ summary'[t] = 0
    BY <1>a, <1>b, <1>4 DEF TaskNeverStarts, EndTask, TurnInv, Closed
  <2>3. /\ phaseBar[t] = "accepted" /\ phaseBar'[t] = "withdrawn"
        /\ verdictBar[t] = "none" /\ verdictBar'[t] = "none"
    BY <2>2 DEF phaseBar, verdictBar
  <2>4. Promise!Withdraw(t)
    BY <2>1, <2>3, BarMoves DEF Promise!Withdraw
  <2> QED
    BY <2>4 DEF Promise!Next
<1>5. ASSUME NEW t \in Turns, TaskAnswered(t) PROVE Promise!Next
  <2>1. \A s \in Turns \ {t} : /\ phaseBar'[s] = phaseBar[s]
                               /\ verdictBar'[s] = verdictBar[s]
    BY <1>a, <1>5, BarFrame DEF TaskAnswered
  <2>2. /\ opened[t] /\ summary[t] = 0
        /\ opened'[t] /\ summary'[t] = 1 /\ breadcrumb'[t] = "none"
    BY <1>a, <1>b, <1>5 DEF TaskAnswered, TurnInv, Closed, Driving, Interrupted
  <2>3. /\ phaseBar[t] = "open" /\ phaseBar'[t] = "closed"
        /\ verdictBar'[t] = "answered"
    BY <2>2 DEF phaseBar, verdictBar
  <2>4. Promise!Close(t)
    <3>1. /\ Promise!Moves(t, "open", "closed")
          /\ verdictBar' = [verdictBar EXCEPT ![t] = verdictBar'[t]]
      BY <2>1, <2>3, BarMoves
    <3>2. verdictBar'[t] \in Promise!Verdicts
      BY <2>3 DEF Promise!Verdicts
    <3> QED
      BY <3>1, <3>2, Zenon DEF Promise!Close
  <2> QED
    BY <2>4 DEF Promise!Next
<1>6. ASSUME NEW t \in Turns, TaskError(t) PROVE Promise!Next
  <2>1. \A s \in Turns \ {t} : /\ phaseBar'[s] = phaseBar[s]
                               /\ verdictBar'[s] = verdictBar[s]
    BY <1>a, <1>6, BarFrame DEF TaskError, EndTask
  <2>2. /\ opened[t] /\ summary[t] = 0
        /\ opened'[t] /\ summary'[t] = 1 /\ breadcrumb'[t] = "error"
    BY <1>a, <1>b, <1>6 DEF TaskError, EndTask, TurnInv, Closed, Driving, Interrupted
  <2>3. /\ phaseBar[t] = "open" /\ phaseBar'[t] = "closed"
        /\ verdictBar'[t] = "error"
    BY <2>2 DEF phaseBar, verdictBar
  <2>4. Promise!Close(t)
    <3>1. /\ Promise!Moves(t, "open", "closed")
          /\ verdictBar' = [verdictBar EXCEPT ![t] = verdictBar'[t]]
      BY <2>1, <2>3, BarMoves
    <3>2. verdictBar'[t] \in Promise!Verdicts
      BY <2>3 DEF Promise!Verdicts
    <3> QED
      BY <3>1, <3>2, Zenon DEF Promise!Close
  <2> QED
    BY <2>4 DEF Promise!Next
<1>7. ASSUME NEW t \in Turns, CancelPersist(t) PROVE Promise!Next
  <2>1. \A s \in Turns \ {t} : /\ phaseBar'[s] = phaseBar[s]
                               /\ verdictBar'[s] = verdictBar[s]
    BY <1>a, <1>7, BarFrame DEF CancelPersist, EndTask
  <2>2. /\ opened[t] /\ summary[t] = 0
        /\ opened'[t] /\ summary'[t] = 1 /\ breadcrumb'[t] = "cancelled"
    BY <1>a, <1>b, <1>7 DEF CancelPersist, EndTask, TurnInv, Closed, Driving, Interrupted
  <2>3. /\ phaseBar[t] = "open" /\ phaseBar'[t] = "closed"
        /\ verdictBar'[t] = "cancelled"
    BY <2>2 DEF phaseBar, verdictBar
  <2>4. Promise!Close(t)
    <3>1. /\ Promise!Moves(t, "open", "closed")
          /\ verdictBar' = [verdictBar EXCEPT ![t] = verdictBar'[t]]
      BY <2>1, <2>3, BarMoves
    <3>2. verdictBar'[t] \in Promise!Verdicts
      BY <2>3 DEF Promise!Verdicts
    <3> QED
      BY <3>1, <3>2, Zenon DEF Promise!Close
  <2> QED
    BY <2>4 DEF Promise!Next
<1>8. ASSUME NEW t \in Turns, TaskCancelled(t) PROVE UNCHANGED Promise!vars
  <2>1. \A s \in Turns \ {t} : /\ phaseBar'[s] = phaseBar[s]
                               /\ verdictBar'[s] = verdictBar[s]
    BY <1>a, <1>8, BarFrame DEF TaskCancelled, CancelHandler
  <2>2. /\ opened[t] /\ opened'[t] /\ summary'[t] = summary[t]
        /\ summary[t] # 0 => breadcrumb'[t] = breadcrumb[t]
    BY <1>a, <1>b, <1>8 DEF TaskCancelled, CancelHandler, TurnInv, Closed, Driving, WorkDone
  <2>3. phaseBar'[t] = phaseBar[t] /\ verdictBar'[t] = verdictBar[t]
    BY <1>a, <2>2 DEF phaseBar, verdictBar
  <2> QED
    BY <2>1, <2>3, BarStutters
<1>9. ASSUME NEW t \in Turns, LateCancel(t) PROVE UNCHANGED Promise!vars
  <2>1. \A s \in Turns \ {t} : /\ phaseBar'[s] = phaseBar[s]
                               /\ verdictBar'[s] = verdictBar[s]
    BY <1>a, <1>9, BarFrame DEF LateCancel, EndTask
  <2>2. /\ opened[t] /\ opened'[t] /\ summary'[t] = summary[t]
        /\ summary[t] # 0 => breadcrumb'[t] = breadcrumb[t]
    BY <1>a, <1>b, <1>9 DEF LateCancel, EndTask, TurnInv, Closed, Driving, WorkDone
  <2>3. phaseBar'[t] = phaseBar[t] /\ verdictBar'[t] = verdictBar[t]
    BY <1>a, <2>2 DEF phaseBar, verdictBar
  <2> QED
    BY <2>1, <2>3, BarStutters
<1>10. ASSUME NEW t \in Turns, PortsStopped(t) PROVE UNCHANGED Promise!vars
  <2>1. \A s \in Turns \ {t} : /\ phaseBar'[s] = phaseBar[s]
                               /\ verdictBar'[s] = verdictBar[s]
    BY <1>a, <1>10, BarFrame DEF PortsStopped, EndTask
  <2>2. /\ opened[t] /\ opened'[t] /\ summary'[t] = summary[t]
        /\ summary[t] # 0 => breadcrumb'[t] = breadcrumb[t]
    BY <1>a, <1>b, <1>10 DEF PortsStopped, EndTask, TurnInv, Closed, Driving, WorkDone
  <2>3. phaseBar'[t] = phaseBar[t] /\ verdictBar'[t] = verdictBar[t]
    BY <1>a, <2>2 DEF phaseBar, verdictBar
  <2> QED
    BY <2>1, <2>3, BarStutters
<1>11. ASSUME NEW t \in Turns, Committed(t) PROVE UNCHANGED Promise!vars
  <2>1. \A s \in Turns \ {t} : /\ phaseBar'[s] = phaseBar[s]
                               /\ verdictBar'[s] = verdictBar[s]
    BY <1>a, <1>11, BarFrame DEF Committed, EndTask
  <2>2. /\ opened[t] /\ opened'[t] /\ summary'[t] = summary[t]
        /\ summary[t] # 0 => breadcrumb'[t] = breadcrumb[t]
    BY <1>a, <1>b, <1>11 DEF Committed, EndTask, TurnInv, Closed, Driving, WorkDone
  <2>3. phaseBar'[t] = phaseBar[t] /\ verdictBar'[t] = verdictBar[t]
    BY <1>a, <2>2 DEF phaseBar, verdictBar
  <2> QED
    BY <2>1, <2>3, BarStutters
<1>12. ASSUME NEW t \in Turns, PostInterrupt(t) PROVE UNCHANGED Promise!vars
  BY <1>12, BarFrame, BarStutters DEF PostInterrupt
<1>13. ASSUME NEW t \in Turns, DoneCallback(t) PROVE UNCHANGED Promise!vars
  BY <1>13, BarFrame, BarStutters DEF DoneCallback
<1>14. ASSUME NEW t \in Turns, WorkerRead(t) PROVE UNCHANGED Promise!vars
  BY <1>14, BarFrame, BarStutters DEF WorkerRead
<1>15. ASSUME NEW t \in Turns, WorkerSeed(t) PROVE UNCHANGED Promise!vars
  BY <1>15, BarFrame, BarStutters DEF WorkerSeed
<1>16. ASSUME NEW t \in Turns, WorkerReply(t) PROVE UNCHANGED Promise!vars
  BY <1>16, BarFrame, BarStutters DEF WorkerReply
<1>17. ASSUME NEW t \in Turns, WorkerFinish(t) PROVE UNCHANGED Promise!vars
  BY <1>17, BarFrame, BarStutters DEF WorkerFinish
<1>18. ASSUME NEW t \in Turns, WorkerPersist(t) PROVE UNCHANGED Promise!vars
  BY <1>18, BarFrame, BarStutters DEF WorkerPersist
<1>19. ASSUME NEW t \in Turns, WorkerFail(t) PROVE UNCHANGED Promise!vars
  BY <1>19, BarFrame, BarStutters DEF WorkerFail
<1>20. CASE CancelTurn
  BY <1>20, BarFrame, BarStutters DEF CancelTurn
<1>21. CASE UNCHANGED vars
  BY <1>21, BarFrame, BarStutters DEF vars
<1>c. ASSUME NEW t \in Turns, CancelRead(t) PROVE UNCHANGED Promise!vars
  <2>1. \A s \in Turns \ {t} : /\ phaseBar'[s] = phaseBar[s]
                               /\ verdictBar'[s] = verdictBar[s]
    BY <1>a, <1>c, BarFrame DEF CancelRead
  <2>2. opened[t] /\ opened' = opened /\ summary' = summary /\ breadcrumb' = breadcrumb
    BY <1>a, <1>b, <1>c DEF CancelRead, TurnInv, Interrupted
  <2>3. phaseBar'[t] = phaseBar[t] /\ verdictBar'[t] = verdictBar[t]
    BY <1>a, <2>2 DEF phaseBar, verdictBar
  <2> QED
    BY <2>1, <2>3, BarStutters
<1> QED
  BY StepCases, <1>c, <1>1, <1>2, <1>3, <1>4, <1>5, <1>6, <1>7, <1>8, <1>9, <1>10, <1>11, <1>12, <1>13, <1>14, <1>15, <1>16, <1>17, <1>18, <1>19, <1>20, <1>21

\* The session keeps the safety part of TurnPromise for any number of turns: no
\* event reopens a closed turn, closes one that was not opened, or changes the
\* verdict after the fact, whatever late workers and cancels do.
THEOREM KeepsPromiseSafely == Spec => KeepsPromise
<1>1. Init => Promise!Init
  BY DEF Init, Promise!Init, phaseBar, verdictBar
<1>2. IInv /\ [Next]_vars => [Promise!Next]_(Promise!vars)
  BY PromiseStep
<1> QED
  BY Inductive, <1>1, <1>2, PTL DEF Spec, KeepsPromise, Promise!SafeSpec


-----------------------------------------------------------------------------
(* The session's history, as long as no turn is cancelled.                 *)
NoneCancelled == \A s \in Turns : ~flag[s]
DigestOf(t)   == [role |-> "digest", turn |-> t]

\* What turn s asked is in history h, or was replaced by a digest.
Kept(h, s) == HasPrompt(h, s) \/ \E i \in DOMAIN h : h[i].role = "digest"

\* The inductive invariant: the graph run at work has saved its own copy or a digest of
\* it; it has its own prompt and those of the turns that were answered; so has what is
\* saved.
HistInv ==
  NoneCancelled =>
    /\ \A t \in Turns : worker[t] \in {"running", "finalising"}
                          => ckpt = mem[t] \/ ckpt = <<DigestOf(t)>>
    /\ \A t \in Turns : Working(t)
                          => /\ Kept(mem[t], t)
                             /\ \A s \in Turns : answer[s] # NoTurn => Kept(mem[t], s)
    /\ \A s \in Turns : answer[s] # NoTurn => Kept(ckpt, s)

\* One more message leaves the messages before it.
LEMMA KeptAppend ==
  ASSUME NEW h \in Seq(Item), NEW m \in Item, NEW s \in Turns, Kept(h, s)
  PROVE  Kept(Append(h, m), s)
<1>1. /\ DOMAIN h \subseteq DOMAIN Append(h, m)
      /\ \A i \in DOMAIN h : Append(h, m)[i] = h[i]
  OBVIOUS
<1> QED
  BY <1>1 DEF Kept, HasPrompt

\* A prompt on top of a history leaves every message before it.
LEMMA KeptPrompt ==
  ASSUME NEW h \in Seq(Item), NEW t \in Turns
  PROVE  Kept(Append(h, Human(t)), t)
<1>1. /\ Len(h) + 1 \in DOMAIN Append(h, Human(t))
      /\ Append(h, Human(t))[Len(h) + 1] = Human(t)
  BY HumanType
<1> QED
  BY <1>1 DEF Kept, HasPrompt, Human

\* A digest stands for everybody's prompt.
LEMMA KeptSaved ==
  ASSUME NEW h \in Seq(Item), NEW s \in Turns, NEW t \in Turns, Kept(h, s), NEW g \in Saved(h, t)
  PROVE  Kept(g, s)
<1>1. g = h \/ g = <<DigestOf(t)>>
  BY DEF Saved, DigestOf
<1>2. Kept(<<DigestOf(t)>>, s)
  <2>1. 1 \in DOMAIN <<DigestOf(t)>> /\ <<DigestOf(t)>>[1].role = "digest"
    BY DEF DigestOf
  <2> QED
    BY <2>1 DEF Kept
<1> QED
  BY <1>1, <1>2

\* Without a cancelled turn, one graph run at most is at work.
LEMMA OneAtWork ==
  ASSUME IInv, SerialInv, NoneCancelled, NEW s \in Turns, NEW t \in Turns, Working(s),
         Working(t) \/ worker[t] = "queued"
  PROVE  s = t
<1>1. ASSUME NEW u \in Turns, Working(u) \/ worker[u] = "queued" PROVE Live(u)
  <2>1. TurnInv(u) /\ ~flag[u] /\ pc[u] \in TaskStates
    BY DEF IInv, TypeOK, NoneCancelled
  <2> QED
    BY <1>1, <2>1 DEF TurnInv, NotOpened, WorkDone, Failed, Interrupted, Working, Live
<1> QED
  BY <1>1 DEF SerialInv

\* A step that leaves the graph runs alone, or ends one, keeps the history.
LEMMA HistFrame ==
  ASSUME IInv, HistInv, NoneCancelled' => NoneCancelled, ckpt' = ckpt, answer' = answer,
         \A t \in Turns : \/ worker'[t] = worker[t] /\ mem'[t] = mem[t]
                          \/ worker'[t] \notin {"seeding", "running", "finalising"}
                          \/ worker[t] = "running" /\ worker'[t] = "finalising" /\ mem'[t] = mem[t]
  PROVE  HistInv'
BY DEF HistInv, Kept, HasPrompt, Working

\* Where no two turns run side by side, every step keeps the history whole.
LEMMA HistStep ==
  ASSUME IInv, SerialInv, HistInv, [Next]_vars
  PROVE  HistInv'
<1>a. /\ worker \in [Turns -> WorkerStates] /\ mem \in [Turns -> Seq(Item)] /\ ckpt \in Seq(Item)
      /\ flag \in [Turns -> BOOLEAN] /\ answer \in [Turns -> Turns \cup {NoTurn}]
      /\ \A t \in Turns : TurnInv(t)
  BY DEF IInv, TypeOK
<1>1. CASE \/ UNCHANGED vars
           \/ CancelTurn
           \/ \E t \in Turns : \/ PostFresh(t) \/ PostInterrupt(t) \/ PostResume(t) \/ DoneCallback(t)
                               \/ TaskNeverStarts(t) \/ TaskAnswered(t) \/ TaskError(t)
                               \/ CancelRead(t) \/ LateCancel(t) \/ Committed(t)
  <2>1. UNCHANGED <<worker, mem, ckpt, answer, flag>>
    BY <1>1 DEF vars, requestVars, taskVars, graphVars, outputVars, CancelTurn, PostFresh,
       PostInterrupt, PostResume, DoneCallback, TaskNeverStarts, TaskAnswered, TaskError, CancelRead,
       LateCancel, Committed
  <2> QED
    BY <2>1, HistFrame DEF NoneCancelled
<1>2. ASSUME NEW t \in Turns, TaskStart(t) PROVE HistInv'
  <2>1. UNCHANGED <<mem, ckpt, answer, flag>> /\ worker' = [worker EXCEPT ![t] = "queued"]
    BY <1>2 DEF TaskStart
  <2> QED
    BY <1>a, <2>1, HistFrame DEF NoneCancelled
<1>3. ASSUME NEW t \in Turns, TaskCancelled(t) PROVE HistInv'
  <2>1. flag'[t]
    BY <1>a, <1>3 DEF TaskCancelled, CancelHandler
  <2> QED
    BY <2>1 DEF HistInv, NoneCancelled
<1>4. ASSUME NEW t \in Turns, CancelPersist(t) PROVE HistInv'
  <2>1. flag[t] /\ flag' = flag
    BY <1>a, <1>4 DEF CancelPersist, TurnInv, Interrupted
  <2> QED
    BY <2>1 DEF HistInv, NoneCancelled
<1>5. ASSUME NEW t \in Turns, PortsStopped(t) PROVE HistInv'
  <2>1. UNCHANGED <<worker, mem, ckpt, answer, flag>>
    BY <1>5 DEF PortsStopped, outputVars
  <2> QED
    BY <2>1, HistFrame DEF NoneCancelled
<1>6. ASSUME NEW t \in Turns, WorkerRead(t) PROVE HistInv'
  <2>1. /\ worker[t] = "queued" /\ worker' = [worker EXCEPT ![t] = "seeding"]
        /\ mem' = [mem EXCEPT ![t] = Append(ckpt, Human(t))] /\ UNCHANGED <<ckpt, answer, flag>>
    BY <1>6 DEF WorkerRead, WorkerMoves, outputVars
  <2>2. SUFFICES ASSUME NoneCancelled PROVE HistInv'
    BY <2>1 DEF HistInv, NoneCancelled
  <2>3. Kept(Append(ckpt, Human(t)), t) /\ \A s \in Turns : answer[s] # NoTurn => Kept(Append(ckpt, Human(t)), s)
    BY <1>a, <2>2, KeptPrompt, KeptAppend, HumanType DEF HistInv
  <2> QED
    BY <1>a, <2>1, <2>2, <2>3 DEF HistInv, Working, Kept, HasPrompt
<1>7. ASSUME NEW t \in Turns, WorkerSeed(t) PROVE HistInv'
  <2>1. /\ worker[t] = "seeding" /\ worker' = [worker EXCEPT ![t] = "running"]
        /\ ckpt' \in Saved(mem[t], t) /\ UNCHANGED <<mem, answer, flag>>
    BY <1>7 DEF WorkerSeed, WorkerMoves, outputVars
  <2>2. SUFFICES ASSUME NoneCancelled PROVE HistInv'
    BY <2>1 DEF HistInv, NoneCancelled
  <2>3. \A u \in Turns \ {t} : ~Working(u)
    BY <2>1, <2>2, OneAtWork DEF Working
  <2>4. /\ \A u \in Turns : worker'[u] \in {"seeding", "running", "finalising"} => u = t
        /\ ckpt' = mem[t] \/ ckpt' = <<DigestOf(t)>>
        /\ Kept(mem[t], t) /\ \A s \in Turns : answer[s] # NoTurn => Kept(mem[t], s)
    BY <1>a, <2>1, <2>2, <2>3 DEF HistInv, Working, Saved, DigestOf
  <2>5. PICK g : g = ckpt'
    OBVIOUS
  <2>6. \A s \in Turns : answer[s] # NoTurn => Kept(g, s)
    BY <1>a, <2>1, <2>4, <2>5, KeptSaved
  <2>7. \A s \in Turns : answer[s] # NoTurn => Kept(ckpt, s)'
    BY <2>1, <2>5, <2>6 DEF Kept, HasPrompt
  <2>8. Kept(mem[t], t)' /\ \A s \in Turns : answer[s] # NoTurn => Kept(mem[t], s)'
    BY <2>1, <2>4 DEF Kept, HasPrompt
  <2> QED
    BY <2>1, <2>4, <2>7, <2>8 DEF HistInv, Working
<1>8. ASSUME NEW t \in Turns, WorkerReply(t) PROVE HistInv'
  <2>1. PICK h \in Saved(mem[t], t), role \in {"ai", "thought"} :
          mem' = [mem EXCEPT ![t] = Append(h, [role |-> role, turn |-> t])]
    BY <1>8 DEF WorkerReply
  <2>2. /\ worker[t] = "running" /\ ckpt' \in Saved(mem'[t], t) /\ UNCHANGED <<worker, answer, flag>>
    BY <1>8 DEF WorkerReply, outputVars
  <2>3. SUFFICES ASSUME NoneCancelled PROVE HistInv'
    BY <2>2 DEF HistInv, NoneCancelled
  <2>4. PICK g : g = Append(h, [role |-> role, turn |-> t])
    OBVIOUS
  <2>5. h \in Seq(Item) /\ [role |-> role, turn |-> t] \in Item /\ g \in Seq(Item)
    <3>1. h \in Seq(Item)
      BY <1>a, SavedType
    <3>2. [role |-> role, turn |-> t] \in Item
      BY DEF Item
    <3> QED
      BY <2>4, <3>1, <3>2, ItemSeq
  <2>6. mem'[t] = g /\ ckpt' \in Saved(g, t) /\ \A u \in Turns \ {t} : mem'[u] = mem[u]
    BY <1>a, <2>1, <2>2, <2>4
  <2>7. \A u \in Turns \ {t} : ~Working(u)
    BY <2>2, <2>3, OneAtWork DEF Working
  <2>8. \A s \in Turns : s = t \/ answer[s] # NoTurn => Kept(mem[t], s)
    BY <2>2, <2>3 DEF HistInv, Working
  <2>9. \A s \in Turns : s = t \/ answer[s] # NoTurn => Kept(g, s)
    BY <1>a, <2>4, <2>5, <2>8, KeptSaved, KeptAppend
  <2>10. PICK k \in Saved(g, t) : k = ckpt'
    BY <2>6
  <2>11. \A s \in Turns : answer[s] # NoTurn => Kept(k, s)
    BY <2>5, <2>9, KeptSaved
  <2>12. \A s \in Turns : answer[s] # NoTurn => Kept(ckpt, s)'
    BY <2>10, <2>11 DEF Kept, HasPrompt
  <2>13. \A s \in Turns : s = t \/ answer[s] # NoTurn => Kept(mem[t], s)'
    BY <2>6, <2>9 DEF Kept, HasPrompt
  <2>14. ckpt' = mem'[t] \/ ckpt' = <<DigestOf(t)>>
    BY <2>6 DEF Saved, DigestOf
  <2> QED
    BY <2>2, <2>7, <2>12, <2>13, <2>14 DEF HistInv, Working
<1>9. ASSUME NEW t \in Turns, WorkerFinish(t) PROVE HistInv'
  <2>1. UNCHANGED <<ckpt, answer, flag>> /\ worker[t] = "running"
    BY <1>9 DEF WorkerFinish, WorkerMoves, outputVars
  <2>2. CASE flag[t]
    BY <2>1, <2>2 DEF HistInv, NoneCancelled
  <2>3. CASE ~flag[t]
    <3>1. worker' = [worker EXCEPT ![t] = "finalising"] /\ mem' = mem
      BY <1>9, <2>3 DEF WorkerFinish, WorkerMoves
    <3> QED
      BY <1>a, <2>1, <3>1, HistFrame DEF NoneCancelled
  <2> QED
    BY <2>2, <2>3
<1>10. ASSUME NEW t \in Turns, WorkerPersist(t) PROVE HistInv'
  <2>1. /\ worker[t] = "finalising" /\ worker' = [worker EXCEPT ![t] = "returned"]
        /\ mem' = [mem EXCEPT ![t] = <<>>] /\ UNCHANGED <<ckpt, flag>>
        /\ \A s \in Turns \ {t} : answer'[s] = answer[s]
    BY <1>a, <1>10 DEF WorkerPersist, WorkerMoves, Forget
  <2>2. SUFFICES ASSUME NoneCancelled PROVE HistInv'
    BY <2>1 DEF HistInv, NoneCancelled
  <2>3. \A u \in Turns : worker'[u] \notin {"seeding", "running", "finalising"}
    <3>1. \A u \in Turns \ {t} : ~Working(u)
      BY <2>1, <2>2, OneAtWork DEF Working
    <3> QED
      BY <1>a, <2>1, <3>1 DEF Working
  <2>4. Kept(ckpt, t)
    <3>1. Kept(mem[t], t) /\ (ckpt = mem[t] \/ ckpt = <<DigestOf(t)>>)
      BY <2>1, <2>2 DEF HistInv, Working
    <3>2. CASE ckpt = mem[t]
      BY <3>1, <3>2
    <3>3. CASE ckpt = <<DigestOf(t)>>
      <4>1. 1 \in DOMAIN ckpt /\ ckpt[1].role = "digest"
        BY <3>3 DEF DigestOf
      <4> QED
        BY <4>1 DEF Kept
    <3> QED
      BY <3>1, <3>2, <3>3
  <2>5. \A s \in Turns : answer'[s] # NoTurn => Kept(ckpt, s)
    BY <2>1, <2>2, <2>4 DEF HistInv
  <2>6. \A s \in Turns : answer'[s] # NoTurn => Kept(ckpt, s)'
    BY <2>1, <2>5 DEF Kept, HasPrompt
  <2> QED
    BY <2>3, <2>6 DEF HistInv, Working
<1>11. ASSUME NEW t \in Turns, WorkerFail(t) PROVE HistInv'
  <2>1. /\ worker' = [worker EXCEPT ![t] = "raised"] /\ mem' = [mem EXCEPT ![t] = <<>>]
        /\ UNCHANGED <<ckpt, answer, flag>>
    BY <1>11 DEF WorkerFail, WorkerMoves, Forget, outputVars
  <2> QED
    BY <1>a, <2>1, HistFrame DEF NoneCancelled
<1> QED
  BY StepCases, <1>1, <1>2, <1>3, <1>4, <1>5, <1>6, <1>7, <1>8, <1>9, <1>10, <1>11

\* When POSTs are served one at a time and no turn was cancelled, the session has one
\* history: each graph run reads back its own work, and finds what earlier turns asked
\* (_drive, CompactingCheckpointer.put).
THEOREM HistoryKeptHolds ==
  ASSUME ~ConcurrentPosts, ~LoopRace
  PROVE  Spec => []HistoryKept
<1>1. Init => SerialInv /\ HistInv
  BY DEF Init, SerialInv, Live, Waiting, HistInv, Working
<1>2. TypeOK /\ SerialInv /\ [Next]_vars => SerialInv'
  BY SerialStep
<1>3. IInv /\ SerialInv /\ HistInv /\ [Next]_vars => HistInv'
  BY HistStep
<1>4. HistInv => HistoryKept
  BY DEF HistInv, HistoryKept, UncancelledIsolated, PromptsReachLaterTurns, NoneCancelled, DigestOf,
     Kept, Working
<1> QED
  BY Inductive, TypeCorrect, <1>1, <1>2, <1>3, <1>4, PTL DEF Spec
=============================================================================
