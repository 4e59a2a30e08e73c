---------------------------- MODULE AgentLoopProofs ----------------------------
(***************************************************************************)
(* Theorems about AgentLoop, for any settings of its counters and budgets, *)
(* any number of turns and any recursion limit; and about the repair of    *)
(* histories of any length.                                                *)
(***************************************************************************)
EXTENDS AgentLoop, FiniteSetTheorems, WellFoundedInduction, TLAPS

\* Calls the model may make between two looks of the gate without a tool.
Streak == MaxEmpty + 1

\* The counters of a turn, and what they say of its history.
Counted ==
  /\ node \in {"idle", "node_agent", "node_tools", "node_gate"}
  /\ empty \in Nat /\ idle \in Nat
  /\ nudges \in 0 .. MaxNudges
  /\ todos \in 0 .. 1
  /\ started \in Nat \cup {-1}
  /\ thoughts = empty
  /\ forced = nudges
  /\ asked <=> todos = 1
  /\ plan \in {"clear", "open"}

\* Each nudge pays for one streak; a streak that is still running is paid for by
\* the counter of empty responses.
Paid ==
  idle <= Streak * (nudges + todos)
            + (IF node = "node_agent"
               THEN IF empty <= MaxEmpty THEN empty ELSE 0
               ELSE Streak)

\* A turn is only over at the gate, and at the gate no streak is running.
Ending ==
  /\ node = "node_gate" => empty = 0 \/ empty > MaxEmpty
  /\ outcome = "done" =>
       /\ node = "idle"
       /\ empty = 0 \/ empty > MaxEmpty
       /\ TodoOn => plan = "clear" \/ todos = 1

IInv == Counted /\ Paid /\ Ending

\* One more nudge pays for one more streak.
LEMMA OneMore ==
  ASSUME NEW n \in Nat
  PROVE  /\ Streak * (n + 1) = Streak * n + Streak
         /\ Streak * n \in Nat
         /\ Streak \in Nat
BY LoopAssumption DEF Streak

\* At most MaxNudges + 1 nudges are paid for.
LEMMA Budget ==
  ASSUME NEW n \in 0 .. MaxNudges + 1
  PROVE  Streak * n + Streak <= (MaxEmpty + 1) * (MaxNudges + 2)
<1> DEFINE k == MaxNudges + 1 - n
<1>1. k \in Nat /\ MaxNudges + 2 = n + k + 1
  BY LoopAssumption
<1>2. Streak \in Nat /\ Streak = MaxEmpty + 1
  BY LoopAssumption DEF Streak
<1>3. Streak * (n + k + 1) = Streak * n + Streak * k + Streak /\ Streak * k >= 0
  BY <1>1, <1>2
<1>4. Streak * n \in Nat /\ Streak * k \in Nat
  BY <1>1, <1>2
<1> QED
  BY <1>1, <1>2, <1>3, <1>4

\* A fresh session satisfies it.
LEMMA InitIInv == Init => IInv
<1> SUFFICES ASSUME Init PROVE IInv
  OBVIOUS
<1>1. nudges + todos = 0 /\ Streak * 0 = 0 /\ Streak \in Nat
  BY LoopAssumption DEF Init, Streak
<1>2. Paid
  BY <1>1 DEF Init, Paid
<1> QED
  BY <1>2, LoopAssumption DEF Init, IInv, Counted, Ending

\* Every step of the session keeps it.
LEMMA StepIInv ==
  ASSUME IInv, [Next]_vars
  PROVE  IInv'
<1> USE LoopAssumption DEF IInv, turnVars, world, histories
<1> DEFINE n == nudges + todos
<1>0. n \in Nat /\ Streak * n \in Nat /\ Streak \in Nat
        /\ Streak * (n + 1) = Streak * n + Streak /\ Streak = MaxEmpty + 1
  BY OneMore DEF Counted, Streak
<1>1. CASE StartTurn
  <2>1. nudges' + todos' = 0 /\ Streak * 0 = 0
    BY <1>0, <1>1 DEF StartTurn
  <2>2. Paid'
    BY <1>0, <1>1, <2>1 DEF StartTurn, Seeds, Paid
  <2>3. Counted' /\ Ending'
    BY <1>1 DEF StartTurn, Seeds, Counted, Ending
  <2> QED
    BY <2>2, <2>3
<1>2. CASE Interrupt
  BY <1>0, <1>2 DEF Interrupt, Counted, Paid, Ending
<1>3. CASE AgentCalls
  BY <1>0, <1>3 DEF AgentCalls, Runs, Counted, Paid, Ending
<1>4. CASE AgentAnswers
  BY <1>0, <1>4 DEF AgentAnswers, Runs, Counted, Paid, Ending
<1>5. CASE AgentThinks
  BY <1>0, <1>5 DEF AgentThinks, Runs, Counted, Paid, Ending
<1>6. CASE Tools
  BY <1>0, <1>6 DEF Tools, Runs, Counted, Paid, Ending
<1>7. CASE GateForces
  <2>1. nudges' + todos' = n + 1
    BY <1>7 DEF GateForces, Counted
  <2>2. idle <= Streak * n + Streak /\ idle \in Nat
    BY <1>7 DEF GateForces, Runs, Counted, Paid
  <2>3. Paid'
    BY <1>0, <1>7, <2>1, <2>2 DEF GateForces, SendsBack, Counted, Paid
  <2>4. Counted' /\ Ending'
    BY <1>7 DEF GateForces, SendsBack, Blocked, Exhausted, Runs, Counted, Ending
  <2> QED
    BY <2>3, <2>4
<1>8. CASE GateAsks
  <2>1. nudges' + todos' = n + 1
    BY <1>8 DEF GateAsks, Counted
  <2>2. idle <= Streak * n + Streak /\ idle \in Nat
    BY <1>8 DEF GateAsks, Runs, Counted, Paid
  <2>3. Paid'
    BY <1>0, <1>8, <2>1, <2>2 DEF GateAsks, SendsBack, Counted, Paid
  <2>4. Counted' /\ Ending'
    BY <1>8 DEF GateAsks, SendsBack, Runs, Counted, Ending
  <2> QED
    BY <2>3, <2>4
<1>9. CASE GatePasses
  BY <1>0, <1>9 DEF GatePasses, Runs, Counted, Paid, Ending
<1>10. CASE UNCHANGED vars
  BY <1>10 DEF vars, Counted, Paid, Ending
<1> QED
  BY <1>1, <1>2, <1>3, <1>4, <1>5, <1>6, <1>7, <1>8, <1>9, <1>10 DEF Next, GraphStep

\* The inductive invariant holds throughout.
LEMMA Inductive == Spec => []IInv
BY InitIInv, StepIInv, PTL DEF Spec

\* However the model behaves, it is called at most (MaxEmpty + 1) * (MaxNudges + 2)
\* times without running a tool: thinking-only retries, verify nudges and the
\* plan nudge cannot keep one another going.
THEOREM IdleBounded == Spec => []IdleBound
<1>1. IInv => IdleBound
  <2> SUFFICES ASSUME IInv PROVE IdleBound
    OBVIOUS
  <2>1. nudges + todos \in 0 .. MaxNudges + 1 /\ idle \in Nat /\ empty \in Nat
    BY LoopAssumption DEF IInv, Counted
  <2>2. Streak \in Nat /\ Streak * (nudges + todos) \in Nat /\ Streak = MaxEmpty + 1
    BY <2>1, OneMore DEF Streak
  <2>3. idle <= Streak * (nudges + todos) + Streak
    BY <2>1, <2>2, LoopAssumption DEF IInv, Paid
  <2> QED
    BY <2>1, <2>2, <2>3, Budget, LoopAssumption DEF IdleBound
<1> QED
  BY Inductive, <1>1, PTL

\* A turn never ends on reasoning alone before its own streak is used up, even
\* when an earlier turn was cut off in the middle of one.
THEOREM EndsAnsweredHolds == Spec => []EndsAnswered
<1>1. IInv => EndsAnswered
  BY DEF IInv, Counted, Ending, EndsAnswered
<1> QED
  BY Inductive, <1>1, PTL

\* A turn that ends with an open plan was asked about it in that turn.
THEOREM EndsPlannedHolds == Spec => []EndsPlanned
<1>1. IInv => EndsPlanned
  BY DEF IInv, Counted, Ending, EndsPlanned
<1> QED
  BY Inductive, <1>1, PTL

-----------------------------------------------------------------------------
\* The gate's clock is at 0 from the first step of a turn on, never at None.
Clock ==
  /\ started \in {-1, 0}
  /\ node # "idle" => started = 0

\* Every step keeps the clock where it is.
LEMMA ClockStep ==
  ASSUME Clock, [Next]_vars
  PROVE  Clock'
<1> USE DEF Clock, turnVars
<1>1. CASE StartTurn
  BY <1>1 DEF StartTurn, Seeds
<1>2. CASE Interrupt
  BY <1>2 DEF Interrupt
<1>3. CASE AgentCalls \/ AgentAnswers \/ AgentThinks \/ Tools
  BY <1>3 DEF AgentCalls, AgentAnswers, AgentThinks, Tools, Runs
<1>4. CASE GateForces \/ GateAsks \/ GatePasses
  BY <1>4 DEF GateForces, GateAsks, GatePasses, Runs
<1>5. CASE UNCHANGED vars
  BY <1>5 DEF vars
<1> QED
  BY <1>1, <1>2, <1>3, <1>4, <1>5 DEF Next, GraphStep

\* The clock of a fresh session has not been set.
LEMMA InitClock == Init => Clock
BY DEF Init, Clock

\* The budget is one of the installation's.
Budgeted == budget \in Nat

\* A turn whose budget is up is given no verify nudge.
Silent == Now > budget => forced = 0

\* The budget is never changed.
LEMMA BudgetedStep ==
  ASSUME Budgeted, [Next]_vars
  PROVE  Budgeted' /\ budget' = budget
<1> USE DEF Budgeted, world
<1>1. CASE StartTurn \/ Interrupt
  BY <1>1 DEF StartTurn, Seeds, Interrupt
<1>2. CASE AgentCalls \/ AgentAnswers \/ AgentThinks \/ Tools
  BY <1>2 DEF AgentCalls, AgentAnswers, AgentThinks, Tools
<1>3. CASE GateForces \/ GateAsks \/ GatePasses
  BY <1>3 DEF GateForces, GateAsks, GatePasses
<1>4. CASE UNCHANGED vars
  BY <1>4 DEF vars
<1> QED
  BY <1>1, <1>2, <1>3, <1>4 DEF Next, GraphStep

\* A session starts with a budget and without a clock or a nudge.
LEMMA InitBudgeted == Init => Budgeted /\ Silent
BY LoopAssumption DEF Init, Budgeted, Silent

\* Every step of a session whose time is up leaves the gate silent.
LEMMA SilentStep ==
  ASSUME Budgeted, Clock, Silent, [Next]_vars
  PROVE  Silent'
<1> USE DEF Silent, turnVars, histories
<1>0. budget' = budget
  BY BudgetedStep
<1>1. CASE StartTurn
  BY <1>1 DEF StartTurn, Seeds
<1>2. CASE Interrupt
  BY <1>0, <1>2 DEF Interrupt
<1>3. CASE AgentCalls \/ AgentAnswers \/ AgentThinks \/ Tools
  BY <1>0, <1>3 DEF AgentCalls, AgentAnswers, AgentThinks, Tools
<1>4. CASE GateForces
  BY <1>0, <1>4, LoopAssumption DEF GateForces, Runs, Clock, Blocked, Exhausted, Budgeted
<1>5. CASE GateAsks \/ GatePasses
  BY <1>0, <1>5 DEF GateAsks, GatePasses
<1>6. CASE UNCHANGED vars
  BY <1>0, <1>6 DEF vars
<1> QED
  BY <1>1, <1>2, <1>3, <1>4, <1>5, <1>6 DEF Next, GraphStep

\* Wherever the time of day is more seconds than the budget - 0.0 counts from the
\* epoch - the verify gate never sends the model back, whatever the app's state.
THEOREM GateNeverForces == Spec => []Silent
<1>1. Budgeted /\ Clock /\ Silent /\ [Next]_vars => Budgeted' /\ Clock' /\ Silent'
  BY BudgetedStep, ClockStep, SilentStep
<1> QED
  BY InitClock, InitBudgeted, <1>1, PTL DEF Spec

-----------------------------------------------------------------------------
\* A turn that is over was let go by the gate.
Verified ==
  outcome = "done" /\ GateOn =>
    app # "red" \/ nudges >= MaxNudges \/ Now > budget

\* Every step keeps that.
LEMMA VerifiedStep ==
  ASSUME IInv, Budgeted, Clock, Verified, [Next]_vars
  PROVE  Verified'
<1> USE DEF Verified, turnVars, world
<1>0. node # "idle" => outcome # "done"
  BY DEF IInv, Ending
<1>1. CASE StartTurn
  BY <1>1 DEF StartTurn, Seeds
<1>2. CASE Interrupt
  BY <1>2 DEF Interrupt
<1>3. CASE AgentCalls \/ AgentAnswers \/ AgentThinks \/ Tools
  BY <1>0, <1>3 DEF AgentCalls, AgentAnswers, AgentThinks, Tools, Runs
<1>4. CASE GateForces \/ GateAsks
  BY <1>0, <1>4 DEF GateForces, GateAsks, SendsBack, Runs
<1>5. CASE GatePasses
  <2>1. started # -1 /\ Now - started > budget => Now > budget
    BY LoopAssumption DEF Clock, Budgeted
  <2> QED
    BY <1>5, <2>1 DEF GatePasses, Blocked, Exhausted
<1>6. CASE UNCHANGED vars
  BY <1>6 DEF vars
<1> QED
  BY <1>1, <1>2, <1>3, <1>4, <1>5, <1>6 DEF Next, GraphStep

\* A turn ends with every app verified or after MaxNudges nudges of its own, for
\* any budget that the epoch itself fits in; any other lets it go at once.
THEOREM EndsVerifiedHolds == Spec => []EndsVerified
<1>1. Init => Verified
  BY DEF Init, Verified
<1>2. IInv /\ Budgeted /\ Clock /\ Verified /\ [Next]_vars => Budgeted' /\ Clock' /\ Verified'
  BY BudgetedStep, ClockStep, VerifiedStep
<1>3. IInv /\ Verified => EndsVerified
  BY DEF IInv, Counted, Verified, EndsVerified
<1> QED
  BY Inductive, InitClock, InitBudgeted, <1>1, <1>2, <1>3, PTL DEF Spec

\* Every turn ends answered, verified as far as the gate's clock lets it, and asked
\* about its plan, each for as far as the settings go.
THEOREM EndsInOrderHolds == Spec => []EndsInOrder
<1>1. EndsAnswered /\ EndsVerified /\ EndsPlanned => EndsInOrder
  BY DEF EndsInOrder
<1> QED
  BY EndsAnsweredHolds, EndsVerifiedHolds, EndsPlannedHolds, <1>1, PTL
-----------------------------------------------------------------------------
(* What the model is sent.                                                 *)

\* A set of numbers has a least one: what stands in for induction on a length.
LEMMA LeastNumber ==
  ASSUME NEW T, T \subseteq Nat, T # {}
  PROVE  \E x \in T : \A y \in T : x <= y
<1>1. PICK x \in T : \A y \in T : <<y, x>> \notin OpToRel(<, Nat)
  BY WFMin, NatLessThanWellFounded, Zenon
<1>2. ASSUME NEW y \in T PROVE x <= y
  <2>1. SUFFICES ASSUME y < x PROVE FALSE
    OBVIOUS
  <2>2. x \in Nat /\ y \in Nat
    OBVIOUS
  <2>3. <<y, x>> \in OpToRel(<, Nat)
    BY <2>1, <2>2 DEF OpToRel
  <2> QED
    BY <1>1, <2>3
<1> QED
  BY <1>2

\* Flattening one-message sequences gives the messages back.
LEMMA FlattenOne ==
  ASSUME NEW d \in Seq(Message)
  PROVE  FlattenSeq([i \in DOMAIN d |-> <<d[i]>>]) = d
<1> DEFINE n == Len(d)
           seqs == [i \in DOMAIN d |-> <<d[i]>>]
           Step(g) == [i \in 1 .. n |-> IF i = 1 THEN seqs[i] ELSE g[i - 1] \o seqs[i]]
           f == CHOOSE g : g = Step(g)
           Upto(i) == [k \in 1 .. i |-> d[k]]
           prefix == [i \in 1 .. n |-> Upto(i)]
<1>1. n \in Nat /\ DOMAIN d = 1 .. n /\ Len(seqs) = n /\ \A i \in 1 .. n : d[i] \in Message /\ seqs[i] = <<d[i]>>
  OBVIOUS
<1>2. CASE n = 0
  <2>1. seqs = <<>> /\ d = <<>>
    BY <1>1, <1>2
  <2> QED
    BY <2>1 DEF FlattenSeq
<1>3. CASE n # 0
  <2>1. FlattenSeq(seqs) = f[n]
    BY <1>1, <1>3 DEF FlattenSeq
  <2>2. prefix = Step(prefix)
    <3>1. ASSUME NEW i \in 1 .. n
          PROVE  Upto(i) = IF i = 1 THEN seqs[i] ELSE Upto(i - 1) \o seqs[i]
      <4>1. CASE i = 1
        BY <1>1, <4>1
      <4>2. CASE i # 1
        <5>1. i - 1 \in Nat /\ Upto(i - 1) \in Seq(Message) /\ Len(Upto(i - 1)) = i - 1
          BY <1>1, <4>2
        <5>2. Upto(i) \in Seq(Message) /\ Len(Upto(i)) = i
          BY <1>1, <4>2
        <5>3. d[i] \in Message /\ seqs[i] = <<d[i]>>
          BY <1>1
        <5>4. ASSUME NEW p, p = Upto(i - 1)
              PROVE  Upto(i) = Append(p, d[i])
          BY <5>1, <5>2, <5>3, <5>4
        <5>5. Upto(i - 1) \o <<d[i]>> = Append(Upto(i - 1), d[i])
          <6> HIDE DEF Upto
          <6> QED
            BY <5>1, <5>3
        <5> QED
          BY <4>2, <5>3, <5>4, <5>5
      <4> QED
        BY <4>1, <4>2
    <3>2. \A i \in 1 .. n : i # 1 => i - 1 \in 1 .. n
      BY <1>1
    <3>3. \A i \in 1 .. n : prefix[i] = Upto(i)
      OBVIOUS
    <3>4. ASSUME NEW i \in 1 .. n
          PROVE  prefix[i] = IF i = 1 THEN seqs[i] ELSE prefix[i - 1] \o seqs[i]
      BY <3>1, <3>2, <3>3
    <3> QED
      BY <3>4
  <2>3. f = Step(f)
    <3> HIDE DEF Step, prefix
    <3> QED
      BY <2>2
  <2>4. \A i \in 1 .. n : f[i] = IF i = 1 THEN seqs[i] ELSE f[i - 1] \o seqs[i]
    <3> HIDE DEF f, seqs
    <3> QED
      BY <2>3
  <2>5. \A i \in 1 .. n : prefix[i] = IF i = 1 THEN seqs[i] ELSE prefix[i - 1] \o seqs[i]
    <3> HIDE DEF seqs
    <3>1. \E g : g = prefix
      OBVIOUS
    <3>2. PICK g : g = prefix
      BY <3>1
    <3>3. g = Step(g)
      BY <2>2, <3>2
    <3>4. \A i \in 1 .. n : g[i] = IF i = 1 THEN seqs[i] ELSE g[i - 1] \o seqs[i]
      BY <3>3
    <3> QED
      BY <3>2, <3>4, Zenon
  <2>6. \A i \in 1 .. n : f[i] = prefix[i]
    <3> DEFINE T == {i \in 1 .. n : f[i] # prefix[i]}
    <3> HIDE DEF f, prefix, seqs
    <3> SUFFICES ASSUME T # {} PROVE FALSE
      OBVIOUS
    <3>1. T \subseteq Nat
      OBVIOUS
    <3>2. PICK i \in T : \A j \in T : i <= j
      <4> HIDE DEF T
      <4> QED
        BY <3>1, LeastNumber
    <3>3. i \in 1 .. n /\ i # 1
      BY <2>4, <2>5
    <3>4. i - 1 \in 1 .. n /\ i - 1 \notin T
      BY <1>1, <3>2, <3>3
    <3>5. f[i - 1] = prefix[i - 1]
      BY <3>4
    <3> QED
      BY <2>4, <2>5, <3>3, <3>5
  <2>7. prefix[n] = d
    BY <1>1, <1>3
  <2>8. f[n] = prefix[n]
    <3> HIDE DEF f, prefix
    <3> QED
      BY <1>1, <1>3, <2>6
  <2>9. FlattenSeq(seqs) = d
    <3> HIDE DEF f, prefix, seqs
    <3> QED
      BY <2>1, <2>7, <2>8
  <2> QED
    BY <2>9
<1> QED
  BY <1>2, <1>3

\* What DropCalls leaves alone: the number, the order and the roles of messages,
\* and every message that is not of the model.
LEMMA Shape ==
  ASSUME NEW h \in Seq(Message)
  PROVE  /\ DropCalls(h) \in Seq(Message)
         /\ Len(DropCalls(h)) = Len(h) /\ DOMAIN DropCalls(h) = DOMAIN h
         /\ \A i \in DOMAIN h :
              /\ DropCalls(h)[i].role = h[i].role
              /\ h[i].role = "ai" => DropCalls(h)[i].ids = h[i].ids \cap Results(h, i)
              /\ h[i].role # "ai" => DropCalls(h)[i] = h[i]
<1>1. ASSUME NEW i \in DOMAIN h
      PROVE  /\ h[i] \in Message
             /\ Ai(h[i].ids \cap Results(h, i)) \in Message
  <2>1. h[i] \in Message
    OBVIOUS
  <2>2. h[i].ids \cap Results(h, i) \in SUBSET Ids
    BY <2>1 DEF Message
  <2> QED
    BY <2>1, <2>2 DEF Message, Ai
<1>2. \A i \in DOMAIN h : DropCalls(h)[i] \in Message
  BY <1>1 DEF DropCalls
<1>3. DOMAIN DropCalls(h) = 1 .. Len(h) /\ Len(h) \in Nat /\ DOMAIN h = 1 .. Len(h)
  BY DEF DropCalls
<1>4. DropCalls(h) \in Seq(Message) /\ Len(DropCalls(h)) = Len(h)
  <2>1. DropCalls(h) = [i \in 1 .. Len(h) |-> DropCalls(h)[i]]
    BY <1>3 DEF DropCalls
  <2> QED
    BY <1>2, <1>3, <2>1
<1> QED
  BY <1>3, <1>4 DEF DropCalls, Ai

\* Striking calls moves no result.
LEMMA SameResults ==
  ASSUME NEW h \in Seq(Message), NEW i \in DOMAIN h
  PROVE  Results(DropCalls(h), i) = Results(h, i)
<1> DEFINE d == DropCalls(h)
           Run(g) == {k \in i + 1 .. Len(g) : \A n \in i + 1 .. k : g[n].role = "tool"}
<1>1. i \in Nat /\ i >= 1 /\ Len(h) \in Nat /\ DOMAIN h = 1 .. Len(h) /\ Len(d) = Len(h)
  BY Shape
<1>2. \A k \in 1 .. Len(h) : d[k].role = h[k].role /\ (h[k].role = "tool" => d[k] = h[k])
  BY <1>1, Shape
<1> HIDE DEF d
<1>3. Run(d) = Run(h)
  BY <1>1, <1>2
<1>4. \A k \in Run(h) : k \in 1 .. Len(h) /\ h[k].role = "tool"
  BY <1>1
<1>5. \A k \in Run(h) : d[k].ids = h[k].ids
  BY <1>2, <1>4
<1>6. Results(d, i) = UNION {d[j].ids : j \in Run(d)} /\ Results(h, i) = UNION {h[j].ids : j \in Run(h)}
  BY DEF Results
<1> HIDE DEF Run
<1>7. Results(d, i) = Results(h, i)
  BY <1>3, <1>5, <1>6
<1> QED
  BY <1>7 DEF d

\* A call that is left has its result.
LEMMA DropAnswers ==
  ASSUME NEW h \in Seq(Message)
  PROVE  Answered(DropCalls(h))
BY Shape, SameResults DEF Answered

\* A result behind its call stays behind it.
LEMMA DropKeepsAsked ==
  ASSUME NEW h \in Seq(Message), Asked(h)
  PROVE  Asked(DropCalls(h))
<1> DEFINE d == DropCalls(h)
<1>1. Len(h) \in Nat /\ DOMAIN h = 1 .. Len(h) /\ DOMAIN d = DOMAIN h
        /\ \A k \in DOMAIN h : d[k].role = h[k].role
  BY Shape
<1>2. SUFFICES ASSUME NEW j \in DOMAIN h, h[j].role = "tool"
               PROVE  \E i \in 1 .. j - 1 :
                        /\ d[i].role = "ai"
                        /\ d[j].ids \subseteq d[i].ids
                        /\ \A k \in i + 1 .. j : d[k].role = "tool"
  BY <1>1 DEF Asked
<1>3. PICK i \in 1 .. j - 1 : /\ h[i].role = "ai"
                              /\ h[j].ids \subseteq h[i].ids
                              /\ \A k \in i + 1 .. j : h[k].role = "tool"
  BY <1>2 DEF Asked
<1>4. i \in DOMAIN h /\ j \in i + 1 .. Len(h)
  BY <1>1, <1>2, <1>3
<1>5. h[j].ids \subseteq Results(h, i)
  BY <1>3, <1>4 DEF Results
<1>6. d[i].ids = h[i].ids \cap Results(h, i) /\ d[j] = h[j]
  BY <1>2, <1>3, <1>4, Shape
<1>7. \A k \in i + 1 .. j : k \in DOMAIN h
  BY <1>1, <1>4
<1> HIDE DEF d
<1> QED
  BY <1>1, <1>3, <1>4, <1>5, <1>6, <1>7

\* Where every result was asked for, none is dropped.
LEMMA NoneDropped ==
  ASSUME NEW d \in Seq(Message), Asked(d)
  PROVE  DropResults(d) = d
<1>1. ASSUME NEW j \in DOMAIN d, d[j].role = "tool"
      PROVE  d[j].ids \subseteq KnownIds(d, j)
  <2>1. PICK i \in 1 .. j - 1 : d[i].role = "ai" /\ d[j].ids \subseteq d[i].ids
    BY <1>1 DEF Asked
  <2> QED
    BY <2>1 DEF KnownIds
<1>2. [i \in DOMAIN d |->
         IF d[i].role = "tool" => d[i].ids \subseteq KnownIds(d, i)
         THEN <<d[i]>> ELSE <<>>] = [i \in DOMAIN d |-> <<d[i]>>]
  BY <1>1
<1> QED
  BY <1>2, FlattenOne DEF DropResults

\* What a history is repaired to.
LEMMA Repaired ==
  ASSUME NEW h \in Seq(Message), Asked(h)
  PROVE  Repair(h) = DropCalls(h)
BY Shape, DropKeepsAsked, NoneDropped DEF Repair

\* A history the providers accept is sent as it is.
THEOREM RepairSparesAccepted ==
  ASSUME NEW h \in Seq(Message), Accepted(h)
  PROVE  Repair(h) = h
<1>1. ASSUME NEW i \in DOMAIN h PROVE DropCalls(h)[i] = h[i]
  <2>1. h[i] \in Message
    OBVIOUS
  <2>2. CASE h[i].role = "ai"
    <3>1. h[i].ids \cap Results(h, i) = h[i].ids
      BY <2>2 DEF Accepted, Answered
    <3>2. h[i] = Ai(h[i].ids)
      BY <2>1, <2>2 DEF Message, Ai
    <3> QED
      BY <2>2, <3>1, <3>2 DEF DropCalls
  <2>3. CASE h[i].role # "ai"
    BY <2>3 DEF DropCalls
  <2> QED
    BY <2>2, <2>3
<1>2. DropCalls(h) = h
  BY <1>1, Shape
<1> QED
  BY <1>2, NoneDropped DEF Repair, Accepted

\* Whatever was cut off, a history whose results were all asked for is mended
\* into one the providers accept.
THEOREM RepairMendsCutOff ==
  ASSUME NEW h \in Seq(Message), Asked(h)
  PROVE  /\ Accepted(Repair(h))
         /\ Repair(Repair(h)) = Repair(h)
<1>1. Accepted(Repair(h))
  BY Repaired, DropAnswers, DropKeepsAsked DEF Accepted
<1>2. Repair(h) \in Seq(Message)
  BY Repaired, Shape
<1> QED
  BY <1>1, <1>2, RepairSparesAccepted

\* A message that is no result leaves every result where it was.
LEMMA AppendAsked ==
  ASSUME NEW h \in Seq(Message), Asked(h), NEW m \in Message, m.role # "tool"
  PROVE  Append(h, m) \in Seq(Message) /\ Asked(Append(h, m))
<1> DEFINE g == Append(h, m)
<1>1. Len(h) \in Nat /\ DOMAIN h = 1 .. Len(h) /\ DOMAIN g = 1 .. Len(h) + 1
        /\ g[Len(h) + 1] = m /\ \A k \in 1 .. Len(h) : g[k] = h[k]
  OBVIOUS
<1> HIDE DEF g
<1>2. ASSUME NEW j \in DOMAIN g, g[j].role = "tool"
      PROVE  \E i \in 1 .. j - 1 :
               /\ g[i].role = "ai"
               /\ g[j].ids \subseteq g[i].ids
               /\ \A k \in i + 1 .. j : g[k].role = "tool"
  <2>1. j \in 1 .. Len(h) /\ g[j] = h[j]
    BY <1>1, <1>2
  <2>2. PICK i \in 1 .. j - 1 : /\ h[i].role = "ai"
                                /\ h[j].ids \subseteq h[i].ids
                                /\ \A k \in i + 1 .. j : h[k].role = "tool"
    BY <1>1, <1>2, <2>1 DEF Asked
  <2>3. i \in 1 .. Len(h) /\ \A k \in i + 1 .. j : k \in 1 .. Len(h)
    BY <1>1, <2>1
  <2> QED
    BY <1>1, <2>1, <2>2, <2>3
<1>3. Asked(g)
  BY <1>2 DEF Asked
<1> QED
  BY <1>3 DEF g

\* Nor does it take a result from its call.
LEMMA AppendAnswered ==
  ASSUME NEW h \in Seq(Message), Answered(h), NEW m \in Message, m.role = "human"
  PROVE  Answered(Append(h, m))
<1> DEFINE g == Append(h, m)
<1>1. Len(h) \in Nat /\ DOMAIN h = 1 .. Len(h) /\ DOMAIN g = 1 .. Len(h) + 1 /\ Len(g) = Len(h) + 1
        /\ g[Len(h) + 1] = m /\ \A k \in 1 .. Len(h) : g[k] = h[k]
  OBVIOUS
<1> HIDE DEF g
<1>2. ASSUME NEW i \in DOMAIN g, g[i].role = "ai"
      PROVE  g[i].ids \subseteq Results(g, i)
  <2>1. i \in 1 .. Len(h) /\ g[i] = h[i] /\ h[i].ids \subseteq Results(h, i)
    BY <1>1, <1>2 DEF Answered
  <2>2. ASSUME NEW k \in i + 1 .. Len(h), \A n \in i + 1 .. k : h[n].role = "tool"
        PROVE  k \in i + 1 .. Len(g) /\ g[k] = h[k] /\ \A n \in i + 1 .. k : g[n].role = "tool"
    BY <1>1, <2>1, <2>2
  <2>3. Results(h, i) \subseteq Results(g, i)
    BY <2>2 DEF Results
  <2> QED
    BY <2>1, <2>3
<1>3. Answered(g)
  BY <1>2 DEF Answered
<1> QED
  BY <1>3 DEF g

\* Results appended behind the message that called for them were asked for.
LEMMA ResultsAsked ==
  ASSUME NEW h \in Seq(Message), Asked(h), h # <<>>, h[Len(h)].role = "ai",
         NEW r \in Seq(Message),
         \A k \in DOMAIN r : r[k].role = "tool" /\ r[k].ids \subseteq h[Len(h)].ids
  PROVE  h \o r \in Seq(Message) /\ Asked(h \o r)
<1> DEFINE g == h \o r
<1>1. /\ Len(h) \in Nat /\ Len(r) \in Nat /\ DOMAIN h = 1 .. Len(h) /\ DOMAIN r = 1 .. Len(r)
      /\ DOMAIN g = 1 .. Len(h) + Len(r)
      /\ \A k \in 1 .. Len(h) : g[k] = h[k]
      /\ \A k \in Len(h) + 1 .. Len(h) + Len(r) : g[k] = r[k - Len(h)]
      /\ Len(h) >= 1
  OBVIOUS
<1>2. ASSUME NEW k \in Len(h) + 1 .. Len(h) + Len(r)
      PROVE  g[k].role = "tool" /\ g[k].ids \subseteq h[Len(h)].ids
  <2>1. k - Len(h) \in DOMAIN r
    BY <1>1
  <2> QED
    BY <1>1, <2>1
<1> HIDE DEF g
<1>3. ASSUME NEW j \in DOMAIN g, g[j].role = "tool"
      PROVE  \E i \in 1 .. j - 1 :
               /\ g[i].role = "ai"
               /\ g[j].ids \subseteq g[i].ids
               /\ \A k \in i + 1 .. j : g[k].role = "tool"
  <2>1. CASE j \in 1 .. Len(h)
    <3>1. PICK i \in 1 .. j - 1 : /\ h[i].role = "ai"
                                  /\ h[j].ids \subseteq h[i].ids
                                  /\ \A k \in i + 1 .. j : h[k].role = "tool"
      BY <1>1, <1>3, <2>1 DEF Asked
    <3>2. i \in 1 .. Len(h) /\ \A k \in i + 1 .. j : k \in 1 .. Len(h)
      BY <1>1, <2>1
    <3> QED
      BY <1>1, <2>1, <3>1, <3>2
  <2>2. CASE j \in Len(h) + 1 .. Len(h) + Len(r)
    <3>1. /\ Len(h) \in 1 .. j - 1 /\ g[Len(h)] = h[Len(h)]
          /\ \A k \in Len(h) + 1 .. j : k \in Len(h) + 1 .. Len(h) + Len(r)
      BY <1>1, <2>2
    <3>2. g[Len(h)].role = "ai" /\ g[j].ids \subseteq g[Len(h)].ids
      BY <1>2, <2>2, <3>1
    <3>3. \A k \in Len(h) + 1 .. j : g[k].role = "tool"
      BY <1>2, <3>1
    <3>4. \E i \in 1 .. j - 1 : i = Len(h)
      BY <3>1, Zenon
    <3> QED
      BY <3>2, <3>3, <3>4, Zenon
  <2>3. j \in 1 .. Len(h) \/ j \in Len(h) + 1 .. Len(h) + Len(r)
    BY <1>1
  <2> QED
    BY <2>1, <2>2, <2>3, Zenon
<1>4. Asked(g)
  BY <1>3 DEF Asked
<1> QED
  BY <1>4 DEF g

\* The history of a session and what the next node finds at its end: the model
\* something to answer, the tools the calls of the last message.
Saved ==
  /\ hist \in Seq(Message)
  /\ Asked(hist)
  /\ issued \in 0 .. NumIds
  /\ node = "node_agent" => hist # <<>> /\ (empty > 0 \/ hist[Len(hist)].role # "ai")
  /\ node = "node_tools" =>
       /\ hist # <<>>
       /\ \E n \in 1 .. 2 : n <= issued /\ hist[Len(hist)] = Ai(issued - n + 1 .. issued)

\* The rest of the types.
World ==
  /\ app \in {"none", "red", "green"}
  /\ turn \in 0 .. MaxTurns
  /\ steps \in 0 .. RecursionLimit
  /\ outcome \in {"none", "done", "failed"}
  /\ budget \in Budgets
  /\ asked \in BOOLEAN

\* The three kinds of message.
LEMMA Sorts ==
  /\ Human \in Message /\ Human.role = "human"
  /\ \A S \in SUBSET Ids : Ai(S) \in Message /\ Ai(S).role = "ai" /\ Ai(S).ids = S
  /\ \A i \in Ids : Result(i) \in Message /\ Result(i).role = "tool" /\ Result(i).ids = {i}
BY DEF Message, Human, Ai, Result

\* A digest has nothing to mend.
LEMMA DigestAccepted == <<Human>> \in Seq(Message) /\ Accepted(<<Human>>)
<1> DEFINE g == <<Human>>
<1>1. g \in Seq(Message) /\ DOMAIN g = {1} /\ g[1] = Human
  BY Sorts
<1> HIDE DEF g
<1>2. \A i \in DOMAIN g : g[i].role = "human"
  BY <1>1, Sorts
<1>3. Accepted(g)
  BY <1>2 DEF Accepted, Answered, Asked
<1> QED
  BY <1>1, <1>3 DEF g

\* What a model call starts from.
LEMMA Preparing ==
  ASSUME hist \in Seq(Message), Asked(hist), NEW h \in Prepared
  PROVE  /\ h \in Seq(Message)
         /\ Accepted(h)
         /\ h = DropCalls(hist) \/ h = <<Human>>
<1>1. CASE h = Repair(hist)
  BY <1>1, Repaired, RepairMendsCutOff, Shape
<1>2. CASE h = <<Human>>
  BY <1>2, DigestAccepted
<1> QED
  BY <1>1, <1>2 DEF Prepared, Compacted

\* A fresh session has an empty history.
LEMMA InitSaved == Init => Saved /\ World
<1> SUFFICES ASSUME Init PROVE Saved /\ World
  OBVIOUS
<1>1. \A h \in {<<>>} : h \in Seq(Message) /\ Asked(h)
  BY DEF Asked
<1>2. hist \in Seq(Message) /\ Asked(hist)
  BY <1>1, Zenon DEF Init
<1>3. issued \in 0 .. NumIds /\ turn \in 0 .. MaxTurns /\ steps \in 0 .. RecursionLimit
  BY LoopAssumption DEF Init
<1> QED
  BY <1>2, <1>3 DEF Init, Saved, World

\* Every step keeps the rest of the types.
LEMMA StepWorld ==
  ASSUME World, [Next]_vars
  PROVE  World'
<1> USE LoopAssumption DEF World, world, histories, turnVars
<1>0. steps < RecursionLimit => steps + 1 \in 0 .. RecursionLimit
  OBVIOUS
<1>1. CASE StartTurn
  <2>1. turn + 1 \in 0 .. MaxTurns /\ 0 \in 0 .. RecursionLimit
    BY <1>1 DEF StartTurn, Seeds
  <2>2. turn' = turn + 1 /\ steps' = 0 /\ outcome' = "none" /\ asked' = FALSE /\ app' = app
          /\ budget' = budget
    BY <1>1 DEF StartTurn, Seeds
  <2> QED
    BY <2>1, <2>2
<1>2. CASE Interrupt
  BY <1>2 DEF Interrupt
<1>3. CASE AgentCalls \/ AgentAnswers \/ AgentThinks
  BY <1>0, <1>3 DEF AgentCalls, AgentAnswers, AgentThinks, Runs
<1>4. CASE Tools
  BY <1>0, <1>4 DEF Tools, Runs
<1>5. CASE GateForces \/ GateAsks \/ GatePasses
  BY <1>0, <1>5 DEF GateForces, GateAsks, GatePasses, SendsBack, Runs
<1>6. CASE UNCHANGED vars
  BY <1>6 DEF vars
<1> QED
  BY <1>1, <1>2, <1>3, <1>4, <1>5, <1>6 DEF Next, GraphStep

\* What the model says, saved on top of what it was given.
LEMMA Saying ==
  ASSUME hist \in Seq(Message), Asked(hist),
         NEW h \in Prepared, NEW S \in SUBSET Ids, Says(h, Ai(S))
  PROVE  /\ hist' \in Seq(Message) /\ hist' # <<>>
         /\ Asked(hist')
         /\ hist'[Len(hist')] = Ai(S)
<1>1. h \in Seq(Message) /\ Asked(h)
  BY Preparing DEF Accepted
<1>2. PICK g : g = Append(h, Ai(S))
  OBVIOUS
<1>3. g \in Seq(Message) /\ Asked(g)
  BY <1>1, <1>2, Sorts, AppendAsked
<1>4. g # <<>> /\ g[Len(g)] = Ai(S)
  BY <1>1, <1>2
<1>5. hist' = g
  BY <1>2 DEF Says
<1> QED
  BY <1>3, <1>4, <1>5

\* A message of the loop, saved on top of the history.
LEMMA Prompting ==
  ASSUME NEW h \in Seq(Message), Asked(h), hist' = Append(h, Human)
  PROVE  /\ hist' \in Seq(Message) /\ hist' # <<>>
         /\ Asked(hist')
         /\ hist'[Len(hist')].role # "ai"
<1>2. PICK g : g = Append(h, Human)
  OBVIOUS
<1>3. g \in Seq(Message) /\ Asked(g)
  BY <1>2, Sorts, AppendAsked
<1>4. g # <<>> /\ g[Len(g)] = Human
  BY <1>2
<1>5. hist' = g
  BY <1>2
<1> QED
  BY <1>3, <1>4, <1>5, Sorts

\* Every step of the session leaves a history that can be mended.
LEMMA StepSaved ==
  ASSUME IInv, Saved, [Next]_vars
  PROVE  Saved'
<1> USE LoopAssumption DEF Saved, histories
<1>0. empty \in Nat
  BY DEF IInv, Counted
<1>1. CASE StartTurn
  <2>1. PICK h \in Compacted(hist) : hist' = Append(h, Human)
    BY <1>1 DEF StartTurn, Seeds
  <2>2. h \in Seq(Message) /\ Asked(h)
    BY DigestAccepted DEF Compacted, Accepted
  <2> QED
    BY <1>1, <2>1, <2>2, Prompting DEF StartTurn, Seeds
<1>2. CASE Interrupt
  BY <1>2 DEF Interrupt
<1>3. CASE AgentCalls
  <2>1. PICK n \in 1 .. 2, h \in Prepared :
               issued + n <= NumIds /\ issued' = issued + n /\ Says(h, Ai(NextIds(n)))
    BY <1>3 DEF AgentCalls
  <2>2. NextIds(n) \in SUBSET Ids /\ NextIds(n) = issued' - n + 1 .. issued' /\ n <= issued'
          /\ issued' \in 0 .. NumIds
    BY <2>1 DEF NextIds, Ids
  <2>3. hist' \in Seq(Message) /\ hist' # <<>> /\ Asked(hist') /\ hist'[Len(hist')] = Ai(NextIds(n))
    BY <2>1, <2>2, Saying
  <2> QED
    BY <1>3, <2>2, <2>3 DEF AgentCalls
<1>4. CASE AgentAnswers \/ AgentThinks
  <2>1. PICK h \in Prepared : Says(h, Ai({}))
    BY <1>4 DEF AgentAnswers, AgentThinks
  <2>2. hist' \in Seq(Message) /\ hist' # <<>> /\ Asked(hist')
    BY <2>1, Saying
  <2> QED
    BY <1>0, <1>4, <2>2 DEF AgentAnswers, AgentThinks
<1>5. CASE Tools
  <2>1. PICK n \in 1 .. 2 : n <= issued /\ hist # <<>> /\ hist[Len(hist)] = Ai(issued - n + 1 .. issued)
    BY <1>5 DEF Tools, Runs
  <2>2. issued - n + 1 .. issued \in SUBSET Ids /\ Cardinality(issued - n + 1 .. issued) = n
    BY <2>1, FS_Interval DEF Ids
  <2>3. /\ hist[Len(hist)].role = "ai"
        /\ hist[Len(hist)].ids = issued - n + 1 .. issued
    BY <2>1, <2>2, Sorts
  <2>4. PICK r : r = [i \in 1 .. n |-> Result(issued - n + i)]
    OBVIOUS
  <2>5. \A i \in 1 .. n : issued - n + i \in Ids /\ issued - n + i \in issued - n + 1 .. issued
    BY <2>1 DEF Ids
  <2>6. /\ r \in Seq(Message) /\ Len(r) = n /\ DOMAIN r = 1 .. n
        /\ \A k \in DOMAIN r : r[k].role = "tool" /\ r[k].ids \subseteq hist[Len(hist)].ids
    <3>1. ASSUME NEW i \in 1 .. n
          PROVE  /\ Result(issued - n + i) \in Message
                 /\ Result(issued - n + i).role = "tool"
                 /\ Result(issued - n + i).ids \subseteq hist[Len(hist)].ids
      <4>1. PICK id : id = issued - n + i
        OBVIOUS
      <4>2. id \in Ids /\ id \in hist[Len(hist)].ids
        BY <2>3, <2>5, <4>1
      <4> QED
        BY <4>1, <4>2, Sorts
    <3>2. n \in Nat
      OBVIOUS
    <3>3. r \in Seq(Message) /\ Len(r) = n /\ DOMAIN r = 1 .. n
      <4>1. \A i \in 1 .. n : Result(issued - n + i) \in Message
        BY <3>1, Zenon
      <4>2. r \in [1 .. n -> Message]
        BY <2>4, <4>1, Zenon
      <4>3. ASSUME NEW q \in [1 .. n -> Message]
            PROVE  q \in Seq(Message) /\ Len(q) = n /\ DOMAIN q = 1 .. n
        BY <3>2
      <4> QED
        BY <4>2, <4>3, Zenon
    <3>4. ASSUME NEW k \in DOMAIN r
          PROVE  r[k].role = "tool" /\ r[k].ids \subseteq hist[Len(hist)].ids
      <4>1. k \in 1 .. n /\ r[k] = Result(issued - n + k)
        BY <2>4, <3>3
      <4> QED
        BY <3>1, <4>1, Zenon
    <3> QED
      BY <3>3, <3>4
  <2>7. hist' = hist \o r
    BY <1>5, <2>2, <2>3, <2>4 DEF Tools
  <2>8. PICK g : g = hist \o r
    OBVIOUS
  <2>9. g \in Seq(Message) /\ Asked(g)
    BY <2>1, <2>3, <2>6, <2>8, ResultsAsked
  <2>10. g # <<>> /\ g[Len(g)].role = "tool"
    <3>1. Len(g) = Len(hist) + n /\ g[Len(hist) + n] = r[n]
      BY <2>1, <2>6, <2>8
    <3> QED
      BY <2>6, <2>9, <3>1
  <2>11. hist' = g
    BY <2>7, <2>8
  <2>12. node' = "node_agent" /\ issued' = issued
    BY <1>5 DEF Tools
  <2> QED
    BY <2>9, <2>10, <2>11, <2>12
<1>6. CASE GateForces \/ GateAsks
  <2>1. hist' = Append(hist, Human) /\ node' = "node_agent" /\ issued' = issued
    BY <1>6 DEF GateForces, GateAsks, SendsBack
  <2> QED
    BY <2>1, Prompting
<1>7. CASE GatePasses
  BY <1>7 DEF GatePasses, turnVars
<1>8. CASE UNCHANGED vars
  BY <1>8 DEF vars, turnVars
<1> QED
  BY <1>1, <1>2, <1>3, <1>4, <1>5, <1>6, <1>7, <1>8 DEF Next, GraphStep

\* The history is sound throughout.
LEMMA SavedInductive == Spec => [](IInv /\ Saved /\ World)
<1>1. IInv /\ Saved /\ World /\ [Next]_vars => (IInv /\ Saved /\ World)'
  BY StepIInv, StepSaved, StepWorld
<1> QED
  BY InitIInv, InitSaved, <1>1, PTL DEF Spec

\* Every variable keeps its type; ids beyond the bound are never handed out, and
\* the history stays a sequence of messages through every repair.
THEOREM TypeOKHolds == Spec => []TypeOK
<1>1. IInv /\ Saved /\ World => TypeOK
  BY DEF IInv, Counted, Saved, World, TypeOK
<1> QED
  BY SavedInductive, <1>1, PTL

\* Whatever a session has been through, _prepare_history gives the providers a
\* history that pairs each call with its result and does not end with the model's
\* own turn.
THEOREM InputAcceptedHolds == Spec => []InputAccepted
<1>1. IInv /\ Saved => InputAccepted
  <2> SUFFICES ASSUME IInv, Saved, node = "node_agent", NEW h \in Prepared
               PROVE  Accepted(Sent(h)) /\ Sent(h)[Len(Sent(h))].role # "ai"
    BY DEF InputAccepted
  <2>1. h \in Seq(Message) /\ Accepted(h) /\ (h = DropCalls(hist) \/ h = <<Human>>)
    BY Preparing DEF Saved
  <2>2. CASE empty > 0
    <3>1. Sent(h) = Append(h, Human)
      BY <2>2 DEF Sent
    <3>2. Accepted(Append(h, Human))
      BY <2>1, Sorts, AppendAsked, AppendAnswered DEF Accepted
    <3>3. Append(h, Human)[Len(Append(h, Human))] = Human
      BY <2>1
    <3> QED
      BY <3>1, <3>2, <3>3, Sorts
  <2>3. CASE ~(empty > 0)
    <3>1. Sent(h) = h
      BY <2>3 DEF Sent
    <3>2. hist \in Seq(Message) /\ hist # <<>> /\ hist[Len(hist)].role # "ai"
      BY <2>3 DEF Saved
    <3>3. CASE h = DropCalls(hist)
      <4>1. Len(hist) \in DOMAIN hist
        BY <3>2
      <4>2. h[Len(h)].role = hist[Len(hist)].role
        BY <3>2, <3>3, <4>1, Shape
      <4> QED
        BY <2>1, <3>1, <3>2, <4>2
    <3>4. CASE h = <<Human>>
      <4>1. h[Len(h)] = Human
        BY <3>4
      <4> QED
        BY <2>1, <3>1, <4>1, Sorts
    <3> QED
      BY <2>1, <3>3, <3>4
  <2> QED
    BY <2>2, <2>3
<1> QED
  BY SavedInductive, <1>1, PTL
================================================================================
