----------------------------- MODULE HostProofs -----------------------------
(***************************************************************************)
(* Theorems about Processes and Commits, for any number of sessions, pids,  *)
(* branches and edits.                                                       *)
(***************************************************************************)
EXTENDS Host, TLAPS

-----------------------------------------------------------------------------
(* Processes: what ps shows below some pids.                               *)

\* A process shown below some roots is in every set that has them and its members'
\* children; so something that passes from parent to child has it from a root.
LEMMA TreeIn ==
  ASSUME NEW roots \in SUBSET Pids, NEW tree \in SUBSET Pids, roots \subseteq tree, Whole(tree)
  PROVE  Tree(roots) \subseteq tree
BY DEF Tree

LEMMA TreeOfPids ==
  ASSUME NEW roots \in SUBSET Pids
  PROVE  Tree(roots) \subseteq Pids /\ roots \subseteq Tree(roots)
BY DEF Tree

\* The inductive invariant, in parts: types, what a parent says of its children, what a
\* row and a call say of the pids in them.
ProcTypes ==
  /\ proc \in [Pids -> [of : Agents \cup {Nobody, Proxy}, parent : Pids \cup {Server, Init1},
                        zombie : BOOLEAN, listens : BOOLEAN]]
  /\ rows \in [Pids -> Agents \cup {Nobody}] /\ fresh \subseteq Pids
  /\ uses \in [Pids -> Nat]
  /\ \A p \in Pids : proc[p].of # Nobody => uses[p] >= 1
  /\ \A p \in Pids : proc[p].zombie => proc[p].parent = Server

Calls == [kind : {"none", "all", "port", "pid"},
          at : {"none", "owned", "listeners", "tree", "term", "kill", "rows"},
          pid : Pids \cup {Init1}, reg : SUBSET Pids, roots : SUBSET Pids, via : SUBSET Pids,
          kill : SUBSET Pids, disturbed : BOOLEAN]
CallTypes == stop \in [Agents -> Calls]

\* A process with a parent among the pids is of the parent's session, and the parent runs.
Parents ==
  \A p \in Pids : proc[p].parent \in Pids =>
    /\ proc[p].of \in Agents /\ proc[proc[p].parent].of = proc[p].of
    /\ Runs(proc[p].parent)
FreshInv == \A p \in fresh : proc[p].of \in Agents /\ proc[p].parent = Server

\* Pid q has been a process of s, and is nobody else's unless it was given out again.
Mine(q, s) == uses[q] >= 1 /\ (uses[q] <= 1 => proc[q].of \in {s, Nobody})
MineThen(q, s) == uses'[q] >= 1 /\ (uses'[q] <= 1 => proc'[q].of \in {s, Nobody})
RowsInv    == \A q \in Pids : rows[q] # Nobody => Mine(q, rows[q])
Led(s)     == stop[s].reg \cup stop[s].via
Once(s)    == \A q \in Led(s) : uses[q] <= 1
CallInv    == \A s \in Agents : Once(s) => \A q \in Led(s) \cup stop[s].kill : Mine(q, s)
RootsInv   == \A s \in Agents : stop[s].roots \subseteq stop[s].via

ProcInv == ProcTypes /\ CallTypes /\ Parents /\ FreshInv /\ RowsInv /\ CallInv /\ RootsInv


-----------------------------------------------------------------------------
(* Processes: how the operating system's table changes.                    *)
Proc        == [of : Agents \cup {Nobody, Proxy}, parent : Pids \cup {Server, Init1},
                zombie : BOOLEAN, listens : BOOLEAN]
RunsThen(p) == proc'[p].of # Nobody /\ ~proc'[p].zombie

\* Process p goes on, ends or stays what it was.
Goes(p) ==
  /\ proc'[p] \in Proc
  /\ proc'[p].of \in {proc[p].of, Nobody}
  /\ proc'[p].zombie => proc'[p].parent = Server
  /\ RunsThen(p) => Runs(p) /\ proc'[p].of = proc[p].of
  /\ p \in fresh => proc'[p].of = proc[p].of /\ proc'[p].parent = proc[p].parent
  /\ proc'[p].parent \in Pids => /\ proc'[p].parent = proc[p].parent /\ proc'[p].of = proc[p].of
                                 /\ RunsThen(proc[p].parent)
Shrinks == proc' \in [Pids -> Proc] /\ uses' = uses /\ \A p \in Pids : Goes(p)

\* Pid q is given out.
Gives(q) ==
  /\ uses' = [uses EXCEPT ![q] = uses[q] + 1]
  /\ proc' \in [Pids -> Proc]
  /\ \A p \in Pids \ {q} : Goes(p)
  /\ proc'[q].of # Nobody /\ ~proc'[q].zombie /\ ~Runs(q) /\ q \notin fresh
  /\ proc'[q].parent \in Pids => /\ proc'[q].of \in Agents /\ RunsThen(proc'[q].parent)
                                 /\ proc'[proc'[q].parent].of = proc'[q].of

LEMMA Nothings == NoProcess \in Proc /\ NoProcess.of = Nobody /\ NoProcess.parent = Init1
                  /\ ~NoProcess.zombie /\ Init1 \notin Pids /\ Server \notin Pids
                  /\ Nobody \notin Agents /\ NoStop \in Calls /\ Nobody # Proxy
BY ProcessAssumption DEF NoProcess, Proc, NoStop, Calls

LEMMA EndedShrinks ==
  ASSUME ProcTypes, Parents, FreshInv, NEW dead \in SUBSET {p \in Pids : Runs(p)},
         proc' = Ended(dead), uses' = uses
  PROVE  Shrinks
<1>1. ASSUME NEW p \in Pids
      PROVE  /\ p \in dead /\ proc[p].parent = Server
                  => proc'[p] = [proc[p] EXCEPT !.zombie = TRUE, !.listens = FALSE]
             /\ p \in dead /\ proc[p].parent # Server => proc'[p] = NoProcess
             /\ p \notin dead /\ proc[p].parent \in dead => proc'[p] = [proc[p] EXCEPT !.parent = Init1]
             /\ p \notin dead /\ proc[p].parent \notin dead => proc'[p] = proc[p]
  BY DEF Ended
<1>2. ASSUME NEW p \in Pids
      PROVE  /\ proc'[p] \in Proc
             /\ p \in dead => /\ ~RunsThen(p) /\ proc'[p].of \in {proc[p].of, Nobody}
                              /\ proc'[p].parent \notin Pids
                              /\ proc'[p].zombie => proc'[p].parent = Server
                              /\ proc[p].parent = Server => proc'[p].of = proc[p].of /\ proc'[p].parent = Server
             /\ p \notin dead => /\ proc'[p].of = proc[p].of /\ proc'[p].zombie = proc[p].zombie
                                 /\ proc'[p].parent \in {proc[p].parent, Init1}
                                 /\ proc[p].parent \notin dead => proc'[p].parent = proc[p].parent
                                 /\ proc'[p].parent # Init1 => proc[p].parent \notin dead
  <2>1. proc[p] \in Proc
    BY DEF ProcTypes, Proc
  <2>2. CASE p \in dead /\ proc[p].parent = Server
    <3>1. /\ proc'[p] \in Proc /\ proc'[p].of = proc[p].of /\ proc'[p].zombie
          /\ proc'[p].parent = Server
      BY <1>1, <2>1, <2>2 DEF Proc
    <3> QED
      BY <2>2, <3>1, Nothings DEF RunsThen
  <2>3. CASE p \in dead /\ proc[p].parent # Server
    BY <1>1, <2>1, <2>3, Nothings DEF RunsThen
  <2>4. CASE p \notin dead /\ proc[p].parent \in dead
    <3>1. /\ proc'[p] \in Proc /\ proc'[p].of = proc[p].of /\ proc'[p].zombie = proc[p].zombie
          /\ proc'[p].parent = Init1
      BY <1>1, <2>1, <2>4 DEF Proc
    <3> QED
      BY <2>4, <3>1, Nothings DEF RunsThen
  <2>5. CASE p \notin dead /\ proc[p].parent \notin dead
    BY <1>1, <2>1, <2>5
  <2> QED
    BY <2>2, <2>3, <2>4, <2>5
<1>3. ASSUME NEW p \in Pids PROVE Goes(p)
  <2>1. proc[p].zombie => proc[p].parent = Server
    BY DEF ProcTypes
  <2>2. p \in fresh => proc[p].parent = Server /\ Server \notin dead
    BY Nothings DEF FreshInv
  <2>3. CASE p \in dead
    BY <1>2, <2>2, <2>3 DEF Goes
  <2>4. CASE p \notin dead
    <3>1. /\ proc'[p].of = proc[p].of /\ proc'[p].zombie = proc[p].zombie /\ proc'[p] \in Proc
          /\ proc'[p].parent \in {proc[p].parent, Init1}
      BY <1>2, <2>4
    <3>2. proc[p].zombie => proc'[p].parent = Server
      BY <1>2, <2>1, <2>4, Nothings
    <3>3. ASSUME proc'[p].parent \in Pids
          PROVE  proc'[p].parent = proc[p].parent /\ RunsThen(proc[p].parent)
      <4>1. proc[p].parent \in Pids \ dead /\ proc'[p].parent = proc[p].parent
        BY <1>2, <2>4, <3>1, <3>3, Nothings
      <4>2. Runs(proc[p].parent)
        BY <4>1 DEF Parents
      <4> QED
        BY <1>2, <4>1, <4>2 DEF Runs, RunsThen
    <3>4. RunsThen(p) => Runs(p)
      BY <3>1 DEF Runs, RunsThen
    <3>5. p \in fresh => proc'[p].parent = proc[p].parent
      BY <1>2, <2>2, <2>4
    <3> QED
      BY <3>1, <3>2, <3>3, <3>4, <3>5 DEF Goes
  <2> QED
    BY <2>3, <2>4
<1>4. proc' \in [Pids -> Proc]
  BY <1>2 DEF Ended
<1> QED
  BY <1>3, <1>4 DEF Shrinks

LEMMA CollectedIs ==
  ASSUME ProcTypes, Parents, FreshInv
  PROVE  /\ Collected \in [Pids -> Proc]
         /\ \A p \in Pids : /\ Collected[p] # proc[p] =>
                                 proc[p].zombie /\ p \notin fresh /\ Collected[p] = NoProcess
                            /\ Runs(p) => Collected[p] = proc[p]
                            /\ Collected[p].parent \in Pids =>
                                 Collected[p] = proc[p] /\ Runs(proc[p].parent)
BY Nothings DEF Collected, ProcTypes, Proc, Runs, Parents

LEMMA CollectedShrinks ==
  ASSUME ProcTypes, Parents, FreshInv, proc' = Collected, uses' = uses
  PROVE  Shrinks
<1>1. ASSUME NEW p \in Pids PROVE Goes(p)
  <2>1. CASE proc'[p] = proc[p]
    BY <2>1, CollectedIs DEF Goes, RunsThen, Runs, ProcTypes, Proc
  <2>2. CASE proc'[p] # proc[p]
    BY <2>2, CollectedIs, Nothings DEF Goes, RunsThen
  <2> QED
    BY <2>1, <2>2
<1> QED
  BY <1>1, CollectedIs DEF Shrinks

LEMMA SameShrinks ==
  ASSUME ProcTypes, Parents, UNCHANGED <<proc, uses>>
  PROVE  Shrinks
BY DEF Shrinks, Goes, RunsThen, Runs, ProcTypes, Proc, Parents

\* What a new process is given out over: nobody had the pid, and nobody's parent has it.
LEMMA GivesIs ==
  ASSUME ProcTypes, Parents, FreshInv, NEW q \in Pids, NEW new \in Proc, NEW table \in {proc, Collected},
         table[q] = NoProcess, proc' = [table EXCEPT ![q] = new], GivenOut(q),
         new.of # Nobody, ~new.zombie,
         new.parent \in Pids => new.of \in Agents /\ Runs(new.parent) /\ proc[new.parent].of = new.of
  PROVE  Gives(q)
<1>1. table \in [Pids -> Proc] /\ proc' \in [Pids -> Proc] /\ proc'[q] = new
      /\ \A p \in Pids \ {q} : proc'[p] = table[p]
  BY CollectedIs DEF ProcTypes, Proc
<1>2. ~Runs(q) /\ q \notin fresh
  BY CollectedIs, Nothings DEF Runs, FreshInv
<1>3. ASSUME NEW p \in Pids, Runs(p) PROVE p # q /\ proc'[p] = proc[p] /\ RunsThen(p)
  BY <1>1, <1>2, <1>3, CollectedIs DEF Runs, RunsThen
<1>4. ASSUME NEW p \in Pids \ {q} PROVE Goes(p)
  <2>1. CASE proc'[p] = proc[p]
    <3>1. proc[p].parent \in Pids => RunsThen(proc[p].parent)
      BY <1>3 DEF Parents
    <3> QED
      BY <1>1, <2>1, <3>1 DEF Goes, RunsThen, Runs, ProcTypes
  <2>2. CASE proc'[p] # proc[p]
    BY <1>1, <2>2, CollectedIs, Nothings DEF Goes, RunsThen
  <2> QED
    BY <2>1, <2>2
<1>5. new.parent \in Pids => RunsThen(new.parent) /\ proc'[new.parent].of = new.of
  BY <1>3
<1> QED
  BY <1>1, <1>2, <1>4, <1>5 DEF Gives, GivenOut


Moves == Shrinks \/ \E q \in Pids : Gives(q)

LEMMA TableKept ==
  ASSUME ProcTypes, Parents, Moves, rows' \in [Pids -> Agents \cup {Nobody}], fresh' \subseteq Pids
  PROVE  /\ ProcTypes' /\ Parents'
         /\ \A q \in Pids : uses[q] <= uses'[q] /\ \A s \in Agents : Mine(q, s) => Mine(q, s)'
<1>1. CASE Shrinks
  <2>1. \A p \in Pids : Goes(p) /\ uses'[p] = uses[p] /\ uses[p] \in Nat
    BY <1>1 DEF Shrinks, ProcTypes
  <2>2. ProcTypes'
    BY <1>1, <2>1 DEF Shrinks, ProcTypes, Proc, Goes
  <2>3. Parents'
    BY <2>1 DEF Parents, Goes, RunsThen, Runs
  <2> QED
    BY <2>1, <2>2, <2>3 DEF Mine, Goes
<1>2. ASSUME NEW q \in Pids, Gives(q)
      PROVE  /\ ProcTypes' /\ Parents'
             /\ \A p \in Pids : uses[p] <= uses'[p] /\ \A s \in Agents : Mine(p, s) => Mine(p, s)'
  <2>1. /\ uses' \in [Pids -> Nat] /\ uses'[q] = uses[q] + 1 /\ uses[q] \in Nat
        /\ \A p \in Pids \ {q} : uses'[p] = uses[p] /\ uses[p] \in Nat /\ Goes(p)
    BY <1>2 DEF Gives, ProcTypes
  <2>2. ProcTypes'
    BY <1>2, <2>1, Nothings DEF Gives, ProcTypes, Proc, Goes
  <2>3. Parents'
    <3>1. ASSUME NEW p \in Pids, proc'[p].parent \in Pids
          PROVE  proc'[p].of \in Agents /\ proc'[proc'[p].parent].of = proc'[p].of
                 /\ RunsThen(proc'[p].parent)
      <4>1. CASE p = q
        BY <1>2, <3>1, <4>1 DEF Gives
      <4>2. CASE p # q
        <5>1. /\ proc'[p].parent = proc[p].parent /\ proc'[p].of = proc[p].of
              /\ RunsThen(proc[p].parent)
          BY <2>1, <3>1, <4>2 DEF Goes
        <5>2. proc[p].of \in Agents /\ proc[proc[p].parent].of = proc[p].of /\ proc[p].parent # q
          BY <1>2, <3>1, <5>1 DEF Parents, Gives
        <5> QED
          BY <2>1, <3>1, <5>1, <5>2 DEF Goes, RunsThen
      <4> QED
        BY <4>1, <4>2
    <3> QED
      BY <3>1 DEF Parents, RunsThen, Runs
  <2>4. ASSUME NEW p \in Pids, NEW s \in Agents, Mine(p, s) PROVE Mine(p, s)'
    <3>1. CASE p = q
      BY <2>1, <2>4, <3>1 DEF Mine
    <3>2. CASE p # q
      BY <2>1, <2>4, <3>2 DEF Mine, Goes
    <3> QED
      BY <3>1, <3>2
  <2> QED
    BY <2>1, <2>2, <2>3, <2>4
<1> QED
  BY <1>1, <1>2 DEF Moves

-----------------------------------------------------------------------------
(* Processes: what a call is led by.                                       *)
Steady(s) ==
  /\ stop'[s].reg = stop[s].reg /\ stop'[s].roots = stop[s].roots /\ stop'[s].via = stop[s].via
  /\ stop'[s].kill = stop[s].kill
CallOf(s) == stop[s].roots \subseteq stop[s].via /\ (Once(s) => \A q \in Led(s) \cup stop[s].kill : Mine(q, s))

LEMMA LedPids == ASSUME CallTypes, NEW s \in Agents PROVE stop[s] \in Calls /\ Led(s) \subseteq Pids /\ stop[s].kill \subseteq Pids
BY DEF CallTypes, Led, Calls

\* A call that is not led on rests on what it rested on.
LEMMA SteadyKeeps ==
  ASSUME CallTypes, ProcTypes, ProcTypes', NEW s \in Agents, CallOf(s), Steady(s),
         \A q \in Pids : uses[q] <= uses'[q] /\ (Mine(q, s) => Mine(q, s)')
  PROVE  CallOf(s)'
<1>1. Led(s)' = Led(s) /\ Led(s) \subseteq Pids /\ stop[s].kill \subseteq Pids
  BY LedPids DEF Led, Steady
<1>2. Once(s)' => Once(s)
  BY <1>1 DEF Once, ProcTypes
<1> QED
  BY <1>1, <1>2 DEF CallOf, Steady

\* Processes below pids that were s's and nobody else's are too.
LEMMA TreeMine ==
  ASSUME ProcTypes, Parents, NEW s \in Agents, NEW roots \in SUBSET Pids,
         \A q \in roots : uses[q] <= 1 /\ Mine(q, s), NEW all \in Shown(roots)
  PROVE  all \in SUBSET Pids /\ \A p \in all : Mine(p, s)
<1> DEFINE tree == roots \cup {p \in Pids : proc[p].of = s}
<1>1. ASSUME NEW p \in Pids, proc[p].parent \in tree PROVE p \in tree
  <2>1. proc[p].parent \in Pids /\ proc[p].of \in Agents /\ proc[proc[p].parent].of = proc[p].of
    BY <1>1 DEF Parents
  <2>2. proc[proc[p].parent].of \in {s, Nobody}
    BY <1>1 DEF Mine
  <2> QED
    BY <2>1, <2>2, Nothings
<1>2. Tree(roots) \subseteq tree /\ all \subseteq Pids
  BY <1>1, TreeIn, TreeOfPids DEF Whole, Shown
<1>3. ASSUME NEW p \in Pids, proc[p].of = s PROVE Mine(p, s)
  BY <1>3, Nothings DEF Mine, ProcTypes
<1> QED
  BY <1>2, <1>3 DEF Shown


\* Steps that only mark calls as disturbed.
LEMMA HitIs ==
  ASSUME CallTypes, NEW calls \in [Agents -> Calls], NEW by, NEW dead
  PROVE  /\ Hit(calls, by, dead) \in [Agents -> Calls]
         /\ \A a \in Agents :
              LET c == Hit(calls, by, dead)[a] IN
              /\ c.kind = calls[a].kind /\ c.at = calls[a].at /\ c.reg = calls[a].reg
              /\ c.roots = calls[a].roots /\ c.via = calls[a].via /\ c.kill = calls[a].kill
              /\ ~c.disturbed => c = calls[a] /\ (a # by /\ stop[a] # NoStop => \A p \in dead : proc[p].of # a)
<1>1. ASSUME NEW a \in Agents
      PROVE  LET c == [calls[a] EXCEPT !.disturbed = TRUE] IN
             /\ c \in Calls /\ c.disturbed
             /\ c.kind = calls[a].kind /\ c.at = calls[a].at /\ c.reg = calls[a].reg
             /\ c.roots = calls[a].roots /\ c.via = calls[a].via /\ c.kill = calls[a].kill
  <2>1. calls[a] \in Calls
    OBVIOUS
  <2> QED
    BY <2>1 DEF Calls
<1> QED
  BY <1>1 DEF Hit

LEMMA DisturbIs ==
  ASSUME CallTypes, NEW s \in Agents, Disturb(s)
  PROVE  /\ CallTypes' /\ \A a \in Agents : Steady(a) /\ stop'[a].kind = stop[a].kind /\ stop'[a].at = stop[a].at
         /\ \A a \in Agents : ~stop'[a].disturbed => stop'[a] = stop[a]
         /\ ~stop'[s].disturbed => stop[s] = NoStop
<1> DEFINE c == [stop[s] EXCEPT !.disturbed = stop[s].disturbed \/ stop[s] # NoStop]
<1>1. stop[s] \in Calls
  BY DEF CallTypes
<1>2. /\ c \in Calls /\ c.kind = stop[s].kind /\ c.at = stop[s].at /\ c.reg = stop[s].reg
      /\ c.roots = stop[s].roots /\ c.via = stop[s].via /\ c.kill = stop[s].kill
      /\ c.disturbed <=> stop[s].disturbed \/ stop[s] # NoStop
      /\ ~c.disturbed => c = stop[s]
  BY <1>1 DEF Calls
<1>3. stop' = [stop EXCEPT ![s] = c]
  BY DEF Disturb
<1> HIDE DEF c
<1> QED
  BY <1>2, <1>3 DEF CallTypes, Steady

\* A call that is led on rests on s's own pids, if it did.
LEMMA CallOn ==
  ASSUME CallTypes, NEW s \in Agents, NEW c \in Calls, stop' = [stop EXCEPT ![s] = c],
         c.roots \subseteq c.via,
         (\A q \in c.reg \cup c.via : uses'[q] <= 1)
           => \A q \in c.reg \cup c.via \cup c.kill : Mine(q, s)'
  PROVE  CallTypes' /\ CallOf(s)' /\ \A a \in Agents \ {s} : Steady(a)
<1>1. stop' \in [Agents -> Calls] /\ stop'[s] = c /\ \A a \in Agents \ {s} : stop'[a] = stop[a]
  BY DEF CallTypes
<1> QED
  BY <1>1 DEF CallTypes, CallOf, Once, Led, Steady

\* A step keeps the invariant when it moves processes, hands nobody a pid in the rows and
\* leads no call on but with pids of its own.
LEMMA StepKeeps ==
  ASSUME ProcInv, Moves, CallTypes', rows' \in [Pids -> Agents \cup {Nobody}], fresh' \subseteq Pids,
         \A a \in Agents : Steady(a) \/ CallOf(a)',
         \A p \in fresh' : p \in fresh \/ (proc'[p].of \in Agents /\ proc'[p].parent = Server),
         \A q \in Pids : rows'[q] \in {rows[q], Nobody, proc[q].of} /\ (rows'[q] = rows[q] \/ rows'[q] = Nobody \/ q \in fresh)
  PROVE  ProcInv'
<1>1. /\ ProcTypes' /\ Parents'
      /\ \A q \in Pids : uses[q] <= uses'[q] /\ \A s \in Agents : Mine(q, s) => Mine(q, s)'
  BY TableKept DEF ProcInv
<1>2. FreshInv'
  <2>1. ASSUME NEW p \in fresh \cap fresh' PROVE proc'[p].of = proc[p].of /\ proc'[p].parent = proc[p].parent
    <3>1. p \in Pids
      BY DEF ProcInv, ProcTypes
    <3> QED
      BY <2>1, <3>1 DEF Moves, Shrinks, Gives, Goes
  <2> QED
    BY <2>1 DEF ProcInv, FreshInv
<1>3. RowsInv'
  <2>1. ASSUME NEW q \in Pids, rows'[q] # Nobody PROVE MineThen(q, rows'[q])
    <3>1. rows'[q] \in Agents
      BY <2>1
    <3>2. Mine(q, rows'[q])
      <4>1. CASE rows'[q] = rows[q]
        BY <2>1, <4>1 DEF ProcInv, RowsInv
      <4>2. CASE q \in fresh /\ rows'[q] = proc[q].of
        BY <4>2, Nothings DEF ProcInv, FreshInv, ProcTypes, Mine
      <4> QED
        BY <2>1, <4>1, <4>2
    <3>3. PICK s : s = rows'[q]
      OBVIOUS
    <3>4. Mine(q, s)'
      BY <1>1, <3>1, <3>2, <3>3
    <3>5. MineThen(q, s)
      BY <3>4 DEF Mine, MineThen
    <3> QED
      BY <3>3, <3>5
  <2> QED
    BY <2>1 DEF RowsInv, Mine, MineThen
<1>4. ASSUME NEW a \in Agents PROVE CallOf(a)'
  BY <1>1, <1>4, SteadyKeeps DEF ProcInv, CallOf, CallInv, RootsInv
<1>5. CallInv' /\ RootsInv'
  BY <1>4 DEF CallInv, RootsInv, CallOf
<1> QED
  BY <1>1, <1>2, <1>3, <1>5 DEF ProcInv


LEMMA SpawnKeeps ==
  ASSUME ProcInv, NEW s \in Agents, NEW p \in Pids, Spawn(s, p)
  PROVE  ProcInv'
<1> DEFINE new == [NoProcess EXCEPT !.of = s, !.parent = Server]
<1>0. ProcTypes /\ Parents /\ FreshInv /\ CallTypes
  BY DEF ProcInv
<1>1. new \in Proc /\ new.of = s /\ new.parent = Server /\ ~new.zombie
  BY Nothings DEF Proc
<1>2. Collected[p] = NoProcess /\ proc' = [Collected EXCEPT ![p] = new] /\ GivenOut(p)
      /\ fresh' = fresh \cup {p} /\ rows' = rows /\ Disturb(s)
  BY DEF Spawn
<1> HIDE DEF new
<1>3. Gives(p)
  BY <1>0, <1>1, <1>2, GivesIs, Nothings
<1>4. proc'[p] = new
  BY <1>0, <1>2, CollectedIs
<1>5. CallTypes' /\ \A a \in Agents : Steady(a)
  BY <1>0, <1>2, DisturbIs
<1>6. rows' \in [Pids -> Agents \cup {Nobody}] /\ fresh' \subseteq Pids
  BY <1>0, <1>2 DEF ProcTypes
<1> QED
  BY <1>1, <1>2, <1>3, <1>4, <1>5, <1>6, StepKeeps DEF Moves

LEMMA ForkKeeps ==
  ASSUME ProcInv, NEW p \in Pids, NEW q \in Pids, Fork(p, q)
  PROVE  ProcInv'
<1>0. ProcTypes /\ Parents /\ FreshInv /\ CallTypes
  BY DEF ProcInv
<1>1. PICK listens \in BOOLEAN :
        proc' = [proc EXCEPT ![q] = [of |-> proc[p].of, parent |-> p, zombie |-> FALSE, listens |-> listens]]
  BY DEF Fork
<1> DEFINE new == [of |-> proc[p].of, parent |-> p, zombie |-> FALSE, listens |-> listens]
<1>2. new \in Proc /\ new.of = proc[p].of /\ new.parent = p /\ ~new.zombie
  BY DEF Fork, Proc
<1>3. /\ proc[q] = NoProcess /\ GivenOut(q) /\ Runs(p) /\ proc[p].of \in Agents
      /\ fresh' = fresh /\ rows' = rows /\ Disturb(proc[p].of)
  BY DEF Fork
<1>4. proc' = [proc EXCEPT ![q] = new]
  BY <1>1
<1> HIDE DEF new
<1>5. Gives(q)
  BY <1>0, <1>2, <1>3, <1>4, GivesIs, Nothings
<1>6. CallTypes' /\ \A a \in Agents : Steady(a)
  BY <1>0, <1>3, DisturbIs
<1>7. rows' \in [Pids -> Agents \cup {Nobody}] /\ fresh' \subseteq Pids
  BY <1>0, <1>3 DEF ProcTypes
<1> QED
  BY <1>3, <1>5, <1>6, <1>7, StepKeeps DEF Moves

LEMMA ServiceKeeps ==
  ASSUME ProcInv, NEW q \in Pids, ServiceUp(q)
  PROVE  ProcInv'
<1> DEFINE new == [NoProcess EXCEPT !.of = Proxy]
<1>0. ProcTypes /\ Parents /\ FreshInv /\ CallTypes
  BY DEF ProcInv
<1>1. new \in Proc /\ new.of = Proxy /\ new.parent = Init1 /\ ~new.zombie
  BY Nothings DEF Proc
<1>2. proc[q] = NoProcess /\ proc' = [proc EXCEPT ![q] = new] /\ GivenOut(q)
      /\ UNCHANGED <<fresh, rows, stop>>
  BY DEF ServiceUp
<1> HIDE DEF new
<1>3. Gives(q)
  BY <1>0, <1>1, <1>2, GivesIs, Nothings
<1>4. CallTypes' /\ (\A a \in Agents : Steady(a))
      /\ rows' \in [Pids -> Agents \cup {Nobody}] /\ fresh' \subseteq Pids
  BY <1>0, <1>2 DEF ProcTypes, CallTypes, Steady
<1> QED
  BY <1>2, <1>3, <1>4, StepKeeps DEF Moves

LEMMA RegisterKeeps ==
  ASSUME ProcInv, NEW p \in Pids, Register(p)
  PROVE  ProcInv'
<1>0. ProcTypes /\ Parents /\ FreshInv /\ CallTypes
  BY DEF ProcInv
<1>1. PICK row \in {proc[p].of, rows[p]} : rows' = [rows EXCEPT ![p] = row]
  BY DEF Register
<1>2. p \in fresh /\ fresh' = fresh \ {p} /\ UNCHANGED <<proc, uses>> /\ Disturb(proc[p].of)
  BY DEF Register
<1>3. proc[p].of \in Agents
  BY <1>0, <1>2 DEF FreshInv
<1>4. CallTypes' /\ \A a \in Agents : Steady(a)
  BY <1>0, <1>2, <1>3, DisturbIs
<1>5. /\ rows' \in [Pids -> Agents \cup {Nobody}] /\ fresh' \subseteq Pids
      /\ rows'[p] = row /\ \A q \in Pids \ {p} : rows'[q] = rows[q]
  BY <1>0, <1>1, <1>2, <1>3 DEF ProcTypes
<1> QED
  BY <1>0, <1>1, <1>2, <1>4, <1>5, SameShrinks, StepKeeps DEF Moves

\* Processes end, and calls that meet it are marked.
LEMMA EndKeeps ==
  ASSUME ProcInv, NEW dead \in SUBSET {p \in Pids : Runs(p)}, proc' = Ended(dead),
         NEW calls \in [Agents -> Calls], NEW by, stop' = Hit(calls, by, dead),
         \A a \in Agents : /\ calls[a].reg = stop[a].reg /\ calls[a].roots = stop[a].roots
                           /\ calls[a].via = stop[a].via /\ calls[a].kill = stop[a].kill,
         UNCHANGED <<fresh, uses>>, rows' \in [Pids -> Agents \cup {Nobody}],
         \A q \in Pids : rows'[q] \in {rows[q], Nobody}
  PROVE  ProcInv'
<1>0. ProcTypes /\ Parents /\ FreshInv /\ CallTypes /\ fresh' \subseteq Pids
  BY DEF ProcInv, ProcTypes
<1>1. Shrinks
  BY <1>0, EndedShrinks
<1>2. CallTypes' /\ \A a \in Agents : Steady(a)
  BY <1>0, HitIs DEF CallTypes, Steady
<1> QED
  BY <1>0, <1>1, <1>2, StepKeeps DEF Moves

\* A call of s goes on, by what s sees of the processes.
LEMMA LeadKeeps ==
  ASSUME ProcInv, NEW s \in Agents, NEW c \in Calls, stop' = [stop EXCEPT ![s] = c],
         c.roots \subseteq c.via, proc' \in {proc, Collected}, UNCHANGED <<fresh, uses>>,
         (\A q \in c.reg \cup c.via : uses[q] <= 1)
           => \A q \in c.reg \cup c.via \cup c.kill : Mine(q, s),
         rows' \in [Pids -> Agents \cup {Nobody}], \A q \in Pids : rows'[q] \in {rows[q], Nobody}
  PROVE  ProcInv'
<1>0. ProcTypes /\ Parents /\ FreshInv /\ CallTypes /\ fresh' \subseteq Pids
  BY DEF ProcInv, ProcTypes
<1>1. Moves
  BY <1>0, CollectedShrinks, SameShrinks DEF Moves
<1>2. \A q \in Pids : Mine(q, s) => Mine(q, s)'
  BY <1>0, <1>1, TableKept
<1>3. c.reg \cup c.via \cup c.kill \subseteq Pids
  BY DEF Calls
<1>4. CallTypes' /\ CallOf(s)' /\ \A a \in Agents \ {s} : Steady(a)
  BY <1>0, <1>2, <1>3, CallOn
<1> QED
  BY <1>0, <1>1, <1>4, StepKeeps


LEMMA AskKeeps ==
  ASSUME ProcInv, NEW s \in Agents, StopAll(s) \/ StopPort(s) \/ \E p \in Pids : StopPid(s, p)
  PROVE  ProcInv'
<1>1. Registered(s) \in SUBSET Pids /\ \A q \in Registered(s) : Mine(q, s)
  BY Nothings DEF Registered, ProcInv, RowsInv
<1>2. ASSUME NEW c \in Calls, Asks(s, c), c.reg = Registered(s), c.roots \in {{}, Registered(s)},
             c.via = c.roots, c.kill = {}
      PROVE  ProcInv'
  <2>1. stop' = [stop EXCEPT ![s] = c] /\ UNCHANGED <<proc, rows, fresh, uses>>
    BY <1>2 DEF Asks
  <2>2. \A q \in c.reg \cup c.via \cup c.kill : Mine(q, s)
    BY <1>1, <1>2
  <2> QED
    BY <1>2, <2>1, <2>2, LeadKeeps DEF ProcInv, ProcTypes
<1>3. CASE StopAll(s)
  <2> DEFINE d == \E p \in Pids : Runs(p) /\ proc[p].of = s /\ p \notin Tree(Registered(s))
             c == [NoStop EXCEPT !.kind = "all", !.at = "tree", !.reg = Registered(s), !.roots = Registered(s),
                                 !.via = Registered(s), !.disturbed = d]
  <2>1. d \in BOOLEAN
    OBVIOUS
  <2>2. Asks(s, c)
    BY <1>3 DEF StopAll
  <2> HIDE DEF d
  <2>3. /\ c \in Calls /\ c.reg = Registered(s) /\ c.roots = Registered(s) /\ c.via = Registered(s)
        /\ c.kill = {}
    BY <1>1, <2>1 DEF NoStop, Calls
  <2> HIDE DEF c
  <2> QED
    BY <1>2, <2>2, <2>3
<1>4. CASE StopPort(s)
  <2> DEFINE c == [NoStop EXCEPT !.kind = "port", !.at = "owned", !.reg = Registered(s)]
  <2>1. Asks(s, c)
    BY <1>4 DEF StopPort
  <2>2. c \in Calls /\ c.reg = Registered(s) /\ c.roots = {} /\ c.via = {} /\ c.kill = {}
    BY <1>1 DEF NoStop, Calls
  <2> HIDE DEF c
  <2> QED
    BY <1>2, <2>1, <2>2
<1>5. ASSUME NEW p \in Pids, StopPid(s, p) PROVE ProcInv'
  <2> DEFINE c == [NoStop EXCEPT !.kind = "pid", !.at = "owned", !.pid = p, !.reg = Registered(s)]
  <2>1. Asks(s, c)
    BY <1>5 DEF StopPid
  <2>2. c \in Calls /\ c.reg = Registered(s) /\ c.roots = {} /\ c.via = {} /\ c.kill = {}
    BY <1>1 DEF NoStop, Calls
  <2> HIDE DEF c
  <2> QED
    BY <1>2, <2>1, <2>2
<1> QED
  BY <1>3, <1>4, <1>5

\* What a call has led to is s's own, when what it was led by is.
LEMMA LedOn ==
  ASSUME ProcInv, NEW s \in Agents, NEW by \in SUBSET Led(s), NEW all \in Shown(by),
         \A q \in Led(s) : uses[q] <= 1
  PROVE  all \in SUBSET Pids /\ \A q \in Led(s) \cup all : Mine(q, s)
<1>1. Led(s) \subseteq Pids /\ \A q \in Led(s) : Mine(q, s)
  BY LedPids DEF ProcInv, CallInv, Once
<1>2. by \in SUBSET Pids /\ \A q \in by : uses[q] <= 1 /\ Mine(q, s)
  BY <1>1
<1> QED
  BY <1>1, <1>2, TreeMine DEF ProcInv

LEMMA ShownPids == ASSUME NEW by \in SUBSET Pids, NEW all \in Shown(by) PROVE all \in SUBSET Pids
BY TreeOfPids DEF Shown

\* To(...): the pids that are found lead the call on.
LEMMA ToKeeps ==
  ASSUME ProcInv, NEW s \in Agents, NEW step \in {"listeners", "tree"}, NEW roots \in SUBSET Pids,
         To(s, step, roots), proc' \in {proc, Collected}, UNCHANGED <<fresh, uses, rows>>,
         (\A q \in Led(s) : uses[q] <= 1) => \A q \in roots : Mine(q, s)
  PROVE  ProcInv'
<1> DEFINE c == [stop[s] EXCEPT !.at = step, !.roots = roots, !.via = stop[s].via \cup roots]
<1>1. stop' = [stop EXCEPT ![s] = c]
  BY DEF To
<1>2. stop[s] \in Calls /\ rows' \in [Pids -> Agents \cup {Nobody}]
  BY LedPids DEF ProcInv, ProcTypes
<1>3. /\ c \in Calls /\ c.reg = stop[s].reg /\ c.roots = roots /\ c.via = stop[s].via \cup roots
      /\ c.kill = stop[s].kill
  BY <1>2 DEF Calls
<1> HIDE DEF c
<1>4. ASSUME \A q \in c.reg \cup c.via : uses[q] <= 1
      PROVE  \A q \in c.reg \cup c.via \cup c.kill : Mine(q, s)
  <2>1. \A q \in Led(s) : uses[q] <= 1
    BY <1>3, <1>4 DEF Led
  <2>2. \A q \in Led(s) \cup stop[s].kill : Mine(q, s)
    BY <2>1 DEF ProcInv, CallInv, Once
  <2> QED
    BY <1>3, <2>1, <2>2 DEF Led
<1> QED
  BY <1>1, <1>2, <1>3, <1>4, LeadKeeps

LEMMA RefusedKeeps ==
  ASSUME ProcInv, NEW s \in Agents, Refused(s), proc' \in {proc, Collected}, UNCHANGED <<fresh, uses>>,
         rows' \in [Pids -> Agents \cup {Nobody}], \A q \in Pids : rows'[q] \in {rows[q], Nobody}
  PROVE  ProcInv'
<1>1. /\ NoStop \in Calls /\ NoStop.roots \subseteq NoStop.via
      /\ NoStop.reg \cup NoStop.via \cup NoStop.kill = {}
  BY Nothings DEF NoStop
<1> QED
  BY <1>1, LeadKeeps DEF Refused

LEMMA FindKeeps ==
  ASSUME ProcInv, NEW s \in Agents, FindOwned(s) \/ FindListeners(s) \/ FindTree(s)
  PROVE  ProcInv'
<1>0. proc' \in {proc, Collected} /\ UNCHANGED <<fresh, uses, rows>>
  BY DEF FindOwned, FindListeners, FindTree
<1>1. /\ rows' \in [Pids -> Agents \cup {Nobody}] /\ \A q \in Pids : rows'[q] \in {rows[q], Nobody}
  BY <1>0 DEF ProcInv, ProcTypes
<1>2. /\ stop[s] \in Calls /\ Led(s) \subseteq Pids /\ stop[s].reg \in SUBSET Led(s)
      /\ stop[s].roots \in SUBSET Led(s)
  BY LedPids DEF ProcInv, Led, RootsInv
<1>3. CASE FindOwned(s)
  <2>1. PICK owned \in Shown(stop[s].reg) :
          IF stop[s].kind = "port" THEN To(s, "listeners", owned)
          ELSE IF stop[s].pid \in owned THEN To(s, "tree", {stop[s].pid}) ELSE Refused(s)
    BY <1>3 DEF FindOwned
  <2>2. owned \in SUBSET Pids
    BY <1>2, ShownPids
  <2>3. (\A q \in Led(s) : uses[q] <= 1) => \A q \in owned : Mine(q, s)
    BY <1>2, LedOn
  <2> QED
    BY <1>0, <1>1, <2>1, <2>2, <2>3, ToKeeps, RefusedKeeps
<1>4. CASE FindListeners(s)
  <2>1. /\ Listeners(s) \in SUBSET Pids
        /\ Listeners(s) \subseteq stop[s].roots \cup Tree(stop[s].roots)
    BY <1>2 DEF Listeners
  <2>2. ASSUME \A q \in Led(s) : uses[q] <= 1 PROVE \A q \in Listeners(s) : Mine(q, s)
    <3>1. Tree(stop[s].roots) \in Shown(stop[s].roots)
      BY DEF Shown
    <3> QED
      BY <1>2, <2>1, <2>2, <3>1, LedOn
  <2>3. Refused(s) \/ To(s, "tree", Listeners(s))
    BY <1>4 DEF FindListeners
  <2> QED
    BY <1>0, <1>1, <2>1, <2>2, <2>3, ToKeeps, RefusedKeeps
<1>5. CASE FindTree(s)
  <2>1. PICK all \in Shown(stop[s].roots) :
          stop' = [stop EXCEPT ![s].at = "term", ![s].kill = all \ protected,
                               ![s].disturbed = @ \/ all # Tree(stop[s].roots)]
    BY <1>5 DEF FindTree
  <2> DEFINE d == stop[s].disturbed \/ all # Tree(stop[s].roots)
             c == [stop[s] EXCEPT !.at = "term", !.kill = all \ protected, !.disturbed = d]
  <2>2. stop' = [stop EXCEPT ![s] = c]
    BY <2>1
  <2>3. all \in SUBSET Pids /\ d \in BOOLEAN
    BY <1>2, ShownPids
  <2> HIDE DEF d
  <2>4. /\ c \in Calls /\ c.reg = stop[s].reg /\ c.roots = stop[s].roots /\ c.via = stop[s].via
        /\ c.kill = all \ protected
    BY <1>2, <2>3 DEF Calls
  <2> HIDE DEF c
  <2>5. c.roots \subseteq c.via
    BY <2>4 DEF ProcInv, RootsInv
  <2>6. ASSUME \A q \in c.reg \cup c.via : uses[q] <= 1
        PROVE  \A q \in c.reg \cup c.via \cup c.kill : Mine(q, s)
    <3>1. \A q \in Led(s) : uses[q] <= 1
      BY <2>4, <2>6 DEF Led
    <3>2. \A q \in Led(s) \cup all : Mine(q, s)
      BY <1>2, <3>1, LedOn
    <3> QED
      BY <2>4, <3>2 DEF Led
  <2> QED
    BY <1>0, <1>1, <2>2, <2>4, <2>5, <2>6, LeadKeeps
<1> QED
  BY <1>3, <1>4, <1>5


LEMMA StopKeeps ==
  ASSUME ProcInv, NEW s \in Agents, Terminate(s) \/ Kill(s) \/ Unregister(s)
  PROVE  ProcInv'
<1>1. stop[s] \in Calls /\ stop \in [Agents -> Calls]
  BY DEF ProcInv, CallTypes
<1>2. ASSUME NEW step \in {"kill", "rows"}, NEW dead \in SUBSET {p \in Pids : Runs(p)},
             proc' = Ended(dead), stop' = Hit([stop EXCEPT ![s].at = step], s, dead),
             UNCHANGED <<rows, fresh, uses>>
      PROVE  ProcInv'
  <2> DEFINE c == [stop[s] EXCEPT !.at = step]
             calls == [stop EXCEPT ![s] = c]
  <2>1. /\ c \in Calls /\ c.reg = stop[s].reg /\ c.roots = stop[s].roots /\ c.via = stop[s].via
        /\ c.kill = stop[s].kill
    BY <1>1 DEF Calls
  <2>2. stop' = Hit(calls, s, dead)
    BY <1>2
  <2> HIDE DEF c
  <2>3. /\ calls \in [Agents -> Calls]
        /\ \A a \in Agents : /\ calls[a].reg = stop[a].reg /\ calls[a].roots = stop[a].roots
                             /\ calls[a].via = stop[a].via /\ calls[a].kill = stop[a].kill
    BY <1>1, <2>1
  <2> HIDE DEF calls
  <2> QED
    BY <1>2, <2>2, <2>3, EndKeeps DEF ProcInv, ProcTypes
<1>3. CASE Terminate(s)
  <2>1. \E dead \in SUBSET {p \in Pids : Runs(p)} :
          proc' = Ended(dead) /\ stop' = Hit([stop EXCEPT ![s].at = "kill"], s, dead)
    BY <1>1, <1>3 DEF Terminate, Calls
  <2> QED
    BY <1>2, <1>3, <2>1 DEF Terminate
<1>4. CASE Kill(s)
  <2>1. \E dead \in SUBSET {p \in Pids : Runs(p)} :
          proc' = Ended(dead) /\ stop' = Hit([stop EXCEPT ![s].at = "rows"], s, dead)
    BY <1>1, <1>4 DEF Kill, Calls
  <2> QED
    BY <1>2, <1>4, <2>1 DEF Kill
<1>5. CASE Unregister(s)
  <2>1. /\ rows' \in [Pids -> Agents \cup {Nobody}] /\ \A q \in Pids : rows'[q] \in {rows[q], Nobody}
    BY <1>5 DEF Unregister, ProcInv, ProcTypes
  <2> QED
    BY <1>5, <2>1, RefusedKeeps DEF Unregister
<1> QED
  BY <1>3, <1>4, <1>5

LEMMA ExitKeeps ==
  ASSUME ProcInv, NEW p \in Pids, Exit(p) \/ AdminKill(p)
  PROVE  ProcInv'
<1>1. PICK dead \in SUBSET {q \in Pids : Runs(q)} : proc' = Ended(dead) /\ stop' = Hit(stop, Nobody, dead)
  BY DEF Exit, AdminKill
<1>2. /\ stop \in [Agents -> Calls] /\ UNCHANGED <<fresh, uses>>
      /\ rows' \in [Pids -> Agents \cup {Nobody}] /\ \A q \in Pids : rows'[q] \in {rows[q], Nobody}
  BY DEF Exit, AdminKill, ProcInv, ProcTypes, CallTypes
<1> QED
  BY <1>1, <1>2, EndKeeps

LEMMA ProcInitially == ProcessInit => ProcInv
<1> SUFFICES ASSUME ProcessInit PROVE ProcInv
  OBVIOUS
<1>1. PICK p \in Pids : proc = [q \in Pids |-> IF q = p THEN [NoProcess EXCEPT !.of = Proxy] ELSE NoProcess]
  BY DEF ProcessInit
<1>2. [NoProcess EXCEPT !.of = Proxy] \in Proc /\ [NoProcess EXCEPT !.of = Proxy].parent = Init1
      /\ ~[NoProcess EXCEPT !.of = Proxy].zombie
  BY Nothings DEF Proc
<1>3. ProcTypes
  BY <1>1, <1>2, Nothings DEF ProcessInit, ProcTypes, Proc
<1>4. Parents
  BY <1>1, <1>2, Nothings DEF Parents
<1>5. CallTypes /\ CallInv /\ RootsInv
  BY Nothings DEF ProcessInit, CallTypes, CallInv, RootsInv, Led, NoStop
<1> QED
  BY <1>3, <1>4, <1>5 DEF ProcInv, ProcessInit, FreshInv, RowsInv

LEMMA ProcStep == ASSUME ProcInv, ProcessNext PROVE ProcInv'
BY SpawnKeeps, ForkKeeps, ServiceKeeps, RegisterKeeps, ExitKeeps, AskKeeps, FindKeeps, StopKeeps
   DEF ProcessNext, StopStep

\* Whose processes the rows, the calls and the pids below them name, for any interleaving
\* of starts, ends and stops.
THEOREM ProcInvariant == ProcessSpec => []ProcInv
<1>1. ASSUME ProcInv, [ProcessNext]_processVars PROVE ProcInv'
  <2>1. CASE UNCHANGED processVars
    BY <1>1, <2>1 DEF processVars, ProcInv, ProcTypes, CallTypes, Parents, FreshInv, RowsInv, CallInv,
       RootsInv, Mine, Runs, Led, Once
  <2> QED
    BY <1>1, <2>1, ProcStep
<1> QED
  BY <1>1, ProcInitially, PTL DEF ProcessSpec

\* A stop call of a session signals its own processes only, unless a pid in the chain that
\* led to them was given out twice (stop_process, stop_all_session_processes).
THEOREM OnlyOwnStoppedHolds == ProcessSpec => OnlyOwnStopped
<1>1. ASSUME ProcInv, NEW s \in Agents, NEW p \in stop[s].kill, Runs(p),
             \A q \in stop[s].reg \cup stop[s].via \cup stop[s].kill : ~(uses[q] > 1)
      PROVE  proc[p].of = s
  <2>1. stop[s].kill \subseteq Pids /\ Led(s) \subseteq Pids
    BY <1>1, LedPids DEF ProcInv
  <2>2. \A q \in Led(s) \cup stop[s].kill : uses[q] <= 1
    BY <1>1, <2>1 DEF Led, ProcInv, ProcTypes
  <2>3. Mine(p, s)
    BY <1>1, <2>2 DEF ProcInv, CallInv, Once
  <2> QED
    BY <1>1, <2>2, <2>3 DEF Mine, Runs
<1>2. ProcInv => \A s \in Agents :
        \/ \A p \in stop[s].kill : Runs(p) => proc[p].of = s
        \/ \E p \in stop[s].reg \cup stop[s].via \cup stop[s].kill : uses[p] > 1
  BY <1>1
<1>3. ProcInv => [\A s \in Agents :
        stop[s].at \in {"term", "kill"} /\ stop'[s].at # stop[s].at
        => \/ \A p \in stop[s].kill : Runs(p) => proc[p].of = s
           \/ \E p \in stop[s].reg \cup stop[s].via \cup stop[s].kill : uses[p] > 1]_processVars
  BY <1>2
<1> QED
  BY <1>3, ProcInvariant, PTL DEF OnlyOwnStopped


-----------------------------------------------------------------------------
(* Processes: the clean-up at the end of a turn.                           *)

\* Where the running processes of s are, for a clean-up that nothing has disturbed.
CleanOf(s) ==
  stop[s].kind = "all" =>
    /\ stop[s].at \in {"tree", "term", "kill", "rows"} /\ protected # Unknown
    /\ ~stop[s].disturbed => \A p \in Pids : Runs(p) /\ proc[p].of = s =>
         /\ stop[s].at = "tree" => p \in Tree(stop[s].roots)
         /\ stop[s].at \in {"term", "kill"} => p \in stop[s].kill \cup protected
         /\ stop[s].at = "rows" => p \in protected
CleanInv == \A s \in Agents : CleanOf(s)

\* The processes of s that run are those that ran, with their parents.
Untouched(s) ==
  \A p \in Pids : (Runs(p) /\ proc[p].of = s) \/ (RunsThen(p) /\ proc'[p].of = s) => proc'[p] = proc[p]

\* What is below some pids stays below them.
LEMMA TreeStays ==
  ASSUME ProcTypes, Parents, NEW s \in Agents, Untouched(s), NEW roots \in SUBSET Pids,
         NEW p \in Pids, Runs(p), proc[p].of = s, p \in Tree(roots)
  PROVE  p \in Tree(roots)'
<1>1. ASSUME NEW tree \in SUBSET Pids, roots \subseteq tree,
             \A q \in Pids : proc'[q].parent \in tree => q \in tree
      PROVE  p \in tree
  <2> DEFINE wide == tree \cup {q \in Pids : ~(Runs(q) /\ proc[q].of = s)}
  <2>1. ASSUME NEW q \in Pids, proc[q].parent \in wide, Runs(q), proc[q].of = s PROVE q \in tree
    <3>1. proc[q].parent \in Pids /\ Runs(proc[q].parent) /\ proc[proc[q].parent].of = s
      BY <2>1 DEF Parents
    <3>2. proc'[q] = proc[q]
      BY <2>1 DEF Untouched
    <3> QED
      BY <1>1, <2>1, <3>1, <3>2
  <2>2. Whole(wide)
    BY <2>1 DEF Whole
  <2>3. Tree(roots) \subseteq wide
    BY <1>1, <2>2, TreeIn
  <2> QED
    BY <2>3
<1> QED
  BY <1>1 DEF Tree, Whole

LEMMA OthersClean ==
  ASSUME ProcTypes, CallTypes, Parents, NEW s \in Agents, CleanOf(s),
         protected # Unknown => protected' = protected,
         stop'[s].kind = stop[s].kind, stop'[s].at = stop[s].at,
         ~stop'[s].disturbed => stop'[s] = stop[s] /\ (stop[s].kind = "all" => Untouched(s))
  PROVE  CleanOf(s)'
<1>1. CASE stop[s].kind # "all"
  BY <1>1 DEF CleanOf
<1>2. CASE stop[s].kind = "all" /\ stop'[s].disturbed
  BY <1>2 DEF CleanOf
<1>3. CASE stop[s].kind = "all" /\ ~stop'[s].disturbed
  <2>1. /\ stop'[s] = stop[s] /\ Untouched(s) /\ protected' = protected /\ protected # Unknown
        /\ stop[s].roots \in SUBSET Pids
    BY <1>3, LedPids DEF CleanOf, Calls
  <2>2. ASSUME NEW p \in Pids, RunsThen(p), proc'[p].of = s
        PROVE  /\ Runs(p) /\ proc[p].of = s
               /\ p \in Tree(stop[s].roots) => p \in Tree(stop[s].roots)'
    <3>1. proc'[p] = proc[p]
      BY <2>1, <2>2 DEF Untouched
    <3>2. Runs(p) /\ proc[p].of = s
      BY <2>2, <3>1 DEF Runs, RunsThen
    <3>3. PICK roots \in SUBSET Pids : roots = stop[s].roots
      BY <2>1
    <3>4. p \in Tree(roots) => p \in Tree(roots)'
      BY <2>1, <3>2, TreeStays
    <3>5. roots = stop'[s].roots
      BY <2>1, <3>3
    <3> QED
      BY <3>2, <3>3, <3>4, <3>5 DEF Tree, Whole
  <2> QED
    BY <1>3, <2>1, <2>2 DEF CleanOf, RunsThen, Runs
<1> QED
  BY <1>1, <1>2, <1>3

LEMMA CollectedUntouched ==
  ASSUME ProcTypes, Parents, FreshInv, proc' \in {proc, Collected}, NEW s \in Agents
  PROVE  Untouched(s)
BY CollectedIs, Nothings DEF Untouched, RunsThen

LEMMA EndedIs ==
  ASSUME ProcTypes, Parents, FreshInv, NEW dead \in SUBSET {p \in Pids : Runs(p)}, proc' = Ended(dead)
  PROVE  /\ \A p \in dead : ~RunsThen(p)
         /\ \A p \in Pids : RunsThen(p) => Runs(p) /\ proc'[p].of = proc[p].of
         /\ \A s \in Agents : (\A p \in dead : proc[p].of # s) => Untouched(s)
<1>1. ASSUME NEW p \in dead PROVE ~RunsThen(p)
  <2>1. proc'[p] = [proc[p] EXCEPT !.zombie = TRUE, !.listens = FALSE] \/ proc'[p] = NoProcess
    BY DEF Ended
  <2>2. proc[p] \in Proc
    BY DEF ProcTypes, Proc
  <2> QED
    BY <2>1, <2>2, Nothings DEF RunsThen, Proc
<1>2. ASSUME NEW p \in Pids, RunsThen(p) PROVE Runs(p) /\ proc'[p].of = proc[p].of
  <2>1. p \notin dead
    BY <1>1, <1>2
  <2>2. proc'[p] = [proc[p] EXCEPT !.parent = Init1] \/ proc'[p] = proc[p]
    BY <2>1 DEF Ended
  <2>3. proc[p] \in Proc
    BY DEF ProcTypes, Proc
  <2> QED
    BY <1>2, <2>2, <2>3 DEF RunsThen, Runs, Proc
<1>3. ASSUME NEW s \in Agents, \A p \in dead : proc[p].of # s,
             NEW p \in Pids, (Runs(p) /\ proc[p].of = s) \/ (RunsThen(p) /\ proc'[p].of = s)
      PROVE  proc'[p] = proc[p]
  <2>1. Runs(p) /\ proc[p].of = s
    BY <1>2, <1>3
  <2>2. p \notin dead /\ proc[p].parent \notin dead
    BY <1>3, <2>1 DEF Parents
  <2> QED
    BY <2>2 DEF Ended
<1> QED
  BY <1>1, <1>2, <1>3 DEF Untouched


\* Starts, ends and registrations, and what they leave of the clean-ups under way.
LEMMA StartsClean ==
  ASSUME ProcInv, CleanInv, NEW s \in Agents, NEW p \in Pids, Spawn(s, p)
  PROVE  CleanInv'
<1>0. ProcTypes /\ Parents /\ FreshInv /\ CallTypes
  BY DEF ProcInv
<1>1. /\ Collected[p] = NoProcess
      /\ proc' = [Collected EXCEPT ![p] = [NoProcess EXCEPT !.of = s, !.parent = Server]]
      /\ protected' = protected /\ Disturb(s)
  BY DEF Spawn
<1>2. ASSUME NEW a \in Agents, a # s PROVE Untouched(a)
  <2>1. proc'[p].of = s /\ \A q \in Pids \ {p} : proc'[q] = Collected[q]
    BY <1>0, <1>1, CollectedIs DEF NoProcess
  <2>2. \A q \in Pids : Runs(q) => Collected[q] = proc[q]
    BY DEF Collected, Runs
  <2>3. \A q \in Pids \ {p} : RunsThen(q) => proc'[q] = proc[q]
    BY <2>1, Nothings DEF Collected, RunsThen
  <2>4. ~Runs(p)
    BY <1>1, <2>2, Nothings DEF Runs
  <2> QED
    BY <1>2, <2>1, <2>2, <2>3, <2>4 DEF Untouched
<1>3. ASSUME NEW a \in Agents PROVE CleanOf(a)'
  <2>1. /\ stop'[a].kind = stop[a].kind /\ stop'[a].at = stop[a].at
        /\ ~stop'[a].disturbed => stop'[a] = stop[a] /\ (a = s => stop[a] = NoStop)
    BY <1>0, <1>1, DisturbIs
  <2>2. NoStop.kind # "all"
    BY DEF NoStop
  <2> QED
    BY <1>0, <1>1, <1>2, <2>1, <2>2, OthersClean DEF CleanInv
<1> QED
  BY <1>3 DEF CleanInv

LEMMA ForksClean ==
  ASSUME ProcInv, CleanInv, NEW p \in Pids, NEW q \in Pids, Fork(p, q)
  PROVE  CleanInv'
<1>0. ProcTypes /\ Parents /\ FreshInv /\ CallTypes
  BY DEF ProcInv
<1>1. PICK listens \in BOOLEAN :
        proc' = [proc EXCEPT ![q] = [of |-> proc[p].of, parent |-> p, zombie |-> FALSE, listens |-> listens]]
  BY DEF Fork
<1>2. proc[q] = NoProcess /\ proc[p].of \in Agents /\ protected' = protected /\ Disturb(proc[p].of)
  BY DEF Fork
<1>3. ASSUME NEW a \in Agents, a # proc[p].of PROVE Untouched(a)
  <2>1. proc'[q].of = proc[p].of /\ \A r \in Pids \ {q} : proc'[r] = proc[r]
    BY <1>0, <1>1 DEF ProcTypes
  <2>2. ~Runs(q)
    BY <1>2, Nothings DEF Runs
  <2> QED
    BY <1>3, <2>1, <2>2 DEF Untouched
<1>4. ASSUME NEW a \in Agents PROVE CleanOf(a)'
  <2>1. /\ stop'[a].kind = stop[a].kind /\ stop'[a].at = stop[a].at
        /\ ~stop'[a].disturbed => stop'[a] = stop[a] /\ (a = proc[p].of => stop[a] = NoStop)
    BY <1>0, <1>2, DisturbIs
  <2>2. NoStop.kind # "all"
    BY DEF NoStop
  <2> QED
    BY <1>0, <1>2, <1>3, <2>1, <2>2, OthersClean DEF CleanInv
<1> QED
  BY <1>4 DEF CleanInv

LEMMA ServicesClean ==
  ASSUME ProcInv, CleanInv, NEW q \in Pids, ServiceUp(q)
  PROVE  CleanInv'
<1>0. ProcTypes /\ Parents /\ FreshInv /\ CallTypes
  BY DEF ProcInv
<1>1. /\ proc[q] = NoProcess /\ proc' = [proc EXCEPT ![q] = [NoProcess EXCEPT !.of = Proxy]]
      /\ protected' = protected /\ stop' = stop
  BY DEF ServiceUp
<1>2. ASSUME NEW a \in Agents PROVE Untouched(a)
  <2>1. proc'[q].of = Proxy /\ \A r \in Pids \ {q} : proc'[r] = proc[r]
    BY <1>0, <1>1 DEF ProcTypes, NoProcess
  <2>2. ~Runs(q)
    BY <1>1, Nothings DEF Runs
  <2> QED
    BY <2>1, <2>2, ProcessAssumption DEF Untouched
<1> QED
  BY <1>0, <1>1, <1>2, OthersClean DEF CleanInv

LEMMA RegistersClean ==
  ASSUME ProcInv, CleanInv, NEW p \in Pids, Register(p)
  PROVE  CleanInv'
<1>0. ProcTypes /\ Parents /\ FreshInv /\ CallTypes
  BY DEF ProcInv
<1>1. proc' = proc /\ protected' = protected /\ proc[p].of \in Agents /\ Disturb(proc[p].of)
  BY <1>0 DEF Register, FreshInv
<1>2. ASSUME NEW a \in Agents PROVE Untouched(a)
  BY <1>0, <1>1, CollectedUntouched
<1> QED
  BY <1>0, <1>1, <1>2, DisturbIs, OthersClean DEF CleanInv

LEMMA ExitsClean ==
  ASSUME ProcInv, CleanInv, NEW dead \in SUBSET {p \in Pids : Runs(p)}, Nobody \notin Agents,
         proc' = Ended(dead), stop' = Hit(stop, Nobody, dead), protected' = protected
  PROVE  CleanInv'
<1>0. ProcTypes /\ Parents /\ FreshInv /\ CallTypes /\ stop \in [Agents -> Calls]
  BY DEF ProcInv, CallTypes
<1>1. ASSUME NEW a \in Agents
      PROVE  /\ stop'[a].kind = stop[a].kind /\ stop'[a].at = stop[a].at
             /\ ~stop'[a].disturbed => /\ stop'[a] = stop[a]
                                       /\ stop[a] # NoStop => \A p \in dead : proc[p].of # a
  BY <1>0, HitIs
<1>2. ASSUME NEW a \in Agents, ~stop'[a].disturbed, stop[a].kind = "all" PROVE Untouched(a)
  <2>1. stop[a] # NoStop
    BY <1>2 DEF NoStop
  <2> QED
    BY <1>0, <1>1, <1>2, <2>1, EndedIs
<1> QED
  BY <1>0, <1>1, <1>2, OthersClean DEF CleanInv

\* The calls themselves.
LEMMA ProtectIs ==
  ASSUME ProcTypes, Protect
  PROVE  protected' # Unknown /\ (protected # Unknown => protected' = protected)
BY ProcessAssumption DEF Protect, Unknown

LEMMA AsksClean ==
  ASSUME ProcInv, CleanInv, NEW s \in Agents,
         StopAll(s) \/ StopPort(s) \/ \E p \in Pids : StopPid(s, p)
  PROVE  CleanInv'
<1>0. ProcTypes /\ Parents /\ FreshInv /\ CallTypes /\ stop \in [Agents -> Calls]
  BY DEF ProcInv, CallTypes
<1>1. PICK c : Asks(s, c) /\ (c.kind = "all" => StopAll(s))
  <2>1. CASE StopAll(s)
    BY <2>1 DEF StopAll
  <2>2. CASE StopPort(s)
    <3> DEFINE c == [NoStop EXCEPT !.kind = "port", !.at = "owned", !.reg = Registered(s)]
    <3>1. Asks(s, c) /\ c.kind = "port"
      BY <2>2 DEF StopPort, NoStop
    <3> QED
      BY <3>1
  <2>3. ASSUME NEW p \in Pids, StopPid(s, p) PROVE \E c : Asks(s, c) /\ c.kind = "pid"
    <3> DEFINE c == [NoStop EXCEPT !.kind = "pid", !.at = "owned", !.pid = p, !.reg = Registered(s)]
    <3>1. Asks(s, c) /\ c.kind = "pid"
      BY <2>3 DEF StopPid, NoStop
    <3> QED
      BY <3>1
  <2> QED
    BY <2>1, <2>2, <2>3
<1>2. proc' = proc /\ stop' = [stop EXCEPT ![s] = c] /\ Protect
  BY <1>1 DEF Asks, StopAll, StopPort, StopPid
<1>3. protected' # Unknown /\ (protected # Unknown => protected' = protected)
  BY <1>0, <1>2, ProtectIs
<1>4. ASSUME NEW a \in Agents PROVE Untouched(a)
  BY <1>0, <1>2, CollectedUntouched
<1>5. ASSUME NEW a \in Agents, a # s PROVE CleanOf(a)'
  <2>1. stop'[a] = stop[a]
    BY <1>0, <1>2, <1>5
  <2> QED
    BY <1>0, <1>3, <1>4, <2>1, OthersClean DEF CleanInv
<1>6. CASE c.kind # "all"
  <2>1. stop'[s] = c
    BY <1>0, <1>2
  <2>2. CleanOf(s)'
    BY <1>6, <2>1 DEF CleanOf
  <2> QED
    BY <1>5, <2>2 DEF CleanInv
<1>7. CASE StopAll(s)
  <2>1. PICK roots \in SUBSET Pids : roots = Registered(s)
    BY DEF Registered
  <2>2. /\ stop'[s].kind = "all" /\ stop'[s].at = "tree" /\ stop'[s].roots = roots
        /\ stop'[s].disturbed <=> \E p \in Pids : Runs(p) /\ proc[p].of = s /\ p \notin Tree(roots)
    BY <1>0, <1>7, <2>1 DEF StopAll, Asks, NoStop
  <2>3. \A p \in Pids : p \in Tree(roots) => p \in Tree(roots)'
    BY <1>2 DEF Tree, Whole
  <2>4. CleanOf(s)'
    BY <1>2, <1>3, <2>2, <2>3 DEF CleanOf, Runs, Tree, Whole
  <2> QED
    BY <1>5, <2>4 DEF CleanInv
<1> QED
  BY <1>1, <1>6, <1>7


LEMMA FindsClean ==
  ASSUME ProcInv, CleanInv, NEW s \in Agents, FindOwned(s) \/ FindListeners(s)
  PROVE  CleanInv'
<1>0. ProcTypes /\ Parents /\ FreshInv /\ CallTypes /\ stop \in [Agents -> Calls]
  BY DEF ProcInv, CallTypes
<1>1. /\ stop[s].at \in {"owned", "listeners"} /\ proc' = Collected /\ protected' = protected
      /\ Refused(s) \/ \E step, roots : To(s, step, roots)
  BY DEF FindOwned, FindListeners
<1>2. stop[s].kind # "all"
  BY <1>1 DEF CleanInv, CleanOf
<1>3. stop'[s].kind # "all" /\ \A a \in Agents \ {s} : stop'[a] = stop[a]
  <2>1. CASE Refused(s)
    BY <1>0, <2>1 DEF Refused, NoStop
  <2>2. ASSUME NEW step, NEW roots, To(s, step, roots)
        PROVE  stop'[s].kind # "all" /\ \A a \in Agents \ {s} : stop'[a] = stop[a]
    BY <1>0, <1>2, <2>2 DEF To, Calls
  <2> QED
    BY <1>1, <2>1, <2>2
<1>4. ASSUME NEW a \in Agents \ {s} PROVE CleanOf(a)'
  <2>1. Untouched(a) /\ CleanOf(a)
    BY <1>0, <1>1, CollectedUntouched DEF CleanInv
  <2> QED
    BY <1>0, <1>1, <1>3, <2>1, OthersClean
<1>5. CleanOf(s)'
  BY <1>3 DEF CleanOf
<1> QED
  BY <1>4, <1>5 DEF CleanInv

\* The tree a clean-up finds holds the running processes of its session.
LEMMA TreesClean ==
  ASSUME ProcInv, CleanInv, NEW s \in Agents, FindTree(s)
  PROVE  CleanInv'
<1>0. ProcTypes /\ Parents /\ FreshInv /\ CallTypes /\ stop \in [Agents -> Calls]
  BY DEF ProcInv, CallTypes
<1>1. PICK all \in Shown(stop[s].roots) :
        stop' = [stop EXCEPT ![s].at = "term", ![s].kill = all \ protected,
                             ![s].disturbed = stop[s].disturbed \/ all # Tree(stop[s].roots)]
  BY DEF FindTree
<1>2. proc' = Collected /\ protected' = protected /\ stop[s].at = "tree"
  BY DEF FindTree
<1>3. /\ stop'[s].kind = stop[s].kind /\ stop'[s].at = "term" /\ stop'[s].kill = all \ protected
      /\ ~stop'[s].disturbed => ~stop[s].disturbed /\ all = Tree(stop[s].roots)
      /\ \A a \in Agents \ {s} : stop'[a] = stop[a]
  BY <1>0, <1>1 DEF Calls
<1>4. ASSUME NEW a \in Agents PROVE Untouched(a) /\ CleanOf(a)
  BY <1>0, <1>2, CollectedUntouched DEF CleanInv
<1>5. ASSUME NEW a \in Agents \ {s} PROVE CleanOf(a)'
  BY <1>0, <1>2, <1>3, <1>4, OthersClean
<1>6. ASSUME NEW p \in Pids, RunsThen(p), proc'[p].of = s, stop[s].kind = "all", ~stop'[s].disturbed
      PROVE  p \in stop'[s].kill \cup protected
  <2>1. Runs(p) /\ proc[p].of = s
    BY <1>4, <1>6 DEF Untouched, Runs, RunsThen
  <2>2. p \in Tree(stop[s].roots)
    BY <1>2, <1>3, <1>4, <1>6, <2>1 DEF CleanOf
  <2> QED
    BY <1>3, <1>6, <2>2
<1>7. CleanOf(s)'
  BY <1>2, <1>3, <1>4, <1>6 DEF CleanOf, RunsThen, Runs
<1> QED
  BY <1>5, <1>7 DEF CleanInv

\* Signals: those to the pids of one session, seen from the others, ...
LEMMA SignalsClean ==
  ASSUME ProcInv, CleanInv, NEW s \in Agents, NEW next, next \in {"kill", "rows"},
         NEW dead \in SUBSET {p \in Pids : Runs(p)},
         proc' = Ended(dead), stop' = Hit([stop EXCEPT ![s].at = next], s, dead), protected' = protected
  PROVE  /\ \A a \in Agents \ {s} : CleanOf(a)'
         /\ stop'[s].kind = stop[s].kind /\ stop'[s].at = next /\ stop'[s].kill = stop[s].kill
         /\ ~stop'[s].disturbed => ~stop[s].disturbed
<1>0. ProcTypes /\ Parents /\ FreshInv /\ CallTypes /\ stop \in [Agents -> Calls]
  BY DEF ProcInv, CallTypes
<1>7. \A a \in Agents : (\A p \in dead : proc[p].of # a) => Untouched(a)
  BY <1>0, EndedIs
<1>8. ASSUME NEW a \in Agents, stop'[a].kind = stop[a].kind, stop'[a].at = stop[a].at,
             ~stop'[a].disturbed => stop'[a] = stop[a] /\ (stop[a].kind = "all" => Untouched(a))
      PROVE  CleanOf(a)'
  <2>1. CleanOf(a)
    BY <1>8 DEF CleanInv
  <2> QED
    BY <1>0, <1>8, <2>1, OthersClean
<1> DEFINE call == [stop[s] EXCEPT !.at = next]
           calls == [stop EXCEPT ![s] = call]
<1>1. stop[s] \in Calls
  BY <1>0
<1>2. /\ call \in Calls /\ call.kind = stop[s].kind /\ call.at = next /\ call.kill = stop[s].kill
      /\ call.disturbed = stop[s].disturbed
  BY <1>1 DEF Calls
<1>3. stop' = Hit(calls, s, dead)
  OBVIOUS
<1> HIDE DEF call
<1>4. calls \in [Agents -> Calls] /\ calls[s] = call /\ \A a \in Agents \ {s} : calls[a] = stop[a]
  BY <1>0, <1>2
<1> HIDE DEF calls
<1>5. ASSUME NEW a \in Agents
      PROVE  /\ stop'[a].kind = calls[a].kind /\ stop'[a].at = calls[a].at /\ stop'[a].kill = calls[a].kill
             /\ ~stop'[a].disturbed =>
                  stop'[a] = calls[a] /\ (a # s /\ stop[a] # NoStop => \A p \in dead : proc[p].of # a)
  BY <1>0, <1>3, <1>4, HitIs
<1>6. ASSUME NEW a \in Agents \ {s} PROVE CleanOf(a)'
  <2>1. stop[a].kind = "all" => stop[a] # NoStop
    BY DEF NoStop
  <2>2. ~stop'[a].disturbed =>
          stop'[a] = stop[a] /\ (stop[a].kind = "all" => \A p \in dead : proc[p].of # a)
    BY <1>4, <1>5, <2>1
  <2>3. (\A p \in dead : proc[p].of # a) => Untouched(a)
    BY <1>7
  <2>4. stop'[a].kind = stop[a].kind /\ stop'[a].at = stop[a].at
    BY <1>4, <1>5
  <2> QED
    BY <1>8, <2>2, <2>3, <2>4
<1> QED
  BY <1>2, <1>4, <1>5, <1>6

\* ... and from that session.
LEMMA TerminatesClean ==
  ASSUME ProcInv, CleanInv, NEW s \in Agents, Terminate(s)
  PROVE  CleanInv'
<1>0. ProcTypes /\ Parents /\ FreshInv
  BY DEF ProcInv
<1>1. PICK dead \in SUBSET {p \in stop[s].kill : Runs(p)} :
        proc' = Ended(dead) /\ stop' = Hit([stop EXCEPT ![s].at = "kill"], s, dead)
  BY DEF Terminate
<1>2. /\ stop[s].at = "term" /\ protected' = protected /\ stop[s].kill \subseteq Pids
      /\ dead \in SUBSET {p \in Pids : Runs(p)}
  BY <1>1, LedPids DEF Terminate, ProcInv
<1>3. /\ \A a \in Agents \ {s} : CleanOf(a)'
      /\ stop'[s].kind = stop[s].kind /\ stop'[s].at = "kill" /\ stop'[s].kill = stop[s].kill
      /\ ~stop'[s].disturbed => ~stop[s].disturbed
  BY <1>1, <1>2, SignalsClean
<1>4. \A p \in Pids : RunsThen(p) => Runs(p) /\ proc'[p].of = proc[p].of
  BY <1>0, <1>1, <1>2, EndedIs
<1>5. CleanOf(s)'
  BY <1>2, <1>3, <1>4 DEF CleanInv, CleanOf, RunsThen, Runs
<1> QED
  BY <1>3, <1>5 DEF CleanInv

LEMMA KillsClean ==
  ASSUME ProcInv, CleanInv, NEW s \in Agents, Kill(s)
  PROVE  CleanInv'
<1>0. ProcTypes /\ Parents /\ FreshInv
  BY DEF ProcInv
<1> DEFINE dead == {p \in stop[s].kill : Runs(p)}
<1>1. proc' = Ended(dead) /\ stop' = Hit([stop EXCEPT ![s].at = "rows"], s, dead)
  BY DEF Kill
<1>2. /\ stop[s].at = "kill" /\ protected' = protected /\ stop[s].kill \subseteq Pids
      /\ dead \in SUBSET {p \in Pids : Runs(p)}
  BY LedPids DEF Kill, ProcInv
<1>3. /\ \A a \in Agents \ {s} : CleanOf(a)'
      /\ stop'[s].kind = stop[s].kind /\ stop'[s].at = "rows"
      /\ ~stop'[s].disturbed => ~stop[s].disturbed
  BY <1>1, <1>2, SignalsClean
<1>4. /\ \A p \in Pids : RunsThen(p) => Runs(p) /\ proc'[p].of = proc[p].of
      /\ \A p \in stop[s].kill : Runs(p) => ~RunsThen(p)
  BY <1>0, <1>1, <1>2, EndedIs
<1>5. CleanOf(s)'
  BY <1>2, <1>3, <1>4 DEF CleanInv, CleanOf, RunsThen, Runs
<1> QED
  BY <1>3, <1>5 DEF CleanInv

LEMMA UnregistersClean ==
  ASSUME ProcInv, CleanInv, NEW s \in Agents, Unregister(s)
  PROVE  CleanInv'
<1>0. ProcTypes /\ Parents /\ FreshInv /\ CallTypes /\ stop \in [Agents -> Calls]
  BY DEF ProcInv, CallTypes
<1>1. proc' = proc /\ protected' = protected /\ stop' = [stop EXCEPT ![s] = NoStop]
  BY DEF Unregister, Refused
<1>2. ASSUME NEW a \in Agents \ {s} PROVE CleanOf(a)'
  <2>1. Untouched(a) /\ CleanOf(a) /\ stop'[a] = stop[a]
    BY <1>0, <1>1, CollectedUntouched DEF CleanInv
  <2> QED
    BY <1>0, <1>1, <2>1, OthersClean
<1>3. CleanOf(s)'
  BY <1>0, <1>1 DEF CleanOf, NoStop
<1> QED
  BY <1>2, <1>3 DEF CleanInv

LEMMA CleanStep == ASSUME ProcInv, CleanInv, ProcessNext PROVE CleanInv'
<1>1. ASSUME NEW p \in Pids, Exit(p) PROVE CleanInv'
  BY <1>1, ExitsClean, Nothings DEF Exit
<1>2. ASSUME NEW p \in Pids, AdminKill(p) PROVE CleanInv'
  <2>1. PICK dead \in SUBSET ({p} \cap {q \in Pids : Runs(q)}) :
          proc' = Ended(dead) /\ stop' = Hit(stop, Nobody, dead)
    BY <1>2 DEF AdminKill
  <2>2. dead \in SUBSET {q \in Pids : Runs(q)} /\ protected' = protected
    BY <1>2, <2>1 DEF AdminKill
  <2> QED
    BY <2>1, <2>2, ExitsClean, Nothings
<1> QED
  BY <1>1, <1>2, StartsClean, ForksClean, ServicesClean, RegistersClean, AsksClean, FindsClean,
     TreesClean, TerminatesClean, KillsClean, UnregistersClean DEF ProcessNext, StopStep

\* Where the clean-up of a turn has got to, and what it has still to stop.
THEOREM CleanInvariant == ProcessSpec => []CleanInv
<1>1. ProcessInit => CleanInv
  BY Nothings DEF ProcessInit, CleanInv, CleanOf, NoStop
<1>2. ASSUME ProcInv, CleanInv, [ProcessNext]_processVars PROVE CleanInv'
  <2>1. CASE UNCHANGED processVars
    BY <1>2, <2>1 DEF processVars, CleanInv, CleanOf, Runs, Tree, Whole
  <2> QED
    BY <1>2, <2>1, CleanStep
<1> QED
  BY <1>1, <1>2, ProcInvariant, PTL DEF ProcessSpec

\* When the clean-up at the end of a turn returns, nothing of its session runs, unless it
\* was disturbed (stop_all_session_processes).
THEOREM TurnEndCleanHolds == ProcessSpec => TurnEndClean
<1>1. CleanInv => [\A s \in Agents :
        stop[s].kind = "all" /\ stop[s].at = "rows" /\ stop'[s] = NoStop /\ ~stop[s].disturbed
        => \A p \in Pids : Runs(p) /\ proc[p].of = s => p \in protected]_processVars
  BY DEF CleanInv, CleanOf
<1> QED
  BY <1>1, CleanInvariant, PTL DEF TurnEndClean


-----------------------------------------------------------------------------
(* Commits: the repository and the jobs.                                   *)
Places == Branches \cup {Detached}
Jobs   == [at : {"none", "inspect", "branch", "clean", "switch", "add", "status", "commit", "push"},
           strategy : {"none", "session", "current"}, branch : Places \cup {NoOne},
           on : Places \cup {NoOne}, moved : BOOLEAN, cut : BOOLEAN, done : SUBSET Edits]
RepoTypes ==
  /\ head \in Places /\ born \in SUBSET Branches /\ merging \in BOOLEAN
  /\ holds \in [Places -> SUBSET Edits]
  /\ author \in [Edits -> Sessions \cup {NoOne}]
  /\ dirty \cup staged \subseteq {e \in Edits : author[e] # NoOne} /\ dirty \cap staged = {}
  /\ origin \in [Branches -> SUBSET Edits]
  /\ \A b \in Branches \ born : holds[b] = {} /\ origin[b] = {}
  /\ pushing \in [Sessions -> Places \cup {NoOne}]
JobTypes == job \in [Sessions -> Jobs] /\ \A s \in Sessions : job[s].done # {} => job[s].at = "push"

\* A job under which HEAD has not moved works on the branch HEAD is on, which is one it
\* may commit to, if it could read it; a checkout it took for failed has put HEAD on the
\* session's own branch.
Told(s) ==
  job[s].at # "none" /\ ~job[s].moved =>
    /\ job[s].at \in {"inspect", "branch", "clean", "switch"} => ~job[s].cut
    /\ job[s].at \in {"clean", "switch"} => job[s].on = head
    /\ job[s].at \in {"add", "status", "commit"} /\ job[s].branch # NoOne =>
         /\ job[s].cut => head = BranchOf[s]
         /\ ~job[s].cut => job[s].branch = head
         /\ job[s].strategy = "session" => head # Main
OnHead == \A s \in Sessions : Told(s)

CommitInv == RepoTypes /\ JobTypes /\ OnHead

\* git commands keep the types of the repository.
LEMMA PlacesAre ==
  /\ Main \in Branches /\ Branches \subseteq Places /\ Detached \in Places /\ Detached \notin Branches
  /\ \A s \in Sessions : BranchOf[s] \in Branches /\ BranchOf[s] # Main /\ s # NoOne
  /\ NoJob \in Jobs /\ NoJob.done = {} /\ NoJob.at = "none"
BY CommitAssumption DEF Branches, Places, NoJob, Jobs

LEMMA CheckoutIs ==
  ASSUME RepoTypes, NEW b \in Places, Checkout(b)
  PROVE  /\ head' = b /\ born' \in SUBSET Branches /\ born \subseteq born' /\ (b # Detached => b \in born')
         /\ holds' \in [Places -> SUBSET Edits] /\ \A c \in Branches \ born' : holds'[c] = {}
         /\ merging' = merging /\ dirty' = dirty /\ staged' = staged
<1>1. /\ head' = b /\ born' = IF b = Detached THEN born ELSE born \cup {b}
      /\ holds' = IF b \in born THEN holds ELSE [holds EXCEPT ![b] = holds[head]]
      /\ merging' = merging /\ dirty' = dirty /\ staged' = staged
  BY DEF Checkout
<1>2. born' \in SUBSET Branches /\ born \subseteq born' /\ (b # Detached => b \in born')
  BY <1>1 DEF RepoTypes, Places
<1>3. holds' \in [Places -> SUBSET Edits] /\ \A c \in Places \ {b} : holds'[c] = holds[c]
  BY <1>1 DEF RepoTypes
<1>4. ASSUME NEW c \in Branches \ born' PROVE holds'[c] = {}
  <2>1. c # b /\ c \notin born /\ c \in Places
    BY <1>2, <1>4, PlacesAre
  <2> QED
    BY <1>3, <2>1 DEF RepoTypes
<1> QED
  BY <1>1, <1>2, <1>3, <1>4

LEMMA CommitIs ==
  ASSUME RepoTypes, CommitIndex
  PROVE  /\ head' = head /\ born' \in SUBSET Branches /\ born \subseteq born'
         /\ holds' \in [Places -> SUBSET Edits] /\ \A c \in Branches \ born' : holds'[c] = {}
         /\ merging' = FALSE /\ dirty' = dirty /\ staged' = {}
         /\ staged \subseteq holds'[head] /\ \A b \in Places \ {head} : holds'[b] = holds[b]
<1>1. /\ head' = head /\ born' = IF head = Detached THEN born ELSE born \cup {head}
      /\ holds' = [holds EXCEPT ![head] = holds[head] \cup staged]
      /\ merging' = FALSE /\ dirty' = dirty /\ staged' = {}
  BY DEF CommitIndex
<1>2. born' \in SUBSET Branches /\ born \subseteq born' /\ (head # Detached => head \in born')
  BY <1>1 DEF RepoTypes, Places
<1>3. /\ holds' \in [Places -> SUBSET Edits] /\ \A c \in Places \ {head} : holds'[c] = holds[c]
      /\ staged \subseteq holds'[head]
  BY <1>1 DEF RepoTypes
<1>4. ASSUME NEW c \in Branches \ born' PROVE holds'[c] = {}
  <2>1. c # head /\ c \notin born /\ c \in Places
    BY <1>2, <1>4, PlacesAre
  <2> QED
    BY <1>3, <2>1 DEF RepoTypes
<1> QED
  BY <1>1, <1>2, <1>3, <1>4

LEMMA PushedIs ==
  ASSUME RepoTypes, NEW b \in born, Pushed(b)
  PROVE  origin' \in [Branches -> SUBSET Edits] /\ \A c \in Branches \ born : origin'[c] = {}
<1>1. b \in Branches /\ holds[b] \in SUBSET Edits
  BY PlacesAre DEF RepoTypes
<1> QED
  BY <1>1 DEF RepoTypes, Pushed

\* Jobs: steps of one, and what the others notice when HEAD moves.
LEMMA NextIs ==
  ASSUME JobTypes, NEW s \in Sessions, NEW step \in {"branch", "switch", "add", "status", "commit"},
         NEW branch \in Places \cup {NoOne}, Next1(s, step, branch), job[s].at # "push"
  PROVE  /\ JobTypes' /\ \A t \in Sessions \ {s} : job'[t] = job[t]
         /\ job'[s].at = step /\ job'[s].branch = branch /\ job'[s].on = job[s].on
         /\ job'[s].strategy = job[s].strategy /\ job'[s].moved = job[s].moved
         /\ job'[s].cut = job[s].cut
<1> DEFINE j == [job[s] EXCEPT !.at = step, !.branch = branch]
<1>1. job[s] \in Jobs /\ job[s].done = {}
  BY DEF JobTypes
<1>2. /\ j \in Jobs /\ j.at = step /\ j.branch = branch /\ j.on = job[s].on
      /\ j.strategy = job[s].strategy /\ j.moved = job[s].moved /\ j.cut = job[s].cut /\ j.done = {}
  BY <1>1 DEF Jobs
<1>3. job' = [job EXCEPT ![s] = j]
  BY DEF Next1, JobTypes
<1> HIDE DEF j
<1> QED
  BY <1>2, <1>3 DEF JobTypes

LEMMA SkippedIs ==
  ASSUME JobTypes, NEW s \in Sessions, Skipped(s)
  PROVE  JobTypes' /\ job'[s] = NoJob /\ \A t \in Sessions \ {s} : job'[t] = job[t]
BY PlacesAre DEF JobTypes, Skipped

LEMMA MovedIs ==
  ASSUME NEW jobMap \in [Sessions -> Jobs], NEW s, job' = Moved(jobMap, s)
  PROVE  /\ job' \in [Sessions -> Jobs]
         /\ \A t \in Sessions :
              /\ job'[t].at = jobMap[t].at /\ job'[t].done = jobMap[t].done
              /\ ~job'[t].moved => job'[t] = jobMap[t] /\ (t # s => job[t].at = "none")
              /\ t = s => job'[t] = jobMap[t]
<1>1. ASSUME NEW t \in Sessions
      PROVE  LET j == [jobMap[t] EXCEPT !.moved = TRUE] IN
             j \in Jobs /\ j.moved /\ j.at = jobMap[t].at /\ j.done = jobMap[t].done
  <2>1. jobMap[t] \in Jobs
    OBVIOUS
  <2> QED
    BY <2>1 DEF Jobs
<1> QED
  BY <1>1 DEF Moved


\* A job that commits takes what is staged or nothing, and one that starts to report
\* has just committed it.
ReportsOf(s) ==
  job[s].at = "commit" /\ job'[s].at # "commit" =>
    /\ CommitIndex \/ holds' = holds
    /\ job'[s].at = "push" => CommitIndex /\ job'[s].done = staged
Reports == \A s \in Sessions : ReportsOf(s)

LEMMA JobKeeps ==
  ASSUME CommitInv, NEW s \in Sessions, RepoTypes', JobTypes', Told(s)', head' = head, born \subseteq born',
         \A t \in Sessions \ {s} : job'[t] = job[t],
         ReportsOf(s)
  PROVE  CommitInv' /\ Reports
<1>1. ASSUME NEW t \in Sessions PROVE Told(t)'
  BY DEF CommitInv, OnHead, Told
<1>2. ASSUME NEW t \in Sessions PROVE ReportsOf(t)
  <2>1. t # s => job'[t] = job[t]
    OBVIOUS
  <2> QED
    BY <2>1 DEF ReportsOf
<1> QED
  BY <1>1, <1>2 DEF CommitInv, OnHead, Reports

LEMMA RestKeeps ==
  ASSUME CommitInv, RepoTypes', job' = job, head' = head, born \subseteq born'
  PROVE  CommitInv' /\ Reports
<1>1. JobTypes'
  BY DEF CommitInv, JobTypes
<1>2. ASSUME NEW t \in Sessions PROVE Told(t)'
  BY DEF CommitInv, OnHead, Told
<1> QED
  BY <1>1, <1>2 DEF CommitInv, OnHead, Reports, ReportsOf

\* HEAD has moved under all jobs but s's, and to the branch of s.
LEMMA MoveKeeps ==
  ASSUME CommitInv, NEW s, NEW jobMap \in [Sessions -> Jobs], job' = Moved(jobMap, s), RepoTypes',
         \A t \in Sessions : /\ t # s => jobMap[t] = job[t]
                             /\ jobMap[t].done # {} => jobMap[t].at = "push",
         s \in Sessions => /\ job[s].at = "switch"
                           /\ jobMap[s].at # "none" =>
                                /\ jobMap[s].at = "add" /\ head' = BranchOf[s]
                                /\ jobMap[s].cut \/ jobMap[s].branch = head'
  PROVE  CommitInv' /\ Reports
<1>1. job' \in [Sessions -> Jobs]
  BY MovedIs
<1>2. \A t \in Sessions :
        /\ job'[t].at = jobMap[t].at /\ job'[t].done = jobMap[t].done
        /\ ~job'[t].moved => job'[t] = jobMap[t] /\ (t # s => job[t].at = "none")
        /\ t = s => job'[t] = jobMap[t]
  BY MovedIs
<1>3. ASSUME NEW t \in Sessions PROVE Told(t)'
  <2>1. CASE t = s
    <3>1. job'[t] = jobMap[t] /\ BranchOf[t] # Main
      BY <1>2, <2>1, PlacesAre
    <3> QED
      BY <2>1, <3>1 DEF Told
  <2>2. CASE t # s
    BY <1>2, <2>2 DEF Told
  <2> QED
    BY <2>1, <2>2
<1>4. JobTypes'
  BY <1>1, <1>2 DEF JobTypes
<1>5. ASSUME NEW t \in Sessions PROVE ReportsOf(t)
  <2>1. t = s => job[t].at = "switch"
    OBVIOUS
  <2>2. t # s => job'[t].at = job[t].at
    BY <1>2
  <2> QED
    BY <2>1, <2>2 DEF ReportsOf
<1> QED
  BY <1>3, <1>4, <1>5 DEF CommitInv, OnHead, Reports

LEMMA RepoRests == ASSUME RepoTypes, UNCHANGED <<gitVars, author, pushing, origin>> PROVE RepoTypes'
BY DEF RepoTypes, gitVars

LEMMA StageIs ==
  ASSUME RepoTypes, Stage, UNCHANGED <<author, pushing, origin>>
  PROVE  RepoTypes' /\ head' = head /\ born' = born
BY DEF RepoTypes, Stage

\* The agents and the manual pushes.
LEMMA AgentsKeep ==
  ASSUME CommitInv, NEW s \in Sessions,
         AgentGit(s) \/ AskPush(s) \/ ManualPush(s) \/ \E e \in Edits : Edit(s, e)
  PROVE  CommitInv' /\ Reports
<1>0. RepoTypes /\ JobTypes
  BY DEF CommitInv
<1>1. ASSUME NEW e \in Edits, Edit(s, e) PROVE CommitInv' /\ Reports
  <2>1. /\ author[e] = NoOne /\ author' = [author EXCEPT ![e] = s] /\ dirty' = dirty \cup {e}
        /\ UNCHANGED <<head, born, merging, holds, staged, origin, pushing, job>>
    BY <1>1 DEF Edit
  <2>2. /\ author' \in [Edits -> Sessions \cup {NoOne}] /\ author'[e] = s /\ s # NoOne
        /\ \A f \in Edits \ {e} : author'[f] = author[f]
    BY <1>0, <2>1, PlacesAre DEF RepoTypes
  <2>3. /\ e \notin dirty \cup staged
        /\ dirty' \cup staged' \subseteq {f \in Edits : author'[f] # NoOne} /\ dirty' \cap staged' = {}
    BY <1>0, <2>1, <2>2 DEF RepoTypes
  <2>4. RepoTypes'
    BY <1>0, <2>1, <2>2, <2>3 DEF RepoTypes
  <2> QED
    BY <2>1, <2>4, RestKeeps
<1>2. ASSUME NEW b \in Places, Checkout(b), job' = Moved(job, NoOne), UNCHANGED <<author, pushing, origin>>
      PROVE  CommitInv' /\ Reports
  <2>1. RepoTypes'
    BY <1>0, <1>2, CheckoutIs DEF RepoTypes
  <2> QED
    BY <1>0, <1>2, <2>1, MoveKeeps, PlacesAre DEF JobTypes
<1>3. CASE Stage /\ UNCHANGED <<author, pushing, origin, job>>
  BY <1>0, <1>3, StageIs, RestKeeps
<1>4. CASE CommitIndex /\ UNCHANGED <<author, pushing, origin, job>>
  <2>1. RepoTypes'
    BY <1>0, <1>4, CommitIs DEF RepoTypes
  <2> QED
    BY <1>0, <1>4, <2>1, CommitIs, RestKeeps
<1>5. ASSUME NEW b \in born, Pushed(b), UNCHANGED <<gitVars, author, job>>,
             pushing' \in [Sessions -> Places \cup {NoOne}]
      PROVE  CommitInv' /\ Reports
  <2>1. RepoTypes'
    BY <1>0, <1>5, PushedIs DEF RepoTypes, gitVars
  <2> QED
    BY <1>5, <2>1, RestKeeps DEF gitVars
<1>6. CASE UNCHANGED <<head, born, holds, dirty, staged, origin, author, job>> /\ merging' \in BOOLEAN
           /\ pushing' \in [Sessions -> Places \cup {NoOne}]
  <2>1. RepoTypes'
    BY <1>0, <1>6 DEF RepoTypes
  <2> QED
    BY <1>6, <2>1, RestKeeps
<1>7. CASE AgentGit(s)
  <2>1. author' = author /\ pushing' = pushing /\ pushing \in [Sessions -> Places \cup {NoOne}]
    BY <1>0, <1>7 DEF AgentGit, RepoTypes
  <2>2. CASE \E b \in Branches \cup {Detached} : Checkout(b) /\ job' = Moved(job, NoOne) /\ UNCHANGED origin
    BY <1>2, <2>1, <2>2 DEF Places
  <2>3. CASE \E b \in born : Pushed(b) /\ UNCHANGED <<gitVars, job>>
    BY <1>5, <2>1, <2>3
  <2> QED
    BY <1>3, <1>4, <1>6, <1>7, <2>1, <2>2, <2>3 DEF AgentGit
<1>8. CASE AskPush(s)
  <2>1. Current \in Places \cup {NoOne} /\ pushing \in [Sessions -> Places \cup {NoOne}]
    BY <1>0 DEF Current, RepoTypes
  <2> QED
    BY <1>0, <1>6, <1>8, <2>1 DEF AskPush, gitVars, RepoTypes
<1>9. CASE ManualPush(s)
  <2>1. pushing' \in [Sessions -> Places \cup {NoOne}]
    BY <1>0, <1>9 DEF ManualPush, RepoTypes
  <2> QED
    BY <1>0, <1>5, <1>6, <1>9, <2>1 DEF ManualPush, gitVars, RepoTypes
<1> QED
  BY <1>1, <1>7, <1>8, <1>9

\* The steps of a job.
LEMMA TakenIs ==
  ASSUME JobTypes, NEW s \in Sessions, NEW branch \in Places \cup {NoOne}, job[s].at = "switch" \/ job[s].done = {}
  PROVE  /\ Taken(s, branch) \in Jobs /\ Taken(s, branch).done = {}
         /\ \/ Taken(s, branch) = NoJob
            \/ /\ ~(branch = Main /\ job[s].strategy = "session")
               /\ Taken(s, branch).at = "add" /\ Taken(s, branch).branch = branch
               /\ Taken(s, branch).strategy = job[s].strategy
               /\ Taken(s, branch).moved = job[s].moved /\ Taken(s, branch).cut = job[s].cut
<1> DEFINE j == [job[s] EXCEPT !.at = "add", !.branch = branch]
<1>1. job[s] \in Jobs /\ job[s].done = {}
  BY DEF JobTypes
<1>2. /\ j \in Jobs /\ j.at = "add" /\ j.branch = branch /\ j.strategy = job[s].strategy
      /\ j.moved = job[s].moved /\ j.cut = job[s].cut /\ j.done = {}
  BY <1>1 DEF Jobs
<1>3. Taken(s, branch) = IF branch = Main /\ job[s].strategy = "session" THEN NoJob ELSE j
  BY DEF Taken
<1> HIDE DEF j
<1> QED
  BY <1>2, <1>3, PlacesAre

LEMMA TakesKeeps ==
  ASSUME CommitInv, NEW s \in Sessions, NEW branch \in Places \cup {NoOne}, Takes(s, branch),
         UNCHANGED <<gitVars, author, pushing, origin>>, job[s].at \in {"branch", "clean", "switch"},
         ~job[s].moved => branch \in {head, NoOne}
  PROVE  CommitInv' /\ Reports
<1>0. RepoTypes' /\ JobTypes /\ head' = head /\ born' = born /\ Told(s) /\ job[s].done = {}
  BY RepoRests DEF CommitInv, gitVars, OnHead, JobTypes
<1>1. PICK j : j = Taken(s, branch)
  OBVIOUS
<1>2. /\ j \in Jobs /\ j.done = {}
      /\ \/ j = NoJob
         \/ /\ ~(branch = Main /\ job[s].strategy = "session")
            /\ j.at = "add" /\ j.branch = branch /\ j.strategy = job[s].strategy
            /\ j.moved = job[s].moved /\ j.cut = job[s].cut
  BY <1>0, <1>1, TakenIs
<1>3. job' = [job EXCEPT ![s] = j]
  BY <1>1 DEF Takes
<1>4. JobTypes' /\ job'[s] = j /\ \A t \in Sessions \ {s} : job'[t] = job[t]
  BY <1>0, <1>2, <1>3 DEF JobTypes
<1>5. Told(s)'
  BY <1>0, <1>2, <1>4, PlacesAre DEF Told
<1>6. ReportsOf(s)
  BY DEF ReportsOf
<1> QED
  BY <1>0, <1>4, <1>5, <1>6, JobKeeps

LEMMA SkippedKeeps ==
  ASSUME CommitInv, NEW s \in Sessions, Skipped(s), RepoTypes', head' = head, born \subseteq born',
         job[s].at = "commit" => CommitIndex \/ holds' = holds
  PROVE  CommitInv' /\ Reports
<1>1. JobTypes' /\ job'[s] = NoJob /\ \A t \in Sessions \ {s} : job'[t] = job[t]
  BY SkippedIs DEF CommitInv
<1>2. Told(s)' /\ ReportsOf(s)
  BY <1>1, PlacesAre DEF Told, ReportsOf
<1> QED
  BY <1>1, <1>2, JobKeeps

LEMMA NextKeeps ==
  ASSUME CommitInv, NEW s \in Sessions, NEW step \in {"branch", "switch", "add", "status", "commit"},
         NEW branch \in Places \cup {NoOne}, Next1(s, step, branch),
         job[s].at \notin {"none", "commit", "push"},
         RepoTypes', head' = head, born' = born,
         step = "branch" => job[s].at = "inspect",
         step = "switch" => job[s].at = "clean",
         step \in {"status", "commit"} => branch = job[s].branch /\ job[s].at \in {"add", "status"},
         step # "add"
  PROVE  CommitInv' /\ Reports
<1>1. /\ JobTypes' /\ \A t \in Sessions \ {s} : job'[t] = job[t]
      /\ job'[s].at = step /\ job'[s].branch = branch /\ job'[s].strategy = job[s].strategy
      /\ job'[s].moved = job[s].moved /\ job'[s].cut = job[s].cut /\ job'[s].on = job[s].on
  BY NextIs DEF CommitInv
<1>2. Told(s)' /\ ReportsOf(s)
  BY <1>1 DEF CommitInv, OnHead, Told, ReportsOf
<1> QED
  BY <1>1, <1>2, JobKeeps


LEMMA BeginKeeps ==
  ASSUME CommitInv, NEW s \in Sessions, Begin(s)
  PROVE  CommitInv' /\ Reports
<1>1. PICK strategy \in Strategies :
        job' = [job EXCEPT ![s] = [NoJob EXCEPT !.at = "inspect", !.strategy = strategy]]
  BY DEF Begin
<1> DEFINE j == [NoJob EXCEPT !.at = "inspect", !.strategy = strategy]
<1>2. j \in Jobs /\ j.at = "inspect" /\ ~j.cut /\ j.done = {}
  <2>1. strategy \in {"session", "current"}
    BY CommitAssumption
  <2> QED
    BY <2>1, PlacesAre DEF Jobs, NoJob
<1>3. job' = [job EXCEPT ![s] = j] /\ UNCHANGED <<gitVars, author, pushing, origin>> /\ job[s].at = "none"
  BY <1>1 DEF Begin
<1> HIDE DEF j
<1>4. /\ JobTypes' /\ job'[s] = j /\ \A t \in Sessions \ {s} : job'[t] = job[t]
      /\ RepoTypes' /\ head' = head /\ born' = born
  BY <1>2, <1>3, RepoRests DEF CommitInv, JobTypes, gitVars
<1>5. Told(s)' /\ ReportsOf(s)
  BY <1>2, <1>3, <1>4 DEF Told, ReportsOf
<1> QED
  BY <1>4, <1>5, JobKeeps

LEMMA LooksKeep ==
  ASSUME CommitInv, NEW s \in Sessions, Inspect(s) \/ LookAtBranch(s) \/ LookIfClean(s)
  PROVE  CommitInv' /\ Reports
<1>0. /\ RepoTypes /\ JobTypes /\ Told(s) /\ UNCHANGED <<gitVars, author, pushing, origin>>
      /\ RepoTypes' /\ head' = head /\ born' = born /\ job[s] \in Jobs
  BY RepoRests DEF CommitInv, OnHead, JobTypes, Inspect, LookAtBranch, LookIfClean, gitVars
<1>1. CASE Inspect(s)
  BY <1>0, <1>1, SkippedKeeps, NextKeeps DEF Inspect
<1>2. CASE LookAtBranch(s)
  <2>1. PICK on \in Read :
          IF job[s].strategy = "current" \/ on \in {NoOne, BranchOf[s]} THEN Takes(s, on)
          ELSE job' = [job EXCEPT ![s].at = "clean", ![s].on = on]
    BY <1>2 DEF LookAtBranch
  <2>2. job[s].at = "branch" /\ on \in {head, NoOne} /\ on \in Places \cup {NoOne}
    BY <1>0, <1>2, <2>1 DEF LookAtBranch, Read, Current, RepoTypes
  <2>3. CASE Takes(s, on)
    BY <1>0, <2>2, <2>3, TakesKeeps
  <2>4. CASE on # NoOne /\ job' = [job EXCEPT ![s].at = "clean", ![s].on = on]
    <3> DEFINE j == [job[s] EXCEPT !.at = "clean", !.on = on]
    <3>1. /\ j \in Jobs /\ j.at = "clean" /\ j.on = on /\ j.moved = job[s].moved
          /\ j.cut = job[s].cut /\ j.done = {}
      BY <1>0, <2>2 DEF Jobs, JobTypes
    <3>2. job' = [job EXCEPT ![s] = j]
      BY <1>0, <2>4 DEF JobTypes
    <3> HIDE DEF j
    <3>3. JobTypes' /\ job'[s] = j /\ \A t \in Sessions \ {s} : job'[t] = job[t]
      BY <1>0, <3>1, <3>2 DEF JobTypes
    <3>4. Told(s)' /\ ReportsOf(s)
      BY <1>0, <2>2, <2>4, <3>1, <3>3 DEF Told, ReportsOf
    <3> QED
      BY <1>0, <3>1, <3>3, <3>4, JobKeeps
  <2> QED
    BY <2>1, <2>3, <2>4
<1>3. CASE LookIfClean(s)
  <2>1. job[s].at = "clean" /\ job[s].on \in Places \cup {NoOne} /\ (~job[s].moved => job[s].on = head)
    BY <1>0, <1>3 DEF LookIfClean, Told, Jobs
  <2> QED
    BY <1>0, <1>3, <2>1, TakesKeeps, NextKeeps DEF LookIfClean
<1> QED
  BY <1>1, <1>2, <1>3

LEMMA SwitchKeeps ==
  ASSUME CommitInv, NEW s \in Sessions, Switch(s)
  PROVE  CommitInv' /\ Reports
<1>0. /\ RepoTypes /\ JobTypes /\ Told(s) /\ UNCHANGED <<author, pushing, origin>>
      /\ job[s] \in Jobs /\ job[s].at = "switch" /\ job[s].done = {}
  BY DEF CommitInv, OnHead, JobTypes, Switch
<1>1. job[s].on \in Places \cup {NoOne} /\ (~job[s].moved => job[s].on = head)
  BY <1>0 DEF Told, Jobs
<1>2. CASE Takes(s, job[s].on) /\ UNCHANGED gitVars
  BY <1>0, <1>1, <1>2, TakesKeeps
<1>3. ASSUME Checkout(BranchOf[s]), NEW j \in {Taken(s, BranchOf[s]), Mistold(s)},
             job' = Moved([job EXCEPT ![s] = j], s)
      PROVE  CommitInv' /\ Reports
  <2> DEFINE jobMap == [job EXCEPT ![s] = j]
  <2>1. BranchOf[s] \in Places /\ BranchOf[s] \in Branches /\ BranchOf[s] # Detached /\ BranchOf[s] # Main
    BY PlacesAre
  <2>2. /\ j \in Jobs /\ j.done = {}
        /\ j.at # "none" => j.at = "add" /\ (j.cut \/ j.branch = BranchOf[s])
    <3>1. CASE j = Taken(s, BranchOf[s])
      BY <1>0, <2>1, <3>1, TakenIs, PlacesAre
    <3>2. CASE j = Mistold(s)
      <4> DEFINE m == [job[s] EXCEPT !.at = "add", !.branch = job[s].on, !.cut = TRUE]
      <4>1. m \in Jobs /\ m.done = {} /\ m.at = "add" /\ m.cut
        BY <1>0, <1>1 DEF Jobs
      <4>2. j = IF job[s].on = Main THEN NoJob ELSE m
        BY <3>2 DEF Mistold
      <4> HIDE DEF m
      <4> QED
        BY <4>1, <4>2, PlacesAre
    <3> QED
      BY <3>1, <3>2
  <2>3. jobMap \in [Sessions -> Jobs] /\ jobMap[s] = j /\ \A t \in Sessions \ {s} : jobMap[t] = job[t]
    BY <1>0, <2>2 DEF JobTypes
  <2>4. job' = Moved(jobMap, s)
    BY <1>3
  <2> HIDE DEF jobMap
  <2>5. RepoTypes' /\ head' = BranchOf[s]
    BY <1>0, <1>3, <2>1, CheckoutIs DEF RepoTypes
  <2>6. \A t \in Sessions : /\ t # s => jobMap[t] = job[t]
                            /\ jobMap[t].done # {} => jobMap[t].at = "push"
    BY <1>0, <2>2, <2>3 DEF JobTypes
  <2> QED
    BY <1>0, <2>2, <2>3, <2>4, <2>5, <2>6, MoveKeeps
<1> QED
  BY <1>2, <1>3 DEF Switch

LEMMA CommitsKeep ==
  ASSUME CommitInv, NEW s \in Sessions, Add(s) \/ Status(s) \/ Commit(s) \/ Push(s)
  PROVE  CommitInv' /\ Reports
<1>0. /\ RepoTypes /\ JobTypes /\ Told(s) /\ UNCHANGED <<author, pushing>> /\ job[s] \in Jobs
      /\ job[s].branch \in Places \cup {NoOne}
  BY DEF CommitInv, OnHead, JobTypes, Jobs, Add, Status, Commit, Push
<1>1. CASE Add(s)
  <2>1. origin' = origin /\ job[s].at = "add"
    BY <1>1 DEF Add
  <2>2. CASE Skipped(s) /\ UNCHANGED gitVars
    BY <1>0, <2>1, <2>2, RepoRests, SkippedKeeps DEF gitVars
  <2>3. CASE Skipped(s) /\ Stage
    BY <1>0, <2>1, <2>3, StageIs, SkippedKeeps
  <2>4. CASE Stage /\ Next1(s, "status", job[s].branch)
    BY <1>0, <2>1, <2>4, StageIs, NextKeeps
  <2> QED
    BY <1>1, <2>2, <2>3, <2>4 DEF Add
<1>2. CASE Status(s)
  <2>1. RepoTypes' /\ head' = head /\ born' = born /\ job[s].at = "status"
    BY <1>0, <1>2, RepoRests DEF Status, gitVars
  <2> QED
    BY <1>0, <1>2, <2>1, SkippedKeeps, NextKeeps DEF Status
<1>3. CASE Commit(s)
  <2>1. origin' = origin /\ job[s].at = "commit" /\ job[s].done = {}
    BY <1>0, <1>3 DEF Commit, JobTypes
  <2>2. CASE Skipped(s) /\ UNCHANGED gitVars
    BY <1>0, <2>1, <2>2, RepoRests, SkippedKeeps DEF gitVars
  <2>3. CommitIndex => RepoTypes' /\ head' = head /\ born \subseteq born'
    BY <1>0, <2>1, CommitIs DEF RepoTypes
  <2>4. CASE Skipped(s) /\ CommitIndex
    BY <2>3, <2>4, SkippedKeeps
  <2>5. CASE CommitIndex /\ job' = [job EXCEPT ![s].at = "push", ![s].done = staged]
    <3> DEFINE j == [job[s] EXCEPT !.at = "push", !.done = staged]
    <3>1. j \in Jobs /\ j.at = "push" /\ j.done = staged
      BY <1>0 DEF Jobs, RepoTypes
    <3>2. job' = [job EXCEPT ![s] = j]
      BY <1>0, <2>5 DEF JobTypes
    <3> HIDE DEF j
    <3>3. JobTypes' /\ job'[s] = j /\ \A t \in Sessions \ {s} : job'[t] = job[t]
      BY <1>0, <3>1, <3>2 DEF JobTypes
    <3>4. Told(s)' /\ ReportsOf(s)
      BY <2>5, <3>1, <3>3 DEF Told, ReportsOf
    <3> QED
      BY <2>3, <2>5, <3>3, <3>4, JobKeeps
  <2> QED
    BY <1>3, <2>2, <2>4, <2>5 DEF Commit
<1>4. CASE Push(s)
  <2>1. Skipped(s) /\ UNCHANGED gitVars /\ job[s].at = "push"
        /\ (UNCHANGED origin \/ \E b \in born : Pushed(b))
    BY <1>4 DEF Push
  <2>2. RepoTypes'
    BY <1>0, <2>1, PushedIs DEF RepoTypes, gitVars
  <2> QED
    BY <2>1, <2>2, SkippedKeeps DEF gitVars
<1> QED
  BY <1>1, <1>2, <1>3, <1>4

LEMMA CommitStep == ASSUME CommitInv, CommitNext PROVE CommitInv' /\ Reports
BY AgentsKeep, BeginKeeps, LooksKeep, SwitchKeeps, CommitsKeep DEF CommitNext

\* Which branch a commit job works on, while HEAD is not moved under it.
THEOREM CommitInvariant == CommitSpec => []CommitInv
<1>1. CommitInit => CommitInv
  <2> SUFFICES ASSUME CommitInit PROVE CommitInv
    OBVIOUS
  <2>1. RepoTypes
    BY PlacesAre DEF CommitInit, RepoTypes, Places
  <2>2. \A s \in Sessions : job[s] = NoJob
    BY DEF CommitInit
  <2>3. JobTypes
    BY <2>2, PlacesAre DEF CommitInit, JobTypes
  <2>4. OnHead
    BY <2>2, PlacesAre DEF OnHead, Told
  <2> QED
    BY <2>1, <2>3, <2>4 DEF CommitInv
<1>2. ASSUME CommitInv, [CommitNext]_commitVars PROVE CommitInv'
  <2>1. CASE UNCHANGED commitVars
    <3>1. /\ UNCHANGED <<gitVars, author, pushing, origin>> /\ job' = job /\ head' = head
          /\ born' = born /\ RepoTypes
      BY <2>1, <1>2 DEF commitVars, gitVars, CommitInv
    <3>2. RepoTypes'
      BY <3>1, RepoRests
    <3> QED
      BY <1>2, <3>1, <3>2, RestKeeps
  <2> QED
    BY <1>2, <2>1, CommitStep
<1> QED
  BY <1>1, <1>2, PTL DEF CommitSpec

\* A commit job that could read its branch leaves the protected branch alone, and what
\* it reports is on the branch it reports or on the session's own (git_autocommit.py,
\* autocommit and prepare_session_branch), whatever commands fail or time out.
THEOREM CommitsWhereToldHolds == CommitSpec => CommitsWhereTold
<1>1. ASSUME CommitInv, CommitNext, NEW s \in Sessions, job[s].at = "commit", job'[s].at # "commit",
             ~job[s].moved, job[s].branch # NoOne
      PROVE  /\ job[s].strategy = "session" => holds'[Main] = holds[Main]
             /\ job'[s].at = "push" =>
                  job'[s].done \subseteq holds'[IF job[s].cut THEN BranchOf[s] ELSE job[s].branch]
  <2>1. ReportsOf(s)
    BY <1>1, CommitStep DEF Reports
  <2>2. /\ job[s].cut => head = BranchOf[s]
        /\ ~job[s].cut => job[s].branch = head
        /\ job[s].strategy = "session" => head # Main
    BY <1>1 DEF CommitInv, OnHead, Told
  <2>3. CommitIndex => staged \subseteq holds'[head] /\ (head # Main => holds'[Main] = holds[Main])
    BY <1>1, CommitIs, PlacesAre DEF CommitInv
  <2>4. (IF job[s].cut THEN BranchOf[s] ELSE job[s].branch) = head
    BY <2>2
  <2> QED
    BY <1>1, <2>1, <2>2, <2>3, <2>4 DEF ReportsOf
<1>2. CommitInv /\ [CommitNext]_commitVars => [\A s \in Sessions :
       job[s].at = "commit" /\ job'[s].at # "commit" /\ ~job[s].moved =>
         /\ job[s].strategy = "session" /\ job[s].branch # NoOne => holds'[Main] = holds[Main]
         /\ job'[s].at = "push" /\ job[s].branch # NoOne =>
              job'[s].done \subseteq holds'[IF job[s].cut THEN BranchOf[s] ELSE job[s].branch]]_commitVars
  BY <1>1
<1> QED
  BY <1>2, CommitInvariant, PTL DEF CommitSpec, CommitsWhereTold

-----------------------------------------------------------------------------
(* The host.                                                               *)

\* Types of the process tables, the repository and the commit jobs, whatever the two do.
THEOREM HostTypes == HostSpec => []HostTypeOK
<1>1. ProcInv => ProcessTypeOK
  BY DEF ProcInv, ProcTypes, CallTypes, Calls, ProcessTypeOK
<1>2. CommitInv => CommitTypeOK
  BY DEF CommitInv, RepoTypes, JobTypes, Places, CommitTypeOK
<1> QED
  BY <1>1, <1>2, ProcInvariant, CommitInvariant, PTL DEF HostSpec, HostTypeOK
=============================================================================
