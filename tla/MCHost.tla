------------------------------- MODULE MCHost -------------------------------
(***************************************************************************)
(* What an agent's tools leave on the host: background processes and commits.  *)
(* The two have no variable in common, so a behaviour is one of the one part or   *)
(* of the other, and the part that is left out rests.                              *)
(***************************************************************************)
EXTENDS Host, TLC

CONSTANTS p1, p2, p3, p4, a1, a2, s1, s2, b1, b2

VARIABLE part

Branching == (s1 :> b1) @@ (s2 :> b2)

\* Pids, agents, and sessions with their branches are interchangeable.
Swapped == (s1 :> s2) @@ (s2 :> s1) @@ (b1 :> b2) @@ (b2 :> b1)
Symmetry ==
  {x @@ y @@ z : x \in Permutations(Pids), y \in Permutations(Agents),
                 z \in {Swapped, [v \in DOMAIN Swapped |-> v]}}

ProcessesRest ==
  /\ proc = [p \in Pids |-> NoProcess] /\ rows = [p \in Pids |-> Nobody] /\ fresh = {}
  /\ protected = {} /\ stop = [s \in Agents |-> NoStop]
  /\ uses = [p \in Pids |-> 0] /\ stops = 0

HostInit ==
  \/ part = "processes" /\ ProcessInit /\ CommitInit /\ born = {}
  \/ part = "commits" /\ CommitInit /\ ProcessesRest

HostNext ==
  \/ part = "processes" /\ ProcessNext /\ UNCHANGED <<commitVars, part>>
  \/ part = "commits" /\ CommitNext /\ UNCHANGED <<processVars, part>>
=============================================================================
