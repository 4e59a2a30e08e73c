----------------------------- MODULE MCAgentLoop -----------------------------
(***************************************************************************)
(* Instances of AgentLoop for TLC, and _repair_orphan_tool_calls on every  *)
(* short history, also those no session of two turns gets to.              *)
(***************************************************************************)
EXTENDS AgentLoop

Alphabet == {Human} \cup {Ai(S) : S \in SUBSET Ids} \cup {Result(id) : id \in Ids}

Histories == UNION {[1 .. n -> Alphabet] : n \in 0 .. 4}

\* What is repaired can be sent; repairing again changes nothing; and neither
\* does repairing what could have been sent as it was.
ASSUME RepairMends ==
  \A h \in Histories :
    UniqueIds(h) =>
      /\ Accepted(Repair(h))
      /\ Repair(Repair(h)) = Repair(h)
      /\ Accepted(h) => Repair(h) = h
=============================================================================
