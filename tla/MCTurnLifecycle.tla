--------------------------- MODULE MCTurnLifecycle ---------------------------
(* Instances of TurnLifecycle for TLC. *)
EXTENDS TurnLifecycle

\* Every turn posts another text.
DistinctPrompts == [t \in Turns |-> t]
=============================================================================
