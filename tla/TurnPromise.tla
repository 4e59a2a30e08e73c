----------------------------- MODULE TurnPromise -----------------------------
(***************************************************************************)
(* What run_turn promises whoever watches the events of a session: a prompt *)
(* that was accepted is either withdrawn before it began, or it is opened   *)
(* by its user message and then closed, once and for good, by turn_summary  *)
(* with one verdict.                                                        *)
(***************************************************************************)
CONSTANT Turns

VARIABLES
  phase,   \* how far the turn has got, by the events published so far
  verdict  \* how a closed turn ended

vars == <<phase, verdict>>

Verdicts == {"answered", "cancelled", "error"}

Init ==
  /\ phase = [t \in Turns |-> "unseen"]
  /\ verdict = [t \in Turns |-> "none"]

Moves(t, from, to) ==
  /\ phase[t] = from
  /\ phase' = [phase EXCEPT ![t] = to]

Accept(t)   == Moves(t, "unseen", "accepted") /\ UNCHANGED verdict
Open(t)     == Moves(t, "accepted", "open") /\ UNCHANGED verdict
Withdraw(t) == Moves(t, "accepted", "withdrawn") /\ UNCHANGED verdict

Close(t) ==
  /\ Moves(t, "open", "closed")
  /\ \E v \in Verdicts : verdict' = [verdict EXCEPT ![t] = v]

Next == \E t \in Turns : Accept(t) \/ Open(t) \/ Withdraw(t) \/ Close(t)

SafeSpec == Init /\ [][Next]_vars

Fairness ==
  \A t \in Turns : WF_vars(Open(t) \/ Withdraw(t)) /\ WF_vars(Close(t))

Spec == SafeSpec /\ Fairness
=============================================================================
