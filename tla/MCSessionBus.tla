----------------------------- MODULE MCSessionBus -----------------------------
(* Instances of SessionBus for TLC. *)
EXTENDS SessionBus

\* The agent's thread publishes events 1 and 2, a sub-agent's thread event 3.
TwoThreads == [e \in Events |-> IF e <= 2 THEN "agent" ELSE "sub"]

Named(frames) == [i \in DOMAIN frames |-> frames[i].ev]

\* What TLC tells states apart by: the bus without its table and without the
\* stamps of its frames, which publish() writes and nothing on the bus reads.
BusView ==
  <<clock, issued, [p \in Publishers |-> holding[p].ev], bound,
    Named(handed), reached, Named(queue), dropped,
    sending.frame.ev, sending.to, Named(fanned), [s \in Clients |-> Named(got[s])],
    subs, joined>>
=============================================================================
