----------------------------- MODULE MCEventFeed -----------------------------
(* Instances of EventFeed for TLC. *)
EXTENDS EventFeed

OneThread == [e \in Events |-> "agent"]

\* The frames on their way to each socket that may still read them.
InFlight ==
  [s \in Sockets |-> IF sock[s] \in {"connecting", "open"}
                     THEN SubSeq(got[s], read[s] + 1, Len(got[s])) ELSE <<>>]

\* What a GET that is still to be answered was issued after.
Asked == [s \in Sockets |-> IF fetch[s].st = "none" THEN {} ELSE answered[s]]

\* What TLC tells states apart by: all that an action of the feed reads, and none
\* of the bus's histories and counters (dropped, reached, fanned, frames read), nor how
\* long the timer is set for.
FeedView ==
  <<clock, issued, holding, table, late, bound, handed, queue, sending, subs,
    [s \in Sockets |-> joined[s] = -1], InFlight, sock, ws, timer, manual,
    watermark, fetch, applied, Asked>>
=============================================================================
