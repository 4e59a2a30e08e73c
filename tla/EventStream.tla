------------------------------ MODULE EventStream ------------------------------
(***************************************************************************)
(* openEventStream of web/src/lib/ws.ts: the sockets one page opens to the *)
(* stream endpoint, one after another and, when the page becomes visible   *)
(* at the wrong moment, side by side. Callbacks run to completion in the   *)
(* page's one thread.                                                      *)
(***************************************************************************)
EXTENDS Naturals

CONSTANTS
  NumSockets,  \* bound: sockets the page opens
  Initial,     \* BACKOFF_INITIAL_MS
  Cap          \* BACKOFF_CAP_MS

ASSUME StreamAssumption ==
  /\ NumSockets \in Nat \ {0}
  /\ Initial \in Nat \ {0} /\ Cap \in Nat /\ Initial <= Cap

Sockets  == 1 .. NumSockets
NoSocket == 0

VARIABLES
  sock,     \* each socket; "closing" is after close() and before onclose
  ws,       \* the variable of that name: the socket opened last, or null
  backoff,  \* backoffMs
  timer,    \* reconnectTimer is set
  manual    \* manualClose

streamVars == <<sock, ws, backoff, timer, manual>>

SocketStates == {"unused", "connecting", "open", "closing", "closed"}

StreamTypeOK ==
  /\ sock \in [Sockets -> SocketStates]
  /\ ws \in Sockets \cup {NoSocket}
  /\ backoff \in Initial .. Cap
  /\ timer \in BOOLEAN
  /\ manual \in BOOLEAN

\* openEventStream calls connect() once.
StreamInit ==
  /\ sock = [s \in Sockets |-> IF s = 1 THEN "connecting" ELSE "unused"]
  /\ ws = 1
  /\ backoff = Initial
  /\ timer = FALSE
  /\ manual = FALSE

\* connect(): the sockets are numbered in the order they are opened.
Connect ==
  \E s \in Sockets :
    /\ sock[s] = "unused"
    /\ \A r \in Sockets : r < s => sock[r] # "unused"
    /\ sock' = [sock EXCEPT ![s] = "connecting"]
    /\ ws' = s

\* onopen of socket s, whichever socket `ws` names.
Opens(s) ==
  /\ sock[s] = "connecting"
  /\ sock' = [sock EXCEPT ![s] = "open"]
  /\ backoff' = Initial
  /\ UNCHANGED <<ws, timer, manual>>

Doubled == IF backoff * 2 < Cap THEN backoff * 2 ELSE Cap

\* Mutant: the cap is applied before doubling.
ClosesUncapped(s) ==
  /\ sock[s] \in {"connecting", "open", "closing"}
  /\ sock' = [sock EXCEPT ![s] = "closed"]
  /\ ws' = NoSocket
  /\ IF manual
     THEN UNCHANGED <<backoff, timer>>
     ELSE backoff' = 2 * backoff /\ timer' = TRUE
  /\ UNCHANGED manual

\* Mutant: a socket that was never open is not tried again.
ClosesOnlyOpened(s) ==
  /\ sock[s] \in {"connecting", "open", "closing"}
  /\ sock' = [sock EXCEPT ![s] = "closed"]
  /\ ws' = NoSocket
  /\ IF manual \/ sock[s] = "connecting"
     THEN UNCHANGED <<backoff, timer>>
     ELSE backoff' = Doubled /\ timer' = TRUE
  /\ UNCHANGED manual

\* onclose of socket s: network failure, rejected handshake, or close().
Closes(s) ==
  /\ sock[s] \in {"connecting", "open", "closing"}
  /\ sock' = [sock EXCEPT ![s] = "closed"]
  /\ ws' = NoSocket
  /\ IF manual
     THEN UNCHANGED <<backoff, timer>>
     ELSE backoff' = Doubled /\ timer' = TRUE
  /\ UNCHANGED manual

\* The reconnect timer fires.
Fires ==
  /\ timer
  /\ timer' = FALSE
  /\ IF manual THEN UNCHANGED <<sock, ws>> ELSE Connect
  /\ UNCHANGED <<backoff, manual>>

\* visibilitychange to visible, unless `ws` is open.
BecomesVisible ==
  /\ ~manual
  /\ ~(ws # NoSocket /\ sock[ws] = "open")
  /\ timer' = FALSE
  /\ backoff' = Initial
  /\ Connect
  /\ UNCHANGED manual

\* close() of the handle: the page leaves the session. `ws?.close()`.
Close ==
  /\ ~manual
  /\ manual' = TRUE
  /\ timer' = FALSE
  /\ sock' = IF ws # NoSocket THEN [sock EXCEPT ![ws] = "closing"] ELSE sock
  /\ UNCHANGED <<ws, backoff>>

-----------------------------------------------------------------------------
\* The page is never without a socket or a plan to open one: until it leaves, one
\* of its sockets is on its way or open, or the timer runs.
AlwaysTrying ==
  manual \/ timer \/ \E s \in Sockets : sock[s] \in {"connecting", "open"}

\* Once the page has left, no socket is opened any more, whatever timers, hidden
\* sockets and callbacks are still around.
OpensNoneAfterClose == manual => \A s \in Sockets : sock[s] = "unused" => sock'[s] = "unused"
NothingAfterClose   == [][OpensNoneAfterClose]_streamVars

\* What openEventStream promises its page: sockets or a plan for one after every step
\* until it leaves, and no new ones then.
PageServed == [][AlwaysTrying' /\ OpensNoneAfterClose]_streamVars
=============================================================================
