------------------------------ MODULE Processes ------------------------------
(***************************************************************************)
(* Processes that agents start in the background (tools/bash.py 463-489),    *)
(* the table session_processes, and the ways to stop them again              *)
(* (tools/process_mgmt.py, server/app.py 5609-5635): StopProcess by port or   *)
(* by pid, everything at the end of a turn, one by the administrator.          *)
(*                                                                          *)
(* Rows name processes by pid.  A wrapper shell is a child of the server and   *)
(* keeps its pid until the server starts another process; any other pid is    *)
(* free, and may be given out again, when its process ends.                    *)
(***************************************************************************)
EXTENDS Integers, FiniteSets

CONSTANTS
  Agents,         \* sessions
  Pids, Nobody,
  Proxy,          \* owner of the protected processes: the server's, caddy's
  Server, Init1,  \* parents outside Pids: the server, and pid 1
  MaxStarts,      \* processes that are started
  MaxStops        \* calls that stop processes

ASSUME ProcessAssumption ==
  /\ {MaxStarts, MaxStops} \subseteq Nat
  /\ Nobody \notin Agents \cup Pids \cup {Proxy} /\ Proxy \notin Agents /\ {Server, Init1} \cap Pids = {}

VARIABLES
  proc,       \* the operating system's processes
  rows,       \* session_processes: the session that registered a pid
  fresh,      \* wrappers whose row is not written yet
  protected,  \* _PROTECTED_PIDS, filled at its first use
  stop,       \* of each session, the call that stops processes
  uses,       \* history: how often a pid was given out
  stops       \* calls so far

processVars == <<proc, rows, fresh, protected, stop, uses, stops>>

NoProcess == [of |-> Nobody, parent |-> Init1, zombie |-> FALSE, listens |-> FALSE]
NoStop    == [kind |-> "none", at |-> "none", pid |-> Init1, reg |-> {}, roots |-> {}, via |-> {},
              kill |-> {}, disturbed |-> FALSE]
Unknown   == {Nobody}

ProcessInit ==
  /\ \E p \in Pids : proc = [q \in Pids |-> IF q = p THEN [NoProcess EXCEPT !.of = Proxy] ELSE NoProcess]
  /\ rows = [p \in Pids |-> Nobody] /\ fresh = {}
  /\ protected = Unknown
  /\ stop = [s \in Agents |-> NoStop]
  /\ uses = [p \in Pids |-> IF proc[p].of = Proxy THEN 1 ELSE 0] /\ stops = 0

Runs(p)       == proc[p].of # Nobody /\ ~proc[p].zombie
Registered(s) == {p \in Pids : rows[p] = s}
Started       == MaxStarts > Cardinality({p \in Pids : uses[p] > 0})
                              + Cardinality({p \in Pids : uses[p] > 1})

\* roots and everything that ps shows below them: what is in every set that has the roots
\* and its members' children.
Whole(tree)  == \A p \in Pids : proc[p].parent \in tree => p \in tree
Tree(roots) ==
  roots \cup {p \in Pids : \A tree \in SUBSET Pids : roots \subseteq tree /\ Whole(tree) => p \in tree}

\* When processes end, wrappers stay as zombies of the server; orphans go to pid 1.
Ended(dead) ==
  [p \in Pids |->
     IF p \in dead /\ proc[p].parent = Server THEN [proc[p] EXCEPT !.zombie = TRUE, !.listens = FALSE]
     ELSE IF p \in dead THEN NoProcess
     ELSE IF proc[p].parent \in dead THEN [proc[p] EXCEPT !.parent = Init1] ELSE proc[p]]

\* Starting a process, ps and lsof included, collects the zombies nobody holds any more.
Collected == [p \in Pids |-> IF proc[p].zombie /\ p \notin fresh THEN NoProcess ELSE proc[p]]

\* History: something befalls processes of session s, or the processes `dead` end,
\* while s stops everything; `by` is whose call it is.
Disturb(s) == stop' = [stop EXCEPT ![s].disturbed = @ \/ stop[s] # NoStop]
Hit(calls, by, dead) ==
  [s \in Agents |-> IF s # by /\ stop[s] # NoStop /\ \E p \in dead : proc[p].of = s
                    THEN [calls[s] EXCEPT !.disturbed = TRUE] ELSE calls[s]]
GivenOut(p) == uses' = [uses EXCEPT ![p] = @ + 1]

----------------------------------------------------------------------------
\* bash(run_in_background): the wrapper, and then its row, if the database takes it.
Spawn(s, p) ==
  /\ Started /\ uses[p] < 2 /\ Collected[p] = NoProcess
  /\ proc' = [Collected EXCEPT ![p] = [NoProcess EXCEPT !.of = s, !.parent = Server]]
  /\ fresh' = fresh \cup {p} /\ GivenOut(p) /\ Disturb(s)
  /\ UNCHANGED <<rows, protected, stops>>

Register(p) ==
  /\ p \in fresh /\ fresh' = fresh \ {p}
  /\ \E row \in {proc[p].of, rows[p]} : rows' = [rows EXCEPT ![p] = row]
  /\ Disturb(proc[p].of)
  /\ UNCHANGED <<proc, protected, uses, stops>>

\* A process starts another one, which may be what listens on the port.
Fork(p, q) ==
  /\ Started /\ uses[q] < 2 /\ Runs(p) /\ proc[p].of \in Agents /\ proc[q] = NoProcess
  /\ \E listens \in BOOLEAN :
       proc' = [proc EXCEPT ![q] = [of |-> proc[p].of, parent |-> p, zombie |-> FALSE, listens |-> listens]]
  /\ GivenOut(q) /\ Disturb(proc[p].of)
  /\ UNCHANGED <<rows, fresh, protected, stops>>

\* A service outside the sessions starts, or the proxy does again.
ServiceUp(q) ==
  /\ Started /\ uses[q] < 2 /\ proc[q] = NoProcess
  /\ proc' = [proc EXCEPT ![q] = [NoProcess EXCEPT !.of = Proxy]]
  /\ GivenOut(q)
  /\ UNCHANGED <<rows, fresh, protected, stop, stops>>

\* A wrapper may end before its row is written.
Exit(p) ==
  /\ Runs(p)
  /\ proc' = Ended({p}) /\ stop' = Hit(stop, Nobody, {p})
  /\ UNCHANGED <<rows, fresh, protected, uses, stops>>

----------------------------------------------------------------------------
\* Calls.  What is protected is found out once.
Protect == protected' = IF protected = Unknown
                        THEN {p \in Pids : proc[p].of = Proxy} ELSE protected
Asks(s, call) ==
  /\ stop[s] = NoStop /\ stops < MaxStops /\ stops' = stops + 1
  /\ stop' = [stop EXCEPT ![s] = call]
  /\ UNCHANGED <<proc, rows, fresh, uses>>

\* stop_all_session_processes, at the end of a turn.
StopAll(s) ==
  /\ Registered(s) # {}
  /\ Asks(s, [NoStop EXCEPT !.kind = "all", !.at = "tree", !.reg = Registered(s), !.roots = Registered(s),
                !.via = Registered(s),
                !.disturbed = \E p \in Pids : Runs(p) /\ proc[p].of = s /\ p \notin Tree(Registered(s))])
  /\ Protect

\* stop_process(port) and stop_process(pid); anything but a protected pid may be named.
StopPort(s) ==
  /\ Asks(s, [NoStop EXCEPT !.kind = "port", !.at = "owned", !.reg = Registered(s)])
  /\ Protect

StopPid(s, p) ==
  /\ Protect /\ p \notin protected'
  /\ Asks(s, [NoStop EXCEPT !.kind = "pid", !.at = "owned", !.pid = p, !.reg = Registered(s)])

\* A call that has nothing to do, or refuses.
Refused(s) == stop' = [stop EXCEPT ![s] = NoStop]
\* "via" is history: all pids that have led the call on.
To(s, step, roots) ==
  stop' = [stop EXCEPT ![s].at = step, ![s].roots = roots, ![s].via = stop[s].via \cup roots]

\* ps may fail, and then shows nobody.
Shown(roots) == {Tree(roots), roots}

\* _owned_pids
FindOwned(s) ==
  /\ stop[s].at = "owned"
  /\ \E owned \in Shown(stop[s].reg) :
       IF stop[s].kind = "port" THEN To(s, "listeners", owned)
       ELSE IF stop[s].pid \in owned THEN To(s, "tree", {stop[s].pid}) ELSE Refused(s)
  /\ proc' = Collected
  /\ UNCHANGED <<rows, fresh, protected, uses, stops>>

\* Mutant: whoever listens is stopped.
AnyListener(s) == {p \in Pids : proc[p].listens}
\* Whoever listens, and is owned or has an owned ancestor.
Listeners(s) ==
  LET all == {p \in Pids : proc[p].listens}
      ours == all \cap stop[s].roots
  IN  IF ours # {} THEN ours ELSE all \cap Tree(stop[s].roots)

FindListeners(s) ==
  /\ stop[s].at = "listeners"
  /\ IF Listeners(s) = {} THEN Refused(s)
     ELSE To(s, "tree", Listeners(s))
  /\ proc' = Collected
  /\ UNCHANGED <<rows, fresh, protected, uses, stops>>

\* Mutant: the descendants are forgotten.
FindRoots(s) ==
  /\ stop[s].at = "tree"
  /\ stop' = [stop EXCEPT ![s].at = "term", ![s].kill = stop[s].roots \ protected]
  /\ proc' = Collected
  /\ UNCHANGED <<rows, fresh, protected, uses, stops>>

\* The pids to signal, with their descendants.
FindTree(s) ==
  /\ stop[s].at = "tree"
  /\ \E all \in Shown(stop[s].roots) :
       stop' = [stop EXCEPT ![s].at = "term", ![s].kill = all \ protected,
                            ![s].disturbed = @ \/ all # Tree(stop[s].roots)]
  /\ proc' = Collected
  /\ UNCHANGED <<rows, fresh, protected, uses, stops>>

\* SIGTERM: a process may take its time or ignore it.
Terminate(s) ==
  /\ stop[s].at = "term"
  /\ \E dead \in SUBSET {p \in stop[s].kill : Runs(p)} :
       proc' = Ended(dead) /\ stop' = Hit([stop EXCEPT ![s].at = "kill"], s, dead)
  /\ UNCHANGED <<rows, fresh, protected, uses, stops>>

\* Two seconds later SIGKILL to whoever has the pids by then.
Kill(s) ==
  /\ stop[s].at = "kill"
  /\ LET dead == {p \in stop[s].kill : Runs(p)} IN
     proc' = Ended(dead) /\ stop' = Hit([stop EXCEPT ![s].at = "rows"], s, dead)
  /\ UNCHANGED <<rows, fresh, protected, uses, stops>>

Unregister(s) ==
  LET gone == IF stop[s].kind = "all" THEN stop[s].reg ELSE stop[s].kill IN
  /\ stop[s].at = "rows"
  /\ rows' = [p \in Pids |-> IF p \in gone THEN Nobody ELSE rows[p]]
  /\ Refused(s)
  /\ UNCHANGED <<proc, fresh, protected, uses, stops>>

\* DELETE /admin/processes/{pid}: one SIGTERM, and the row goes whatever comes of it.
AdminKill(p) ==
  /\ rows[p] # Nobody /\ proc[p].of # Proxy /\ stops < MaxStops /\ stops' = stops + 1
  /\ \E dead \in SUBSET ({p} \cap {q \in Pids : Runs(q)}) :
       proc' = Ended(dead) /\ stop' = Hit(stop, Nobody, dead)
  /\ rows' = [rows EXCEPT ![p] = Nobody]
  /\ UNCHANGED <<fresh, protected, uses>>

StopStep(s) ==
  \/ StopAll(s) \/ StopPort(s) \/ (\E p \in Pids : StopPid(s, p))
  \/ FindOwned(s) \/ FindListeners(s) \/ FindTree(s) \/ Terminate(s) \/ Kill(s) \/ Unregister(s)

ProcessNext ==
  \/ \E s \in Agents : StopStep(s) \/ \E p \in Pids : Spawn(s, p)
  \/ \E p \in Pids : Register(p) \/ Exit(p) \/ ServiceUp(p) \/ AdminKill(p)
  \/ \E p, q \in Pids : Fork(p, q)

ProcessSpec == ProcessInit /\ [][ProcessNext]_processVars

----------------------------------------------------------------------------
\* Types of the process tables.
ProcessTypeOK ==
  /\ \A p \in Pids : /\ proc[p].of \in Agents \cup {Nobody, Proxy}
                     /\ proc[p].parent \in Pids \cup {Server, Init1}
                     /\ proc[p].zombie => proc[p].parent = Server
  /\ rows \in [Pids -> Agents \cup {Nobody}] /\ fresh \subseteq Pids
  /\ \A s \in Agents : stop[s].reg \cup stop[s].roots \cup stop[s].via \cup stop[s].kill \subseteq Pids

\* A stop call of a session signals processes that the session started, and never the
\* proxy or another session's, unless one of the pids, or one of those that led to them,
\* was given out twice ("Refuses protected ports/pids and anything this session didn't
\* spawn", process_mgmt.py 224).
OnlyOwnStopped ==
  [][\A s \in Agents :
       stop[s].at \in {"term", "kill"} /\ stop'[s].at # stop[s].at
       => \/ \A p \in stop[s].kill : Runs(p) => proc[p].of = s
          \/ \E p \in stop[s].reg \cup stop[s].via \cup stop[s].kill : uses[p] > 1]_processVars

\* Nothing of a session runs when the clean-up at the end of its turn returns ("Leaving a
\* dev server running leaks its port", session_runner.py 392), if nothing was orphaned
\* before, nothing started or ended meanwhile, ps worked, and no pid is taken for the
\* proxy's.
TurnEndClean ==
  [][\A s \in Agents :
       stop[s].kind = "all" /\ stop[s].at = "rows" /\ stop'[s] = NoStop /\ ~stop[s].disturbed
       => \A p \in Pids : Runs(p) /\ proc[p].of = s => p \in protected]_processVars
=============================================================================
