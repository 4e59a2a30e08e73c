------------------------------- MODULE EventFeed -------------------------------
(***************************************************************************)
(* What one page sees of a session: the session's bus and table, the       *)
(* sockets of the page, and ChatPage.tsx, which applies live events as     *)
(* they come in and, whenever a socket opens, asks for the events since    *)
(* its watermark and applies those too.                                    *)
(***************************************************************************)
EXTENDS EventStream, SessionBus

CONSTANT FetchMayFail   \* may GET /events fail?

ASSUME FeedAssumption ==
  /\ Clients = Sockets
  /\ FetchMayFail \in BOOLEAN

VARIABLES
  watermark,  \* lastEventTsRef, in seconds
  read,       \* frames of each socket that onmessage has handled
  fetch,      \* the GET /events issued when the socket opened
  applied,    \* history: the events handleEvent was given
  answered    \* history: what was applied already when a GET was issued

pageVars == <<watermark, read, fetch, applied, answered>>
vars == <<streamVars, busVars, pageVars>>

NoFetch == [st |-> "none", since |-> 0, rows |-> {}]
FetchStates == {"none", "asked", "served"}

TypeOK ==
  /\ BusTypeOK
  /\ StreamTypeOK
  /\ watermark \in 0 .. MaxTime
  /\ read \in [Sockets -> Nat]
  /\ fetch \in [Sockets -> [st : FetchStates, since : 0 .. MaxTime, rows : SUBSET Row]]
  /\ applied \subseteq Events
  /\ answered \in [Sockets -> SUBSET Events]

\* The page has loaded the history, which is one event old, and connects.
Init ==
  /\ BusInit
  /\ StreamInit
  /\ watermark = 1
  /\ read = [s \in Sockets |-> 0]
  /\ fetch = [s \in Sockets |-> NoFetch]
  /\ applied = {}
  /\ answered = [s \in Sockets |-> {}]

Later(sec) == IF sec > watermark THEN sec ELSE watermark

-----------------------------------------------------------------------------
(* Sockets, seen from both ends.                                           *)

\* onopen: the token is sent and, in onStatus("open"), the gap is asked for.
PageOpens(s) ==
  /\ Opens(s)
  /\ IF watermark > 0
     THEN /\ fetch' = [fetch EXCEPT ![s] = [st |-> "asked", since |-> watermark,
                                            rows |-> {}]]
          /\ answered' = [answered EXCEPT ![s] = applied]
     ELSE UNCHANGED <<fetch, answered>>
  /\ UNCHANGED <<busVars, watermark, read, applied>>

\* The server reads the token some time after the page has sent it, also when
\* the page has gone by then.
ServerSubscribes(s) ==
  /\ sock[s] \in {"open", "closing", "closed"}
  /\ Subscribe(s)
  /\ UNCHANGED <<streamVars, pageVars>>

\* send_text returns, also when it only filled the buffers of a connection whose page
\* has gone; only an open page reads what was sent.
ServerSends(s) ==
  /\ FanoutSend(s)
  /\ UNCHANGED <<streamVars, pageVars>>

\* The server finds the connection broken, in send_text or in the handler that reads
\* from it, at its own time: before or after the page does.
ServerNotices(s) ==
  /\ Unsubscribe(s) \/ FanoutFails(s)
  /\ UNCHANGED <<streamVars, pageVars>>

-----------------------------------------------------------------------------
(* ChatPage.tsx.                                                           *)

\* Mutant: live events do not move the watermark.
MessageUnmarked(s) ==
  /\ sock[s] = "open"
  /\ read[s] < Len(got[s])
  /\ read' = [read EXCEPT ![s] = @ + 1]
  /\ LET f == got[s][read[s] + 1]
     IN  applied' = applied \cup ({f.ev} \cap Events)
  /\ UNCHANGED <<streamVars, busVars, watermark, fetch, answered>>

\* onmessage: the watermark moves on, handleEvent(ev). (The boundSid guard
\* compares a constant with itself.)
Message(s) ==
  /\ sock[s] = "open"
  /\ read[s] < Len(got[s])
  /\ read' = [read EXCEPT ![s] = @ + 1]
  /\ LET f == got[s][read[s] + 1]
     IN  /\ watermark' = Later(f.sec)
         /\ applied' = applied \cup ({f.ev} \cap Events)
  /\ UNCHANGED <<streamVars, busVars, fetch, answered>>

\* list_events(since): rows of a later second.
Serve(s) ==
  /\ fetch[s].st = "asked"
  /\ fetch' = [fetch EXCEPT ![s].st = "served",
                            ![s].rows = {r \in table : r.at > fetch[s].since}]
  /\ UNCHANGED <<streamVars, busVars, watermark, read, applied, answered>>

\* The answer arrives: each row is applied like a live event, and moves the
\* watermark if it is newer.
CatchUp(s) ==
  /\ fetch[s].st = "served"
  /\ LET seen == {watermark} \cup {r.at : r \in fetch[s].rows}
     IN  watermark' \in seen /\ \A at \in seen : at <= watermark'
  /\ applied' = applied \cup ({r.ev : r \in fetch[s].rows} \ {Greeting})
  /\ fetch' = [fetch EXCEPT ![s] = NoFetch]
  /\ UNCHANGED <<streamVars, busVars, read, answered>>

\* "best-effort - next reconnect will retry"
FetchFails(s) ==
  /\ FetchMayFail
  /\ fetch[s].st = "asked"
  /\ fetch' = [fetch EXCEPT ![s] = NoFetch]
  /\ UNCHANGED <<streamVars, busVars, watermark, read, applied, answered>>

-----------------------------------------------------------------------------
BusMoves == (BusStep \/ Tick) /\ UNCHANGED <<streamVars, pageVars>>

StreamMoves ==
  /\ Fires \/ BecomesVisible \/ Close \/ \E s \in Sockets : Closes(s)
  /\ UNCHANGED <<busVars, pageVars>>

PageMoves(s) ==
  \/ PageOpens(s) \/ ServerSubscribes(s) \/ ServerSends(s)
  \/ ServerNotices(s)
  \/ Message(s) \/ Serve(s) \/ CatchUp(s) \/ FetchFails(s)

Next == BusMoves \/ StreamMoves \/ \E s \in Sockets : PageMoves(s)

Spec == Init /\ [][Next]_vars

-----------------------------------------------------------------------------
\* A GET issued after an event was applied brings that event again only if it
\* was stamped in one second and stored in the next ("Math.floor ensures we
\* don't accidentally request the same event again").
AskedOnce ==
  \A s \in Sockets :
    fetch[s].st = "served" =>
      \A r \in fetch[s].rows : r.ev \in answered[s] => r.ev \in late

-----------------------------------------------------------------------------
(* What the comments promise and the code does not keep.                   *)

\* Nothing is on its way to the page, which has an open, subscribed socket.
Quiet ==
  /\ \A p \in Publishers : holding[p] = None
  /\ handed = <<>> /\ queue = <<>> /\ sending.to = {}
  /\ \E s \in Sockets : sock[s] = "open" /\ s \in subs
  /\ \A s \in Sockets : /\ fetch[s].st = "none"
                        /\ sock[s] = "open" => read[s] = Len(got[s])

\* "a reconnect with ?since=<ts> will replay the gap" (SessionBus), "this query
\* returns only the gap" (ChatPage): when all is quiet, every stored event has
\* been applied.
GapReplayed ==
  Quiet => \A r \in table : r.ev # Greeting => r.ev \in applied

\* "so they can't bleed into the NEW session's state" (ChatPage): a page that has
\* left the session applies none of its events.
NoBleed == [][manual => applied' = applied]_vars
=============================================================================
