----------------------------- MODULE SessionNames -----------------------------
(***************************************************************************)
(* The names of a project's sessions (server/db.py 526-660, server/app.py     *)
(* 1617-1657, server/session_runner.py 555-760): the placeholder a session is   *)
(* created with, the user's renames, and the title a model suggests at the end   *)
(* of a turn.  Every statement is a transaction of its own, and the model takes   *)
(* seconds.                                                                         *)
(***************************************************************************)
EXTENDS Integers, FiniteSets

CONSTANTS
  Named,       \* sessions
  Titles,      \* names that are no placeholders
  MaxRenames,  \* bound: renames by users
  MaxTitling   \* bound: calls for a title of one session at one time

ASSUME NamesAssumption == {MaxRenames, MaxTitling} \subseteq Nat /\ IsFiniteSet(Named)

VARIABLES
  name,      \* of each session, <<text, suffix>>; suffix 0 for none
  asked,     \* of each session, the user's rename under way
  auto,      \* of each session, the automatic rename that has its title
  titling,   \* of each session, the automatic renames waiting for the model
  titled,    \* _AUTO_RENAME_HISTORY
  own,       \* history: sessions whose name the user set
  raced,     \* history: sessions renamed or created while another one was being renamed
  renames

nameVars == <<name, asked, auto, titling, titled, own, raced, renames>>

Placeholder == "Chat"
NoRename  == [at |-> "none", to |-> <<Placeholder, 0>>, first |-> FALSE]
Taken(s)  == {name[t] : t \in {x \in Named : x # s}}
Default(s) == name[s][1] = Placeholder

\* "X", or else the first free one of "X-2", "X-3", ...
FreeName(text, s) ==
  IF <<text, 0>> \notin Taken(s) THEN <<text, 0>>
  ELSE CHOOSE n \in {<<text, k>> : k \in 2 .. Cardinality(Named) + 2} :
         /\ n \notin Taken(s)
         /\ \A k \in 2 .. n[2] - 1 : <<text, k>> \in Taken(s)

NameInit ==
  /\ name \in [Named -> {<<Placeholder, 0>>} \cup (Titles \X {0})]
  /\ own = {s \in Named : ~Default(s)}
  /\ raced = {s \in Named : \E t \in Named : t # s /\ name[t] = name[s]}
  /\ asked = [s \in Named |-> NoRename] /\ auto = asked
  /\ titling = [s \in Named |-> 0] /\ titled = {} /\ renames = 0

Renaming == {s \in Named : asked[s].at # "none" \/ auto[s].at # "none"}

\* History: more than one session is being renamed.
Races(s) == raced' = IF Renaming \subseteq {s} THEN raced ELSE raced \cup Renaming \cup {s}

----------------------------------------------------------------------------
\* PATCH /sessions/{id}: the name as it is, or, if somebody has it, a free one.
AskRename(s) ==
  /\ asked[s].at = "none" /\ renames < MaxRenames /\ renames' = renames + 1
  /\ \E text \in Titles : asked' = [asked EXCEPT ![s] = [at |-> "check", to |-> <<text, 0>>, first |-> TRUE]]
  /\ Races(s)
  /\ UNCHANGED <<name, auto, titling, titled, own>>

\* Mutant: a name that is taken is used all the same.
CheckIgnored(job, s) == IF name[s] = job[s].to THEN "none" ELSE "update"
\* rename_session: the same name, a collision, or free.  A second collision fails.
Check(job, s) ==
  IF name[s] = job[s].to THEN "none"
  ELSE IF job[s].to \notin Taken(s) THEN "update"
  ELSE IF job[s].first THEN "free" ELSE "none"

CheckRename(s) ==
  /\ asked[s].at = "check"
  /\ asked' = [asked EXCEPT ![s].at = Check(asked, s)]
  /\ UNCHANGED <<name, auto, titling, titled, own, raced, renames>>

FindFree(s) ==
  /\ asked[s].at = "free"
  /\ asked' = [asked EXCEPT ![s] = [at |-> "check", to |-> FreeName(asked[s].to[1], s), first |-> FALSE]]
  /\ UNCHANGED <<name, auto, titling, titled, own, raced, renames>>

UpdateName(s) ==
  /\ asked[s].at = "update"
  /\ name' = [name EXCEPT ![s] = asked[s].to] /\ asked' = [asked EXCEPT ![s] = NoRename]
  /\ own' = own \cup {s}
  /\ UNCHANGED <<auto, titling, titled, raced, renames>>

----------------------------------------------------------------------------
\* An automatic rename that has its title runs on the event loop without an await.
LoopFree == \A s \in Named : auto[s].at = "none"

\* _maybe_auto_rename, after a turn: only for a placeholder that has got no title yet. The
\* mark is set at the end, so the next turn's call may come beside it.
AskTitle(s) ==
  /\ LoopFree /\ titling[s] < MaxTitling /\ s \notin titled /\ Default(s)
  /\ titling' = [titling EXCEPT ![s] = @ + 1]
  /\ UNCHANGED <<name, asked, auto, titled, own, raced, renames>>

\* _call_llm_for_title: a title, cleaned; or nothing, after an error, a timeout or a reply
\* that cleans to nothing.
NoTitle     == ""
Suggestions == Titles \cup {NoTitle}

\* Nothing leaves the placeholder for the next turn. Neither the name nor the mark is
\* looked at again.
GetTitle(s) ==
  /\ LoopFree /\ titling[s] > 0
  /\ titling' = [titling EXCEPT ![s] = @ - 1]
  /\ \E text \in Suggestions :
       \/ text = NoTitle /\ UNCHANGED <<auto, raced>>
       \/ /\ text # NoTitle /\ Races(s)
          /\ auto' = [auto EXCEPT ![s] = [at |-> "free", to |-> <<text, 0>>, first |-> FALSE]]
  /\ UNCHANGED <<name, asked, titled, own, renames>>

FindFreeTitle(s) ==
  /\ auto[s].at = "free"
  /\ auto' = [auto EXCEPT ![s].at = "check", ![s].to = FreeName(auto[s].to[1], s)]
  /\ UNCHANGED <<name, asked, titling, titled, own, raced, renames>>

CheckTitle(s) ==
  /\ auto[s].at = "check"
  /\ auto' = [auto EXCEPT ![s].at = Check(auto, s)]
  /\ titled' = IF name[s] = auto[s].to THEN titled \cup {s} ELSE titled
  /\ UNCHANGED <<name, asked, titling, own, raced, renames>>

UpdateTitle(s) ==
  /\ auto[s].at = "update"
  /\ name' = [name EXCEPT ![s] = auto[s].to] /\ auto' = [auto EXCEPT ![s] = NoRename]
  /\ titled' = titled \cup {s}
  /\ UNCHANGED <<asked, titling, own, raced, renames>>

NameNext ==
  \E s \in Named :
    \/ AskRename(s) \/ CheckRename(s) \/ FindFree(s) \/ UpdateName(s)
    \/ AskTitle(s) \/ GetTitle(s) \/ FindFreeTitle(s) \/ CheckTitle(s) \/ UpdateTitle(s)

NameSpec == NameInit /\ [][NameNext]_nameVars

----------------------------------------------------------------------------
\* Types of names and renames.
NameTypeOK ==
  /\ \A s \in Named : name[s][2] # 1 /\ name[s][1] \in Titles \cup {Placeholder}
  /\ titled \subseteq Named /\ renames \in 0 .. MaxRenames
  /\ \A s \in Named : titling[s] \in 0 .. MaxTitling

\* Sessions of a project have different names ("On collision, the new name is
\* auto-suffixed", app.py 1624), unless they were created alike or renamed at one time.
NamesApart ==
  \A s, t \in Named : s # t /\ name[s] = name[t] => s \in raced \/ t \in raced

\* A name the user set stays ("never overwrites a name the user already set",
\* session_runner.py 562).
UserNameKept ==
  [][\A s \in own : name'[s] # name[s] => asked[s].at = "update"]_nameVars
=============================================================================
