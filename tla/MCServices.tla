----------------------------- MODULE MCServices -----------------------------
(***************************************************************************)
(* The services around a turn: sub-agents, model calls, inline reasoning, settings, *)
(* accounts and session names.  They have no variable in common, so a behaviour is one of one   *)
(* part, and the parts that are left out rest in a state they cannot leave.         *)
(***************************************************************************)
EXTENDS Services, TLC, SequencesExt

CONSTANTS pa, pb, ma, mb, r1, r2, t1

VARIABLE part

Catalogue == (pa :> ma) @@ (pb :> mb)

Think == <<"thi", "nk">>

\* Texts of up to three pieces: tags, tags with blanks, what only looks like one, words.
TagPieces ==
  {<<"<", "thi", "nk", ">">>, <<"<", "/", "thi", "nk", ">">>,
   <<"<", " ", "/", " ", "thi", "nk", " ", ">">>, <<"<", "thi", " ", "nk", ">">>,
   <<"<", "thi">>, <<"nk", ">">>, <<" ", "/">>, <<"<">>, <<"x">>}
ShortTexts == {FlattenSeq(p) : p \in UNION {[1 .. n -> TagPieces] : n \in 0 .. 3}}

SubRest ==
  /\ manifest = "failed" /\ worker = "gone" /\ goal = "none" /\ dog = "none"
  /\ result = FALSE /\ exc = FALSE /\ spoiled = FALSE /\ noted = FALSE
  /\ idle = IdleBudget /\ age = TotalBudget

StreamRest ==
  /\ queue = [a \in Attempts |-> <<>>] /\ stop = {1}
  /\ producer = [a \in Attempts |-> IF a = 1 THEN "over" ELSE "none"]
  /\ hold = [a \in Attempts |-> Nothing]
  /\ pulled = [a \in Attempts |-> 0] /\ afterStop = [a \in Attempts |-> 0]
  /\ attempt = 1 /\ consumer = "returned" /\ aggregate = <<>> /\ shown = <<>>

TagRest == TagInit /\ text = <<>>

\* No choice yet, or one; any other is a swap away.
Before == {<<Unset, Unset>>, <<pa, mb>>}
SettingsRest == SettingsInit /\ active = <<Unset, Unset>>
AccountsRest == AccountsInit /\ secret = 0
NamesRest    == NameInit /\ name = [s \in Named |-> <<Placeholder, 0>>]

ServicesInit ==
  /\ part \in {"sub-agents", "calls", "tags", "settings", "accounts", "names"}
  /\ IF part = "sub-agents" THEN SubInit ELSE SubRest
  /\ IF part = "calls" THEN StreamInit ELSE StreamRest
  /\ IF part = "tags" THEN TagInit ELSE TagRest
  /\ IF part = "settings" THEN SettingsInit /\ active \in Before ELSE SettingsRest
  /\ IF part = "accounts" THEN AccountsInit ELSE AccountsRest
  /\ IF part = "names" THEN NameInit ELSE NamesRest

\* Of building a client, looking prices up and counting tokens, one at a time, beside the
\* requests that share state with it: price changes touch no client, and neither they nor
\* credentials touch counters.  A pair of the caller's own is one of two: nothing is read
\* or written differently for another.
Swap(r)  == request[r].scope # Unset /\ request[r].scope[1] = "active"
Price(r) == request[r].at # "idle" /\ request[r].scope = Unset

Apart ==
  /\ build # NoBuild =>
       /\ lookup = NoLookup /\ \A m \in Models : cached[m] = Unread
       /\ \A r \in Requests : ~Price(r)
       /\ build.own => build.want \in {<<Unset, mb>>, <<pb, mb>>}
  /\ \A t \in Chats : turn[t] # NoUse =>
       /\ build = NoBuild /\ lookup = NoLookup /\ \A m \in Models : cached[m] = Unread
       /\ \A r \in Requests : request[r].at = "idle" \/ Swap(r)

ServicesNext ==
  /\ UNCHANGED part
  /\ \/ /\ part = "sub-agents" /\ SubNext
        /\ UNCHANGED <<streamVars, tagVars, settingsVars, accountVars, nameVars>>
     \/ /\ part = "calls" /\ StreamNext
        /\ UNCHANGED <<subVars, tagVars, settingsVars, accountVars, nameVars>>
     \/ /\ part = "tags" /\ TagNext
        /\ UNCHANGED <<subVars, streamVars, settingsVars, accountVars, nameVars>>
     \/ /\ part = "settings" /\ SettingsNext /\ Apart'
        /\ UNCHANGED <<subVars, streamVars, tagVars, accountVars, nameVars>>
     \/ /\ part = "accounts" /\ AccountsNext
        /\ UNCHANGED <<subVars, streamVars, tagVars, settingsVars, nameVars>>
     \/ /\ part = "names" /\ NameNext
        /\ UNCHANGED <<subVars, streamVars, tagVars, settingsVars, accountVars>>

services == <<part, subVars, streamVars, tagVars, settingsVars, accountVars, nameVars>>

OnePart == ServicesInit /\ [][ServicesNext]_services /\ SubFairness /\ StreamFairness
=============================================================================
