------------------------------- MODULE Settings -------------------------------
(***************************************************************************)
(* The choice of provider and model, credentials and prices                   *)
(* (server/app.py 5868-6148, agents/provider_config.py, agents/nodes.py        *)
(* 80-258, memory/token_counter.py).  The choice lives twice: in rows of        *)
(* app_settings, which every client is built from, and in globals of            *)
(* agents/nodes, which sub-agents, prompts and cost counters read.  Rows are      *)
(* read and written one by one, requests run in threads of their own, and         *)
(* agents build clients, look prices up and count tokens meanwhile.                 *)
(***************************************************************************)
EXTENDS Integers

CONSTANTS
  Providers, Models, Unset,
  Requests,                     \* the administrators' requests
  Chats,                        \* sessions
  DefaultModel,                 \* of each provider, in the catalogue
  FallbackProvider,             \* load_active_provider_config without rows
  ConfigProvider, ConfigModel,  \* what load_config found
  MaxUses                      \* bound: calls recorded for a session, all turns together

ASSUME SettingsAssumption ==
  /\ DefaultModel \in [Providers -> Models] /\ FallbackProvider \in Providers
  /\ ConfigProvider \in Providers /\ ConfigModel \in Models
  /\ MaxUses \in Nat /\ Unset \notin Providers \cup Models \cup Requests
  /\ Unset \notin [model : Models, tokens : Nat] /\ "active" \notin Providers

VARIABLES
  active,     \* rows active_provider and active_model
  keys, urls, \* rows api_key and base_url of each provider: the request that wrote them
  globals,    \* _provider and _model
  request,    \* of each request: its next step and its object
  build,      \* the client an agent is building
  price,      \* rows of model_pricing: the request that wrote them
  cached,     \* _db_price_cache; Unset stands for False
  lookup,     \* a price lookup under way
  counter,    \* _token_counters
  turn,       \* of each session: its turn's totals before, its calls, what the summary shows,
              \* and the worker that a cancelled turn left behind
  torn,       \* history: settings left by requests that overlapped
  chosen,     \* history: the pair of the last swap that ended
  poisoned    \* history: models whose old price was cached after it had changed

choiceVars   == <<active, keys, urls, globals, torn, chosen>>
priceVars    == <<price, cached, lookup, poisoned>>
usageVars    == <<counter, turn>>
settingsVars == <<choiceVars, request, build, priceVars, usageVars>>

Unread   == "unread"
Asleep   == [at |-> "idle", scope |-> Unset, model |-> Unset, alone |-> TRUE]
NoBuild  == [at |-> "none", want |-> <<Unset, Unset>>, own |-> FALSE, provider |-> Unset,
             model |-> Unset, key |-> Unset, url |-> Unset, disturbed |-> FALSE, failed |-> FALSE]
NoLookup == [at |-> "none", model |-> Unset, found |-> Unset, late |-> FALSE]
NoUse    == [on |-> FALSE, before |-> 0, used |-> 0, shown |-> 0, swapped |-> FALSE,
             others |-> 0, stray |-> "none", made |-> 0]

ReadProvider == IF active[1] = Unset THEN FallbackProvider ELSE active[1]
ReadModel(p) == IF active[2] = Unset THEN DefaultModel[p] ELSE active[2]

\* Boot: what load_config found, unless the table knows better.
SettingsInit ==
  /\ \/ active = <<Unset, Unset>> /\ globals = <<ConfigProvider, ConfigModel>>
     \/ active \in Providers \X Models /\ globals = active
  /\ chosen = <<ReadProvider, ReadModel(ReadProvider)>> /\ torn = {}
  /\ keys = [p \in Providers |-> Unset] /\ urls = keys
  /\ request = [r \in Requests |-> Asleep] /\ build = NoBuild
  /\ price = [m \in Models |-> Unset] /\ poisoned = {}
  /\ cached = [m \in Models |-> Unread] /\ lookup = NoLookup
  /\ counter = [t \in Chats |-> Unset] /\ turn = [t \in Chats |-> NoUse]

----------------------------------------------------------------------------
\* A request with several writes begins; "active" is the scope of a swap, a provider
\* that of its credentials.
Writing(r)  == request[r].at \in {"provider", "model", "globals", "counters", "key", "url"}
InScope(s)  == {r \in Requests : Writing(r) /\ request[r].scope[1] = s[1]}
Steps(r, step) == request' = [request EXCEPT ![r].at = step]

Opens(r, step, scope, m) ==
  /\ request[r] = Asleep
  /\ request' = [x \in Requests |->
       IF x = r THEN [at |-> step, scope |-> scope, model |-> m, alone |-> InScope(scope) = {}]
       ELSE IF x \in InScope(scope) THEN [request[x] EXCEPT !.alone = FALSE] ELSE request[x]]
  /\ torn' = IF InScope(scope) = {} THEN torn ELSE torn \cup {scope[1]}
  /\ build' = [build EXCEPT !.disturbed = TRUE]

Closes(r) ==
  /\ Steps(r, "done")
  /\ torn' = IF request[r].alone THEN torn \ {request[r].scope[1]} ELSE torn

\* PATCH /admin/providers/active: two rows, the globals, the counters.
AskSwap(r, p, m) ==
  /\ Opens(r, "provider", <<"active", p>>, m)
  /\ UNCHANGED <<active, keys, urls, globals, chosen, priceVars, usageVars>>

WriteProvider(r) ==
  /\ request[r].at = "provider" /\ active' = <<request[r].scope[2], active[2]>> /\ Steps(r, "model")
  /\ UNCHANGED <<keys, urls, globals, torn, chosen, build, priceVars, usageVars>>

WriteModel(r) ==
  /\ request[r].at = "model" /\ active' = <<active[1], request[r].model>> /\ Steps(r, "globals")
  /\ UNCHANGED <<keys, urls, globals, torn, chosen, build, priceVars, usageVars>>

\* Mutant: the model stays what it was.
ConfigureProviderOnly(r) ==
  /\ request[r].at = "globals" /\ globals' = <<request[r].scope[2], globals[2]>> /\ Steps(r, "counters")
  /\ UNCHANGED <<active, keys, urls, torn, chosen, build, priceVars, usageVars>>

\* configure_model
Configure(r) ==
  /\ request[r].at = "globals" /\ globals' = <<request[r].scope[2], request[r].model>> /\ Steps(r, "counters")
  /\ UNCHANGED <<active, keys, urls, torn, chosen, build, priceVars, usageVars>>

ClearCounters(r) ==
  /\ request[r].at = "counters" /\ Closes(r)
  /\ chosen' = <<request[r].scope[2], request[r].model>>
  /\ counter' = [t \in Chats |-> Unset]
  /\ turn' = [t \in Chats |->
       [turn[t] EXCEPT !.swapped = @ \/ turn[t].on, !.stray = IF @ = "works" THEN "late" ELSE @]]
  /\ UNCHANGED <<active, keys, urls, globals, build, priceVars>>

\* PUT and DELETE .../key: the key, then the base URL.
AskKey(r, p) ==
  /\ Opens(r, "key", <<p, p>>, Unset)
  /\ UNCHANGED <<active, keys, urls, globals, chosen, priceVars, usageVars>>

WriteKey(r) ==
  /\ request[r].at = "key"
  /\ keys' = [keys EXCEPT ![request[r].scope[2]] = r] /\ Steps(r, "url")
  /\ UNCHANGED <<active, urls, globals, torn, chosen, build, priceVars, usageVars>>

WriteUrl(r) ==
  /\ request[r].at = "url"
  /\ urls' = [urls EXCEPT ![request[r].scope[2]] = r] /\ Closes(r)
  /\ UNCHANGED <<active, keys, globals, chosen, build, priceVars, usageVars>>

----------------------------------------------------------------------------
\* _get_llm, for an agent; for a sub-agent, which takes the globals' model when it is
\* spawned unless its kind names one; or to test a pair: four reads, and what the caller
\* asked for before what was read.
Inherits == {[want |-> <<Unset, m>>, own |-> FALSE] : m \in {Unset, globals[2]}}
Asked    == Inherits \cup [want : (Providers \cup {Unset}) \X Models, own : {TRUE}]

AskClient ==
  /\ build.at = "none"
  /\ \E asked \in Asked :
       build' = [NoBuild EXCEPT !.at = "provider", !.want = asked.want, !.own = asked.own,
                                !.disturbed = torn # {} \/ \E r \in Requests : Writing(r)]
  /\ UNCHANGED <<choiceVars, request, priceVars, usageVars>>

\* A row that cannot be read counts as missing.
Reads(at, step, field, value, default) ==
  /\ build.at = at
  /\ \E down \in BOOLEAN :
       build' = [build EXCEPT !.at = step, ![field] = IF down THEN default ELSE value,
                              !.failed = @ \/ down]
  /\ UNCHANGED <<choiceVars, request, priceVars, usageVars>>

LoadProvider == Reads("provider", "model", "provider", ReadProvider, FallbackProvider)
LoadModel    == Reads("model", "key", "model", ReadModel(build.provider), DefaultModel[build.provider])
LoadKey      == Reads("key", "url", "key", keys[build.provider], Unset)
LoadUrl      == Reads("url", "client", "url", urls[build.provider], Unset)

\* eff_provider and eff_model of the client.
EffProvider == IF build.want[1] = Unset THEN build.provider ELSE build.want[1]
EffModel    == IF build.want[2] = Unset THEN build.model ELSE build.want[2]

UseClient ==
  /\ build.at = "client" /\ build' = NoBuild
  /\ UNCHANGED <<choiceVars, request, priceVars, usageVars>>

----------------------------------------------------------------------------
\* PUT and DELETE /admin/pricing: the row, then the cache, all of it.
WritePrice(r, m) ==
  /\ request[r] = Asleep
  /\ request' = [request EXCEPT ![r].at = "invalidate", ![r].model = m]
  /\ \E row \in {r, Unset} \ {price[m]} : price' = [price EXCEPT ![m] = row]
  /\ lookup' = [lookup EXCEPT !.late = @ \/ lookup.model = m]
  /\ UNCHANGED <<choiceVars, build, cached, poisoned, usageVars>>

\* Mutant: a model without a row is never looked up again.
KeepsMisses(r) ==
  /\ request[r].at = "invalidate" /\ Steps(r, "done")
  /\ cached' = [m \in Models |-> IF cached[m] = Unset THEN Unset ELSE Unread] /\ poisoned' = {}
  /\ UNCHANGED <<choiceVars, build, price, lookup, usageVars>>

Invalidate(r) ==
  /\ request[r].at = "invalidate" /\ Steps(r, "done")
  /\ cached' = [m \in Models |-> Unread] /\ poisoned' = {}
  /\ UNCHANGED <<choiceVars, build, price, lookup, usageVars>>

\* _db_override_lookup, by cost() or the price list: cache, row, cache.
LookUp(m) ==
  /\ lookup.at = "none" /\ cached[m] = Unread
  /\ lookup' = [at |-> "read", model |-> m, found |-> price[m], late |-> FALSE]
  /\ UNCHANGED <<choiceVars, request, build, price, cached, poisoned, usageVars>>

Remember ==
  /\ lookup.at = "read" /\ lookup' = NoLookup
  /\ cached' = [cached EXCEPT ![lookup.model] = lookup.found]
  /\ poisoned' = IF lookup.late THEN poisoned \cup {lookup.model} ELSE poisoned
  /\ UNCHANGED <<choiceVars, request, build, price, usageVars>>

----------------------------------------------------------------------------
\* get_token_counter: a counter is made for the model of the moment.
Counter(t) == IF counter[t] = Unset THEN [model |-> globals[2], tokens |-> 0] ELSE counter[t]

Counts(t) == [Counter(t) EXCEPT !.tokens = @ + 1]

BeginUse(t) ==
  /\ ~turn[t].on
  /\ counter' = [counter EXCEPT ![t] = Counter(t)]
  /\ turn' = [turn EXCEPT ![t] = [NoUse EXCEPT !.on = TRUE, !.before = Counter(t).tokens,
                                               !.stray = turn[t].stray, !.made = turn[t].made]]
  /\ UNCHANGED <<choiceVars, request, build, priceVars>>

Record(t) ==
  /\ turn[t].on /\ turn[t].made < MaxUses
  /\ counter' = [counter EXCEPT ![t] = Counts(t)]
  /\ turn' = [turn EXCEPT ![t].used = @ + 1, ![t].made = @ + 1]
  /\ UNCHANGED <<choiceVars, request, build, priceVars>>

\* A cancelled turn's worker records too, after its summary and in the next turn; what it
\* took before the counters were dropped counts nowhere.
StrayRecord(t) ==
  /\ turn[t].stray # "none" /\ turn[t].made < MaxUses
  /\ turn' = [turn EXCEPT ![t].others = IF turn[t].on THEN @ + 1 ELSE @, ![t].made = @ + 1]
  /\ \/ counter' = [counter EXCEPT ![t] = Counts(t)]
     \/ turn[t].stray = "late" /\ UNCHANGED counter
  /\ UNCHANGED <<choiceVars, request, build, priceVars>>

StrayEnds(t) ==
  /\ turn[t].stray # "none" /\ turn' = [turn EXCEPT ![t].stray = "none"]
  /\ UNCHANGED <<choiceVars, request, build, priceVars, counter>>

\* turn_summary shows the difference, and never less than nothing; the worker of a turn
\* that was cancelled goes on.
EndUse(t) ==
  LET more == Counter(t).tokens - turn[t].before IN
  /\ turn[t].on
  /\ counter' = [counter EXCEPT ![t] = Counter(t)]
  /\ \E left \in {turn[t].stray, IF turn[t].swapped THEN "late" ELSE "works"} :
       turn' = [turn EXCEPT ![t].on = FALSE, ![t].shown = IF more > 0 THEN more ELSE 0,
                            ![t].stray = left]
  /\ UNCHANGED <<choiceVars, request, build, priceVars>>

SettingsNext ==
  \/ \E r \in Requests :
       \/ \E p \in Providers, m \in Models : AskSwap(r, p, m)
       \/ WriteProvider(r) \/ WriteModel(r) \/ Configure(r) \/ ClearCounters(r)
       \/ \E p \in Providers : AskKey(r, p)
       \/ WriteKey(r) \/ WriteUrl(r) \/ Invalidate(r)
       \/ \E m \in Models : WritePrice(r, m)
  \/ AskClient \/ LoadProvider \/ LoadModel \/ LoadKey \/ LoadUrl \/ UseClient
  \/ \E m \in Models : LookUp(m)
  \/ Remember
  \/ \E t \in Chats : BeginUse(t) \/ Record(t) \/ StrayRecord(t) \/ StrayEnds(t) \/ EndUse(t)

SettingsSpec == SettingsInit /\ [][SettingsNext]_settingsVars

----------------------------------------------------------------------------
\* Types of the settings, caches and counters.
SettingsTypeOK ==
  /\ active \in (Providers \cup {Unset}) \X (Models \cup {Unset}) /\ globals \in Providers \X Models
  /\ \A p \in Providers : {keys[p], urls[p]} \subseteq Requests \cup {Unset}
  /\ \A m \in Models : price[m] \in Requests \cup {Unset}
  /\ \A t \in Chats : turn[t].used + turn[t].others <= MaxUses

\* An agent's client is built for the pair the administrator chose last, and so is that of
\* a sub-agent without a model of its own once there are rows; every client has a key and a
\* base URL of that provider that were saved together; and the rows and the globals agree on
\* that pair ("the next _get_llm() picks up the new config immediately", app.py 5944), unless
\* requests for the same settings overlapped, one was under way or a read failed meanwhile.
ChoiceHolds ==
  /\ build.at = "client" /\ ~build.disturbed /\ ~build.failed
     => /\ build.provider = chosen[1] /\ build.key = build.url
        /\ ~build.own => \/ <<EffProvider, EffModel>> = chosen
                         \/ build.want # <<Unset, Unset>> /\ active = <<Unset, Unset>>
  /\ "active" \notin torn /\ InScope(<<"active">>) = {} /\ active # <<Unset, Unset>>
     => active = globals /\ active = chosen

\* A price in the cache is the administrator's ("Drop the in-process cache so the next
\* cost() uses the new price", app.py 6126), except while a change is under way and for a
\* lookup that had read the old row before it.
PriceFresh ==
  \A m \in Models :
    \/ cached[m] \in {Unread, price[m]} \/ m \in poisoned
    \/ \E r \in Requests : request[r].at = "invalidate" /\ request[r].model = m

\* A counter bills the model in use, also when models are swapped while counters are made
\* ("so a model change in the same process doesn't silently misprice tokens under the old
\* model name", nodes.py 97), and a turn during which no counters were dropped shows all its
\* calls, and no call but its own and those of workers that cancelled turns left behind.
CountersBillModel ==
  /\ (\A r \in Requests : request[r].at # "counters")
     => \A t \in Chats : counter[t] # Unset => counter[t].model = globals[2]
  /\ \A t \in Chats : ~turn[t].on /\ ~turn[t].swapped
       => turn[t].used <= turn[t].shown /\ turn[t].shown <= turn[t].used + turn[t].others

\* Tokens are billed to the model in use, at the administrator's price.
BillsTrue == PriceFresh /\ CountersBillModel

\* The model that prompts and prices name is the one clients are built with ("is honest
\* about which model is actually being called", prompt.py 37).
HonestModel ==
  build.at = "client" /\ ~build.own /\ ~build.disturbed => EffModel = globals[2]
=============================================================================
