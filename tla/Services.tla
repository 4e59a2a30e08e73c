------------------------------- MODULE Services -------------------------------
(***************************************************************************)
(* The services around a turn: sub-agents, model calls, inline reasoning,    *)
(* settings, accounts and session names, side by side.                       *)
(***************************************************************************)
EXTENDS SubAgents, ModelStream, ThinkTags, Settings, Accounts, SessionNames

ServicesSpec == SubSpec /\ StreamSpec /\ TagSpec /\ SettingsSpec /\ AccountsSpec /\ NameSpec

\* Types of all parts.
ServicesTypeOK ==
  SubTypeOK /\ StreamTypeOK /\ TagTypeOK /\ SettingsTypeOK /\ AccountsTypeOK /\ NameTypeOK

\* A sub-agent settles, and a model call ends, whatever the provider does.
WorkEnds == SubAgentSettles /\ CallEnds
=============================================================================
