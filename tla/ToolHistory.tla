----------------------------- MODULE ToolHistory -----------------------------
(***************************************************************************)
(* The messages a model call is given, and _repair_orphan_tool_calls of    *)
(* agents/nodes.py, which mends them first.                                *)
(*                                                                         *)
(* A message is a human one (prompt, nudge or digest), one of the model    *)
(* with the ids of the tools it calls, or the result of one tool call.     *)
(***************************************************************************)
EXTENDS Naturals, Sequences, SequencesExt

CONSTANT NumIds   \* bound: tool_call ids

Ids == 1 .. NumIds

Human      == [role |-> "human", ids |-> {}]
Ai(S)      == [role |-> "ai", ids |-> S]
Result(id) == [role |-> "tool", ids |-> {id}]

Message == [role : {"human", "ai", "tool"}, ids : SUBSET Ids]

\* The results that follow message i without a gap.
Results(h, i) ==
  UNION {h[j].ids : j \in {k \in i + 1 .. Len(h) :
                             \A n \in i + 1 .. k : h[n].role = "tool"}}

\* Mutant: the results may come anywhere later.
ResultsAnywhere(h, i) ==
  UNION {h[j].ids : j \in {k \in i + 1 .. Len(h) : h[k].role = "tool"}}

\* First pass: a call without its result is struck from the message. (A message
\* left with nothing to say gets a placeholder text.)
DropCalls(h) ==
  [i \in DOMAIN h |->
     IF h[i].role = "ai" THEN Ai(h[i].ids \cap Results(h, i)) ELSE h[i]]

\* Ids called by a model message before position i.
KnownIds(h, i) == UNION {h[j].ids : j \in {k \in 1 .. i - 1 : h[k].role = "ai"}}

\* Mutant: results are never dropped.
DropResultsNever(h) == h

\* Second pass: a result nobody asked for goes.
DropResults(h) ==
  FlattenSeq([i \in DOMAIN h |->
                IF h[i].role = "tool" => h[i].ids \subseteq KnownIds(h, i)
                THEN <<h[i]>> ELSE <<>>])

Repair(h) == DropResults(DropCalls(h))

-----------------------------------------------------------------------------
(* What the providers ask of a history.                                    *)

\* "every tool_call id must be followed by a matching ToolMessage".
Answered(h) == \A i \in DOMAIN h : h[i].role = "ai" => h[i].ids \subseteq Results(h, i)

\* Every result belongs to the run of results behind a message that called it.
Asked(h) ==
  \A j \in DOMAIN h :
    h[j].role = "tool" =>
      \E i \in 1 .. j - 1 :
        /\ h[i].role = "ai"
        /\ h[j].ids \subseteq h[i].ids
        /\ \A k \in i + 1 .. j : h[k].role = "tool"

Accepted(h) == Answered(h) /\ Asked(h)

\* Each id is called by one message and has one result, as in every history the
\* loop builds: ids are chosen by the provider, afresh for each call.
UniqueIds(h) ==
  \A i, j \in DOMAIN h :
    i # j /\ h[i].role = h[j].role => h[i].ids \cap h[j].ids = {}
=============================================================================
