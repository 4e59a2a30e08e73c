------------------------------- MODULE Commits -------------------------------
(***************************************************************************)
(* Automatic commits (server/git_autocommit.py, session_runner.py 417-485).   *)
(* All sessions of a project work in one git repository: its HEAD, index and   *)
(* working tree are shared, and each git command of a commit job is a process   *)
(* of its own, so that other sessions' edits and git commands (tools/git.py)   *)
(* fall between any two of them.  Any of its commands may fail, or be cut off by  *)
(* _run's timeout when it has done its work.                                       *)
(***************************************************************************)
EXTENDS Integers, FiniteSets

CONSTANTS
  Sessions, NoOne,
  Main,        \* a branch of _PROTECTED_BRANCHES
  BranchOf,    \* session/<short id>
  Detached,    \* HEAD when it is on no branch
  Strategies,  \* of "session" and "current"
  MaxEdits, MaxGit, MaxJobs, MaxPushes

ASSUME CommitAssumption ==
  /\ {MaxEdits, MaxGit, MaxJobs, MaxPushes} \subseteq Nat
  /\ Strategies \subseteq {"session", "current"}
  /\ NoOne \notin Sessions /\ Main # Detached
  /\ \A s \in Sessions : BranchOf[s] \notin {Main, Detached}

VARIABLES
  head,     \* the branch HEAD is on
  born,     \* branches that exist
  merging,  \* MERGE_HEAD and its like exist
  holds,    \* the edits contained in each branch
  dirty,    \* edits in the working tree only
  staged,   \* edits in the index
  author,   \* the session that made an edit
  changed,  \* sessions whose turn touched files
  job,      \* of each session, its commit job
  pushing,  \* of each session, the branch a manual push has read
  origin,   \* the edits contained in each branch of the remote
  gits, jobs, pushes

gitVars    == <<head, born, merging, holds, dirty, staged>>
commitVars == <<gitVars, author, changed, job, pushing, origin, gits, jobs, pushes>>

Edits    == 1 .. MaxEdits
Branches == {Main} \cup {BranchOf[s] : s \in Sessions}
NoJob    == [at |-> "none", strategy |-> "none", branch |-> NoOne, on |-> NoOne,
             moved |-> FALSE, cut |-> FALSE, done |-> {}]

CommitInit ==
  /\ head = Main /\ merging = FALSE /\ born \in {{}, {Main}}
  /\ holds = [b \in Branches \cup {Detached} |-> {}]
  /\ dirty = {} /\ staged = {} /\ changed = {}
  /\ author = [e \in Edits |-> NoOne]
  /\ job = [s \in Sessions |-> NoJob] /\ pushing = [s \in Sessions |-> NoOne]
  /\ origin = [b \in Branches |-> {}]
  /\ gits = 0 /\ jobs = 0 /\ pushes = 0

\* rev-parse: nothing for a branch without commits.
Current == IF head \in born \cup {Detached} THEN head ELSE NoOne
\* current_branch: nothing either when the command fails or takes too long.
Read == {Current, NoOne}

\* History: HEAD moves under every job but s's own.
Moved(jobMap, s) ==
  [t \in Sessions |-> IF t # s /\ job[t].at # "none" THEN [jobMap[t] EXCEPT !.moved = TRUE] ELSE jobMap[t]]

\* git checkout; a new branch starts where HEAD is.  What is not committed comes along.
Checkout(b) ==
  /\ head' = b /\ born' = IF b = Detached THEN born ELSE born \cup {b}
  /\ holds' = IF b \in born THEN holds ELSE [holds EXCEPT ![b] = holds[head]]
  /\ UNCHANGED <<merging, dirty, staged>>

\* git commit takes the index, and ends a merge.
CommitIndex ==
  /\ staged # {}
  /\ holds' = [holds EXCEPT ![head] = @ \cup staged]
  /\ born' = IF head = Detached THEN born ELSE born \cup {head}
  /\ staged' = {} /\ merging' = FALSE
  /\ UNCHANGED <<head, dirty>>

Stage == staged' = staged \cup dirty /\ dirty' = {} /\ UNCHANGED <<head, born, merging, holds>>
Pushed(b) == origin' = [origin EXCEPT ![b] = @ \cup holds[b]]

----------------------------------------------------------------------------
\* The agents at work.
Edit(s, e) ==
  /\ author[e] = NoOne /\ \A f \in 1 .. e - 1 : author[f] # NoOne
  /\ author' = [author EXCEPT ![e] = s] /\ changed' = changed \cup {s} /\ dirty' = dirty \cup {e}
  /\ UNCHANGED <<head, born, merging, holds, staged, job, pushing, origin, gits, jobs, pushes>>

\* _git_dispatch: checkout, add, commit, push; a pull may end in conflicts.
AgentGit(s) ==
  /\ gits < MaxGit /\ gits' = gits + 1
  /\ \/ \E b \in Branches \cup {Detached} :
          /\ b # head /\ ~merging /\ head \in born \cup {Detached} /\ Checkout(b)
          /\ job' = Moved(job, NoOne) /\ UNCHANGED origin
     \/ Stage /\ UNCHANGED <<job, origin>>
     \/ CommitIndex /\ UNCHANGED <<job, origin>>
     \/ \E b \in born : Pushed(b) /\ UNCHANGED <<gitVars, job>>
     \/ /\ ~merging /\ head \in born /\ merging' = TRUE
        /\ UNCHANGED <<head, born, holds, dirty, staged, job, origin>>
  /\ UNCHANGED <<author, changed, pushing, jobs, pushes>>

----------------------------------------------------------------------------
\* The end of a turn: without touched files, there is no job.
Begin(s) ==
  /\ s \in changed /\ job[s].at = "none" /\ jobs < MaxJobs /\ jobs' = jobs + 1
  /\ changed' = changed \ {s}
  /\ \E strategy \in Strategies :
       job' = [job EXCEPT ![s] = [NoJob EXCEPT !.at = "inspect", !.strategy = strategy]]
  /\ UNCHANGED <<gitVars, author, pushing, origin, gits, pushes>>

\* Mutant: the job stops but is not forgotten.
SkippedKept(s) == job' = [job EXCEPT ![s].at = "none"]
\* A job that ends without a word.
Skipped(s) == job' = [job EXCEPT ![s] = NoJob]
Next1(s, step, branch) == job' = [job EXCEPT ![s].at = step, ![s].branch = branch]
\* Mutant: no branch is refused.
AnyTaken(s, branch) == [job[s] EXCEPT !.at = "add", !.branch = branch]
\* A branch is chosen; a protected one is refused unless the project asked for the
\* current branch.  No name is no protected one.
Taken(s, branch) ==
  IF branch = Main /\ job[s].strategy = "session" THEN NoJob
  ELSE [job[s] EXCEPT !.at = "add", !.branch = branch]
Takes(s, branch) == job' = [job EXCEPT ![s] = Taken(s, branch)]

\* is_git_repo, symbolic-ref and the sentinels
Inspect(s) ==
  /\ job[s].at = "inspect"
  /\ \/ Skipped(s)
     \/ head # Detached /\ ~merging /\ Next1(s, "branch", NoOne)
  /\ UNCHANGED <<gitVars, author, changed, pushing, origin, gits, jobs, pushes>>

\* prepare_session_branch, in four commands
LookAtBranch(s) ==
  /\ job[s].at = "branch"
  /\ \E on \in Read :
       IF job[s].strategy = "current" \/ on \in {NoOne, BranchOf[s]} THEN Takes(s, on)
       ELSE job' = [job EXCEPT ![s].at = "clean", ![s].on = on]
  /\ UNCHANGED <<gitVars, author, changed, pushing, origin, gits, jobs, pushes>>

LookIfClean(s) ==
  /\ job[s].at = "clean"
  /\ \/ Takes(s, job[s].on)
     \/ dirty \cup staged = {} /\ Next1(s, "switch", NoOne)
  /\ UNCHANGED <<gitVars, author, changed, pushing, origin, gits, jobs, pushes>>

\* A checkout that is done but reported as failed, by a hook or the timeout, leaves the
\* job with the old name (history: cut).
Mistold(s) ==
  IF job[s].on = Main THEN NoJob
  ELSE [job[s] EXCEPT !.at = "add", !.branch = job[s].on, !.cut = TRUE]

Switch(s) ==
  /\ job[s].at = "switch"
  /\ \/ Takes(s, job[s].on) /\ UNCHANGED gitVars
     \/ /\ ~merging /\ Checkout(BranchOf[s])
        /\ \E j \in {Taken(s, BranchOf[s]), Mistold(s)} : job' = Moved([job EXCEPT ![s] = j], s)
  /\ UNCHANGED <<author, changed, pushing, origin, gits, jobs, pushes>>

\* git add -A; the index lock of another command may make it fail.
Add(s) ==
  /\ job[s].at = "add"
  /\ \/ Skipped(s) /\ (Stage \/ UNCHANGED gitVars)
     \/ Stage /\ Next1(s, "status", job[s].branch)
  /\ UNCHANGED <<author, changed, pushing, origin, gits, jobs, pushes>>

\* The exit status is not looked at: a status that fails lists nothing.
Status(s) ==
  /\ job[s].at = "status"
  /\ \/ Skipped(s)
     \/ staged \cup dirty # {} /\ Next1(s, "commit", job[s].branch)
  /\ UNCHANGED <<gitVars, author, changed, pushing, origin, gits, jobs, pushes>>

\* A hook may refuse; then everything stays in the index.
Commit(s) ==
  /\ job[s].at = "commit"
  /\ \/ Skipped(s) /\ (CommitIndex \/ UNCHANGED gitVars)
     \/ CommitIndex /\ job' = [job EXCEPT ![s].at = "push", ![s].done = staged]
  /\ UNCHANGED <<author, changed, pushing, origin, gits, jobs, pushes>>

\* push_to_remote, if the project asks for it and the remote takes it; an empty branch
\* name is looked up again.
Push(s) ==
  LET b == IF job[s].branch = NoOne THEN Current ELSE job[s].branch IN
  /\ job[s].at = "push"
  /\ \/ UNCHANGED origin
     \/ b \in born /\ Pushed(b)
  /\ Skipped(s)
  /\ UNCHANGED <<gitVars, author, changed, pushing, gits, jobs, pushes>>

\* POST /push pushes whatever branch HEAD is on.
AskPush(s) ==
  /\ pushes < MaxPushes /\ pushes' = pushes + 1 /\ pushing[s] = NoOne /\ Current # NoOne
  /\ pushing' = [pushing EXCEPT ![s] = Current]
  /\ UNCHANGED <<gitVars, author, changed, job, origin, gits, jobs>>

ManualPush(s) ==
  /\ pushing[s] # NoOne /\ pushing' = [pushing EXCEPT ![s] = NoOne]
  /\ \/ UNCHANGED origin
     \/ pushing[s] \in born /\ Pushed(pushing[s])
  /\ UNCHANGED <<gitVars, author, changed, job, gits, jobs, pushes>>

CommitNext ==
  \E s \in Sessions :
    \/ \E e \in Edits : Edit(s, e)
    \/ AgentGit(s) \/ Begin(s) \/ Inspect(s) \/ LookAtBranch(s) \/ LookIfClean(s) \/ Switch(s)
    \/ Add(s) \/ Status(s) \/ Commit(s) \/ Push(s) \/ AskPush(s) \/ ManualPush(s)

CommitSpec == CommitInit /\ [][CommitNext]_commitVars

----------------------------------------------------------------------------
\* Types of the repository and of the jobs.
CommitTypeOK ==
  /\ head \in Branches \cup {Detached} /\ born \subseteq Branches
  /\ dirty \cup staged \subseteq {e \in Edits : author[e] # NoOne} /\ dirty \cap staged = {}
  /\ \A b \in Branches \ born : holds[b] = {} /\ origin[b] = {}
  /\ \A s \in Sessions : job[s].done # {} => job[s].at = "push"

\* A commit job of a session with a branch of its own adds nothing to a protected
\* branch ("Branches we will NEVER auto-commit to", git_autocommit.py 190), unless it
\* could not read which branch it was on; and what it reports as committed is on the
\* branch it reports, or on the session's own when a checkout that was done was
\* reported as failed.  Both unless another session moved HEAD meanwhile.
CommitsWhereTold ==
  [][\A s \in Sessions :
       job[s].at = "commit" /\ job'[s].at # "commit" /\ ~job[s].moved =>
         /\ job[s].strategy = "session" /\ job[s].branch # NoOne => holds'[Main] = holds[Main]
         /\ job'[s].at = "push" /\ job[s].branch # NoOne =>
              job'[s].done \subseteq holds'[IF job[s].cut THEN BranchOf[s] ELSE job[s].branch]]_commitVars

\* What a session's turn left behind is committed when its job ends other than by a
\* command that failed ("At end of every assistant turn that touched files, commit the
\* workspace", git_autocommit.py 5).
TurnCommits ==
  [][\A s \in Sessions :
       job[s].at \in {"clean", "push"} /\ job'[s].at = "none"
       => \A e \in Edits : author[e] = s => e \notin dirty \cup staged]_commitVars

\* A session's branch holds only what that session did ("so sessions stay isolated",
\* git_autocommit.py 6).
SessionsIsolated ==
  \A s \in Sessions : \A e \in holds[BranchOf[s]] : author[e] = s
=============================================================================
