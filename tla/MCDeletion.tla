----------------------------- MODULE MCDeletion -----------------------------
(* Instances of Deletion for TLC. *)
EXTENDS Deletion
OneOwner == [s \in Sessions |-> "u1"]
OneProject == [s \in Sessions |-> "p"]

\* How a job ended, and when it was swept, matters to no later step and no property; what
\* jobs met is for the properties of Deployments alone; and of a project's deletion only
\* the project matters, not the session it was asked through.  Of a session in late NoTrace
\* says nothing any more, and its checkpoint, bus and processes enable nothing.
Settled(d) ==
  IF job[d].status \notin Ended \cup {"swept"} THEN job[d]
  ELSE IF stray[d] # "none" THEN Closed(job[d], "swept")
  ELSE [NoJob EXCEPT !.status = "swept", !.slug = job[d].slug, !.from = job[d].from]
Over(d) == IF d.status \in {"succeeded", "failed", "cancelled", "lost"}
           THEN [NoDel EXCEPT !.status = "over", !.swallowed = d.swallowed]
           ELSE IF d.project THEN [d EXCEPT !.target = ProjectOf[@]] ELSE d
DeletionView ==
  <<sess, appVars, src, built, [d \in Deploys |-> Settled(d)], stray, req, count,
    projects, turn, procs \ late, [j \in Deletes |-> Over(del[j])], loop, moved, posts, late,
    runs \ late, ckpt \ late, bus \ late, {x \in kept : x[2] \notin late}>>
=============================================================================
