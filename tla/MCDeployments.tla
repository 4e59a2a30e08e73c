--------------------------- MODULE MCDeployments ---------------------------
(* Instances of Deployments for TLC. *)
EXTENDS Deployments, TLC
CONSTANTS a, b, s1, s2, u1, u2

TwoOwners == (s1 :> u1) @@ (s2 :> u2)

\* Slugs may be exchanged, and so may the users together with their sessions.
Swap  == (s1 :> s2) @@ (s2 :> s1) @@ (u1 :> u2) @@ (u2 :> u1)
Alike == {p @@ q : p \in Permutations(Slugs), q \in {Swap, [x \in DOMAIN Swap |-> x]}}

\* How a job ended, and when it was swept, matters to no later step and no property.
Settled(d) ==
  IF job[d].status \notin Ended \cup {"swept"} THEN job[d]
  ELSE IF stray[d] # "none" THEN Closed(job[d], "swept")
  ELSE [NoJob EXCEPT !.status = "swept", !.slug = job[d].slug, !.from = job[d].from,
                       !.owner = job[d].owner]
DeployView ==
  <<sess, appVars, src, built, [d \in Deploys |-> Settled(d)], stray, req, count, met>>
=============================================================================
