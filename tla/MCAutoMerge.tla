----------------------------- MODULE MCAutoMerge -----------------------------
(***************************************************************************)
(* Instances of AutoMerge for TLC.                                         *)
(***************************************************************************)
EXTENDS AutoMerge, TLC

CONSTANTS a1, a2, b1, b2, p1, p2, p3, m1, m2, d1, d2, d3

\* Two attempts on one commit: their fixes go to one branch.
SharedBranchOf == (a1 :> b1) @@ (a2 :> b1)

\* One publish each; two deliveries report the first, one the second (the cfg
\* does not trust it).
OnceAttemptOf == (p1 :> a1) @@ (p2 :> a2)
OnceCommitOf == (d1 :> p1) @@ (d2 :> p1) @@ (d3 :> p2)

\* A gated attempt published twice, as its session calls publish_fix again or
\* a session of an earlier attempt still does, and an ungated one published
\* once; merge_change is called for each.  Two deliveries report the first
\* commit and none the second.
OwnBranchOf == (a1 :> b1) @@ (a2 :> b2)
TwiceAttemptOf ==
  (p1 :> a1) @@ (p2 :> a1) @@ (p3 :> a2) @@ (m1 :> a1) @@ (m2 :> a2)
TwiceCommitOf == (d1 :> p1) @@ (d2 :> p1)

=============================================================================
