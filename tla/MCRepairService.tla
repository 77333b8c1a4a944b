--------------------------- MODULE MCRepairService ---------------------------
(***************************************************************************)
(* Instances of RepairService for TLC.  p1 and p2 are two pipelines of one *)
(* commit, as GitHub's workflow_run and check_suite report them.           *)
(***************************************************************************)
EXTENDS RepairSlotRefinement, TLC

CONSTANTS d1, d2, d3, p1, p2, s1

\* One delivery for each of two pipelines of a commit.
PairShaOf == (p1 :> s1) @@ (p2 :> s1)
PairPipelineOf == (d1 :> p1) @@ (d2 :> p2)

\* A third delivery, on a branch the policy does not allow.
RejectedPipelineOf == PairPipelineOf @@ (d3 :> p2)

\* Two deliveries of one pipeline.
SameShaOf == p1 :> s1
SamePipelineOf == (d1 :> p1) @@ (d2 :> p1)

\* Deliveries of one pipeline carry the same event and can be exchanged.
SameEvent == Permutations({d1, d2})

=============================================================================
