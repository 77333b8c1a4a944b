------------------------- MODULE RepairSlotRefinement -------------------------
(***************************************************************************)
(* RepairService implements RepairSlot as long as no repair outlives the   *)
(* recent window.                                                          *)
(***************************************************************************)
EXTENDS RepairService

CONSTANT NoHolder

ASSUME NoHolderAssumption == NoHolder \notin Deliveries

RepairsOf(s) == {d \in Deliveries : Repairing(d) /\ ShaOf[PipelineOf[d]] = s}

HolderOf(s) ==
  IF RepairsOf(s) = {} THEN NoHolder ELSE CHOOSE d \in RepairsOf(s) : TRUE

PublishedFor(s) == \E p \in PipelinesOf(s) : ledger[p].published

Slot == INSTANCE RepairSlot WITH
  MaxAttempts <- MaxAttemptsPerSha,
  used <- [s \in Shas |-> CountAttemptsForSha(ledger, s)],
  holder <- [s \in Shas |-> HolderOf(s)],
  published <- [s \in Shas |-> PublishedFor(s)]

\* Seen from outside, the claim guards, the retries and the releases of the
\* service are a slot per commit that one delivery holds at a time, at most
\* maxAttemptsPerSha times, and not after a publish (claimRepairSlot).
ImplementsRepairSlot == Slot!Spec

=============================================================================
