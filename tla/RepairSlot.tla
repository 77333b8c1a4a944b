------------------------------ MODULE RepairSlot ------------------------------
(***************************************************************************)
(* What the repair service promises about one commit, without sessions,    *)
(* retries, webhooks or records: a slot that one delivery at a time holds, *)
(* that can be taken a limited number of times, and that nobody takes any  *)
(* more once a fix is published.                                           *)
(***************************************************************************)
EXTENDS Naturals

CONSTANTS
  Deliveries,    \* who may hold a slot
  Shas,          \* one slot for each commit
  MaxAttempts,   \* how often a slot may be taken
  NoHolder

VARIABLES used, holder, published

slotVars == <<used, holder, published>>

Init ==
  /\ used = [s \in Shas |-> 0]
  /\ holder = [s \in Shas |-> NoHolder]
  /\ published = [s \in Shas |-> FALSE]

Acquire(s, d) ==
  /\ holder[s] = NoHolder
  /\ ~published[s]
  /\ used[s] < MaxAttempts
  /\ holder' = [holder EXCEPT ![s] = d]
  /\ used' = [used EXCEPT ![s] = @ + 1]
  /\ UNCHANGED published

\* The holders of some slots leave: one repair ends, or the process stops.
Vacate ==
  /\ \E S \in SUBSET Shas :
       holder' = [s \in Shas |-> IF s \in S THEN NoHolder ELSE holder[s]]
  /\ UNCHANGED <<used, published>>

\* A session publishes, its repair still holding the slot or not.
Publish(s) ==
  /\ used[s] > 0
  /\ published' = [published EXCEPT ![s] = TRUE]
  /\ UNCHANGED <<used, holder>>

Next ==
  \/ \E s \in Shas, d \in Deliveries : Acquire(s, d)
  \/ Vacate
  \/ \E s \in Shas : Publish(s)

Spec == Init /\ [][Next]_slotVars

=============================================================================
