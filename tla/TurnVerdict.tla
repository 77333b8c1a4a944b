----------------------------- MODULE TurnVerdict -----------------------------
(***************************************************************************)
(* What the orchestrator relies on when it watches one turn of a session:  *)
(* the verdicts that monitorRepairLoop and startRepairSession can come to. *)
(* These are the choices that ObserveStop, ObserveFailure, MonitorGivesUp  *)
(* and StreamEnds of RepairService make, and SessionMonitor, which reads   *)
(* the events one by one, is checked to make no other.                     *)
(***************************************************************************)

VARIABLES
  canContinue,   \* a continuation is left
  canRetry,      \* a provider-error retry is left
  live,          \* the turn has not been seen to end
  acted,         \* it has taken a terminal action
  verdict        \* what follows: settled, continued, retried or given up

budget == <<canContinue, canRetry>>

vars == <<budget, live, acted, verdict>>

Verdicts == {"watching", "settle", "continue", "retry", "give_up"}

Init ==
  /\ canContinue \in BOOLEAN /\ canRetry \in BOOLEAN
  /\ live = TRUE /\ acted = FALSE /\ verdict = "watching"

\* A session that is not watched any more acts all the same.
Act ==
  /\ live
  /\ acted' = TRUE
  /\ UNCHANGED <<budget, live, verdict>>

Conclude(conclusion) ==
  /\ verdict = "watching"
  /\ verdict' = conclusion
  /\ UNCHANGED <<budget, acted>>

TurnEnds == live /\ live' = FALSE

Continue == canContinue /\ Conclude("continue")

Retry == canRetry /\ Conclude("retry")

ObserveStop ==
  /\ TurnEnds
  /\ \/ acted /\ Conclude("settle")
     \/ ~acted /\ (Continue \/ Conclude("give_up"))

ObserveFailure ==
  /\ TurnEnds
  /\ \/ acted /\ Conclude("settle")
     \/ ~acted /\ (Retry \/ Conclude("give_up"))

MonitorGivesUp ==
  /\ Conclude("give_up") \/ (acted /\ Conclude("settle"))
  /\ UNCHANGED live

StreamEnds ==
  /\ Continue \/ Conclude("give_up") \/ Conclude("settle")
  /\ UNCHANGED live

Next == Act \/ ObserveStop \/ ObserveFailure \/ MonitorGivesUp \/ StreamEnds

Spec == Init /\ [][Next]_vars

=============================================================================
