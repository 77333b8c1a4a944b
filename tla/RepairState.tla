----------------------------- MODULE RepairState -----------------------------
(***************************************************************************)
(* The attempt ledger that agent/lib/state.ts keeps in the state file: one *)
(* record per failed pipeline, and the questions the claim guards ask of   *)
(* it.  Every operator reads the whole file and writes it back without an  *)
(* await in between, so each one is a single step of whoever calls it.     *)
(*                                                                         *)
(* A "sha" stands for the triple (provider, repository, commit) that the   *)
(* guards compare, and a pipeline for the attempt key                      *)
(* provider:repo:sha:pipelineId.  Of a record only what a guard can tell   *)
(* apart is kept: which of the started-work fields are set, not their      *)
(* contents, and whether lastSeenAt is within the recent window, not the   *)
(* time itself.                                                            *)
(***************************************************************************)
EXTENDS Naturals, FiniteSets

CONSTANTS
  Pipelines,          \* attempt keys
  Shas,               \* commits under repair
  ShaOf,              \* the commit each pipeline ran for
  MaxAttemptsPerSha   \* policy.maxAttemptsPerSha

ASSUME LedgerAssumption ==
  /\ ShaOf \in [Pipelines -> Shas]
  /\ MaxAttemptsPerSha \in Nat \ {0}

-----------------------------------------------------------------------------

\* The optional fields whose presence says that a repair has been dispatched
\* or has done some work.
StartedWork ==
  {"dispatchedAt", "lastSessionId", "repoStagedAt", "lastFailureContext",
   "lastVerification"}

SessionStatus ==
  {"none", "running", "waiting", "completed", "failed", "abandoned"}

\* lastTerminalAction; "published" stands for "merged" as well, which no guard
\* of the ledger tells apart from it.
TerminalAction == {"none", "published", "rerun_requested", "comment_posted"}

\* MAX_RERUN_REQUESTS_PER_ATTEMPT
MaxRerunRequests == 1

\* published: one of lastPublishResult, publishedBranch, changeNumber and
\* pendingAutoMerge is set; publish_fix sets them together.
AttemptRecord ==
  [attempts : Nat, recent : BOOLEAN, markers : SUBSET StartedWork,
   status : SessionStatus, terminal : TerminalAction, published : BOOLEAN,
   rerunRequests : 0 .. MaxRerunRequests]

NoAttempt ==
  [attempts |-> 0, recent |-> FALSE, markers |-> {}, status |-> "none",
   terminal |-> "none", published |-> FALSE, rerunRequests |-> 0]

Ledger == [Pipelines -> AttemptRecord]

-----------------------------------------------------------------------------

PipelinesOf(s) == {p \in Pipelines : ShaOf[p] = s}

\* Mutant: the slot frees itself by age alone, as it would if the order of the
\* two questions of IsActiveRepairAttempt were swapped.
IsRecentRepairAttempt(a) ==
  /\ a.status \notin {"failed", "abandoned"}
  /\ a.recent
  /\ a.published \/ a.markers # {}

\* Published work pins the slot for good.  Otherwise a failed or abandoned
\* session frees it, and so does the end of the recent window; a recent record
\* holds the slot once anything has been started for it.
IsActiveRepairAttempt(a) ==
  \/ a.published
  \/ /\ a.status \notin {"failed", "abandoned"}
     /\ a.recent
     /\ a.markers # {}

ActiveAttemptsForSha(ledger, s) ==
  {p \in PipelinesOf(s) : IsActiveRepairAttempt(ledger[p])}

\* The attempts recorded for a commit, as pairs of a pipeline and a number, so
\* that the sum the code computes over the records is a cardinality.
RecordedAttempts(ledger, s) ==
  UNION {{p} \X (1 .. ledger[p].attempts) : p \in PipelinesOf(s)}

CountAttemptsForSha(ledger, s) == Cardinality(RecordedAttempts(ledger, s))

\* Mutant: a retry that is not counted.
RecordSameAttempt(a) ==
  [NoAttempt EXCEPT !.attempts = IF a.attempts = 0 THEN 1 ELSE a.attempts,
                    !.recent = TRUE]

\* A first attempt, or a retry that forgets all but the number of attempts.
RecordAttempt(a) ==
  [NoAttempt EXCEPT !.attempts = a.attempts + 1, !.recent = TRUE]

ClaimedAttempt(a) == [RecordAttempt(a) EXCEPT !.markers = {"dispatchedAt"}]

WithMarker(a, marker) == [a EXCEPT !.markers = @ \cup {marker}]

WithoutMarker(a, marker) == [a EXCEPT !.markers = @ \ {marker}]

\* lastSessionStatus and lastTerminalAction, which are written together.
WithOutcome(a, status, terminal) ==
  [a EXCEPT !.status = status, !.terminal = terminal]

\* What a tool records when it has acted.
WithTerminalAction(a, action) ==
  [WithOutcome(a, "completed", action) EXCEPT
     !.published = @ \/ action = "published"]

\* Mutant: the request is made and not recorded.
WithoutRerunRequest(a) == [a EXCEPT !.rerunRequests = @]

WithRerunRequest(a) == [a EXCEPT !.rerunRequests = @ + 1]

\* Mutant: the attempt to come is not counted.
BelowAttemptCap(ledger, p) ==
  CountAttemptsForSha(ledger, ShaOf[p]) <= MaxAttemptsPerSha

\* The cap is asked before the attempt is recorded.
WithinAttemptCap(ledger, p) ==
  CountAttemptsForSha(ledger, ShaOf[p]) + 1 <= MaxAttemptsPerSha

RerunClaimable(a) == a.rerunRequests < MaxRerunRequests

=============================================================================
