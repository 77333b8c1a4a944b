--------------------------- MODULE RepairSlotProofs ---------------------------
(***************************************************************************)
(* RepairService implements RepairSlot: every step of the service is a     *)
(* step of the abstract slot, or changes nothing the slot can see.         *)
(***************************************************************************)
EXTENDS RepairSlotRefinement, RepairServiceProofs

-----------------------------------------------------------------------------
\* What a step does to the published flags of the records.

SamePublished == \A p \in Pipelines : ledger'[p].published = ledger[p].published

\* No update a handler makes to a record touches its published flag.
LEMMA SamePublishedOf ==
  ASSUME NEW a \in AttemptRecord, NEW m \in StartedWork,
         NEW status \in SessionStatus, NEW terminal \in TerminalAction
  PROVE  /\ WithMarker(a, m).published = a.published
         /\ WithoutMarker(a, m).published = a.published
         /\ WithOutcome(a, status, terminal).published = a.published
         /\ WithOutcome(WithMarker(a, m), status, terminal).published
              = a.published
         /\ WithOutcome(WithoutMarker(a, m), status, terminal).published
              = a.published
<1>1. /\ WithMarker(a, m) \in AttemptRecord
      /\ WithoutMarker(a, m) \in AttemptRecord
      /\ WithMarker(a, m).published = a.published
      /\ WithoutMarker(a, m).published = a.published
  BY MarkerType DEF WithMarker, WithoutMarker, AttemptRecord
<1>2. ASSUME NEW b \in AttemptRecord
      PROVE  WithOutcome(b, status, terminal).published = b.published
  BY DEF WithOutcome, AttemptRecord
<1> QED
  BY <1>1, <1>2

\* A step that replaces one record and keeps its flag keeps them all.
LEMMA SamePublishedAll ==
  ASSUME TypeOK, NEW p \in Pipelines, NEW b,
         b.published = ledger[p].published, ledger' = [ledger EXCEPT ![p] = b]
  PROVE  SamePublished
BY DEF SamePublished, TypeOK, Ledger

\* No step of a handler but the claim touches a published flag.
LEMMA HandlerSamePublished ==
  ASSUME TypeOK, NEW d \in Deliveries, HandlerStep(d), ~ClaimRepairSlot(d)
  PROVE  SamePublished
<1> USE ServiceAssumption DEF StartedWork, SessionStatus, TerminalAction
<1> DEFINE p == PipelineOf[d]
           a == ledger[p]
<1>0. /\ p \in Pipelines
      /\ a \in AttemptRecord
      /\ job[d].seen \in TerminalAction
  BY DEF TypeOK, Ledger, Job
<1>u. UNCHANGED ledger => SamePublished
  BY DEF SamePublished
<1>1. ASSUME SeedFailureContext(d) PROVE SamePublished
  BY <1>0, <1>1, SamePublishedOf, SamePublishedAll DEF SeedFailureContext, AddMarker
<1>2. ASSUME RecordSessionRunning(p) PROVE SamePublished
  BY <1>0, <1>2, SamePublishedOf, SamePublishedAll DEF RecordSessionRunning
<1>3. ASSUME PrepareProviderErrorRetry(d) PROVE SamePublished
  BY <1>0, <1>3, SamePublishedOf, SamePublishedAll DEF PrepareProviderErrorRetry
<1>4. ASSUME SendFails(d) PROVE SamePublished
  <2>1. a.terminal \in TerminalAction
    BY <1>0 DEF AttemptRecord
  <2>2. WithOutcome(WithoutMarker(a, "dispatchedAt"), "failed",
                    a.terminal).published = a.published
    BY <1>0, <2>1, SamePublishedOf
  <2> QED
    BY <1>0, <1>4, <2>2, SamePublishedAll DEF SendFails
<1>5. ASSUME NEW status \in SessionStatus, GiveUpForRedelivery(d, status)
      PROVE  SamePublished
  BY <1>0, <1>5, SamePublishedOf, SamePublishedAll DEF GiveUpForRedelivery
<1>6. ASSUME NEW status \in SessionStatus, NEW terminal \in TerminalAction,
             SettleRepair(d, status, terminal)
      PROVE  SamePublished
  BY <1>0, <1>6, SamePublishedOf, SamePublishedAll DEF SettleRepair
<1>7. ASSUME PrepareContinuation(d) PROVE SamePublished
  BY <1>0, <1>7, SamePublishedOf, SamePublishedAll DEF PrepareContinuation
<1>8. ASSUME ContinuationFails(d) PROVE SamePublished
  BY <1>0, <1>8, SamePublishedOf, SamePublishedAll DEF ContinuationFails
<1>9. ASSUME RefuseRepairSlot(d) \/ BackoffEnds(d) \/ ReleaseDelivery(d)
      PROVE  SamePublished
  BY <1>9, <1>u DEF RefuseRepairSlot, BackoffEnds, ReleaseDelivery
<1>10. Send(d) \/ Continue(d) => SamePublished
  BY <1>2, <1>3, <1>4, <1>8
  DEF Send, Continue, SendSucceeds, SendFailsRetryably, ContinuationSucceeds
<1>11. SessionStopped(d) => SamePublished
  BY <1>0, <1>5, <1>6, <1>7 DEF SessionStopped
<1>12. SessionFailed(d) => SamePublished
  BY <1>0, <1>3, <1>5, <1>6 DEF SessionFailed
<1>13. Observe(d) => SamePublished
  BY <1>0, <1>5, <1>6, <1>7, <1>11, <1>12
  DEF Observe, ObserveStop, ObserveFailure, MonitorGivesUp, StreamEnds
<1> QED
  BY <1>1, <1>9, <1>10, <1>13 DEF HandlerStep

\* The flag of pipeline p is set while every handler stays where it is; the
\* pipeline has been attempted.
PublishesAt(p) ==
  /\ ledger[p].attempts > 0
  /\ ledger'[p].published
  /\ \A q \in Pipelines \ {p} : ledger'[q].published = ledger[q].published
  /\ \A d \in Deliveries : Repairing(d)' = Repairing(d)

\* A terminal action sets the flag of its own record if it is a publish, and
\* leaves the stage of every handler alone.
LEMMA TerminalActionPublishes ==
  ASSUME TypeOK, NEW t \in Session, NEW action \in TerminalAction,
         RecordTerminalAction(t, action)
  PROVE  /\ ledger'[t.pipeline].published
              = (ledger[t.pipeline].published \/ action = "published")
         /\ \A q \in Pipelines \ {t.pipeline} : ledger'[q] = ledger[q]
         /\ \A d \in Deliveries : Repairing(d)' = Repairing(d)
<1> DEFINE p == t.pipeline
           b == WithOutcome(ledger[p], "completed", action)
<1>1. p \in Pipelines /\ ledger[p] \in AttemptRecord
  BY DEF TypeOK, Ledger, Session
<1>2. b \in AttemptRecord /\ b.published = ledger[p].published
  BY <1>1, OutcomeType, SamePublishedOf DEF SessionStatus, StartedWork
<1>3. ledger' = [ledger EXCEPT ![p] = WithTerminalAction(@, action)]
  BY DEF RecordTerminalAction
<1>4. WithTerminalAction(ledger[p], action)
        = [b EXCEPT !.published = @ \/ action = "published"]
  BY DEF WithTerminalAction
<1> HIDE DEF b
<1>5. [b EXCEPT !.published = @ \/ action = "published"].published
        = (b.published \/ action = "published")
  BY <1>2 DEF AttemptRecord
<1>6. \A q \in Pipelines \ {p} : ledger'[q] = ledger[q]
  BY <1>1, <1>3 DEF TypeOK, Ledger
<1>7. ledger'[p] = WithTerminalAction(ledger[p], action)
  BY <1>1, <1>3 DEF TypeOK, Ledger
<1>8. ASSUME NEW d \in Deliveries PROVE Repairing(d)' = Repairing(d)
  <2>1. job[d] \in Job
    BY DEF TypeOK
  <2>2. job'[d] = IF d \in Watchers(t) THEN [job[d] EXCEPT !.seen = action]
                                        ELSE job[d]
    BY DEF RecordTerminalAction
  <2>3. job'[d].stage = job[d].stage
    BY <2>1, <2>2 DEF Job
  <2> QED
    BY <2>3 DEF Repairing
<1> QED
  BY <1>2, <1>4, <1>5, <1>6, <1>7, <1>8

\* A tool of a session sets no flag when it begins.
LEMMA ToolSamePublished ==
  ASSUME TypeOK, NEW t \in Session, ToolStep(t)
  PROVE  SamePublished
<1> USE DEF StartedWork, SessionStatus, TerminalAction
<1>0. t.pipeline \in Pipelines /\ ledger[t.pipeline] \in AttemptRecord
  BY DEF TypeOK, Ledger, Session
<1>1. ASSUME NEW m \in StartedWork, AddMarker(t.pipeline, m)
      PROVE  SamePublished
  BY <1>0, <1>1, SamePublishedOf, SamePublishedAll DEF AddMarker
<1>2. PostProviderComment(t) => SamePublished
  BY <1>0, TerminalActionPublishes
  DEF PostProviderComment, SamePublished, AttemptRecord
<1>3. MergeChange(t) => SamePublished
  BY <1>0, TerminalActionPublishes DEF MergeChange, SamePublished, AttemptRecord
<1>4. BeginRerun(t) => SamePublished
  <2>1. WithRerunRequest(ledger[t.pipeline]).published = ledger[t.pipeline].published
    BY <1>0 DEF WithRerunRequest, AttemptRecord
  <2> QED
    BY <1>0, <2>1, SamePublishedAll DEF BeginRerun
<1> QED
  BY <1>1, <1>2, <1>3, <1>4
  DEF ToolStep, StageRepositorySnapshot, GetFailureContext, BeginTool,
      BeginStagedTool, SamePublished

-----------------------------------------------------------------------------
\* The invariant of the refinement: what is proved of the cap, of the slot and of
\* sessions, and that tool calls belong to attempts as sessions do.

RefInv ==
  /\ CapInv
  /\ SlotInv
  /\ RerunInv
  /\ \A c \in calls : ledger[c.session.pipeline].attempts > 0

\* A tool call is made by a session that lives, or goes on.
LEMMA CallsBelong ==
  ASSUME TypeOK, [Next]_vars
  PROVE  \A c \in calls' :
           c.session \in live \/ \E k \in calls : c.session = k.session
<1>1. ASSUME NEW t \in live, ToolStep(t)
      PROVE  \A c \in calls' : c \in calls \/ c.session = t
  BY <1>1
  DEF ToolStep, StageRepositorySnapshot, GetFailureContext,
      PostProviderComment, MergeChange, BeginTool, BeginStagedTool,
      BeginRerun, sessionVars
<1>2. ASSUME NEW k \in calls, PublishBeforeMerge(k)
      PROVE  \A c \in calls' : c \in calls \/ c.session = k.session
  <2>1. [k EXCEPT !.tool = "immediate_merge"].session = k.session
    BY DEF TypeOK, ToolCall
  <2> QED
    BY <1>2, <2>1 DEF PublishBeforeMerge
<1>3. ASSUME ~ \E t \in live : ToolStep(t), ~ \E k \in calls : PublishBeforeMerge(k)
      PROVE  calls' \subseteq calls
  BY <1>3
  DEF Next, HandlerStep, ClaimRepairSlot, RefuseRepairSlot, SeedFailureContext,
      Send, SendSucceeds, SendFailsRetryably, SendFails, BackoffEnds,
      Observe, ObserveStop, ObserveFailure, TurnEnds, MonitorGivesUp,
      StreamEnds, Continue, ContinuationSucceeds, ContinuationFails,
      ReleaseDelivery, FinishTool, ReceiveFailure, RejectFailure,
      WindowExpires, Crash, vars, sessionVars
<1> QED
  BY <1>1, <1>2, <1>3

\* The invariant holds at first,
LEMMA RefInit ==
  ASSUME Init
  PROVE  RefInv
<1>1. CapInv
  BY CapInit
<1>2. SlotInv
  BY <1>1 DEF CapInv, Init, SlotInv, OneRepairPerSha, Repairing, RepairStages, IdleJob
<1>3. RerunInv
  BY <1>1
  DEF CapInv, Init, RerunInv, AttemptInv, OneHandlerPerAttempt, Repairing,
      RepairStages, IdleJob, NoAttempt
<1> QED
  BY <1>1, <1>2, <1>3 DEF RefInv, Init

\* and every step keeps it.
LEMMA RefStep ==
  ASSUME RefInv, [Next]_vars
  PROVE  RefInv'
<1>1. CapInv' /\ SlotInv' /\ RerunInv'
  BY CapStep, SlotStep, RerunStep DEF RefInv
<1>2. TypeOK /\ TypeOK'
  BY <1>1 DEF RefInv, CapInv
<1>3. ASSUME NEW c \in calls' PROVE ledger'[c.session.pipeline].attempts > 0
  <2> DEFINE p == c.session.pipeline
  <2>1. p \in Pipelines
    BY <1>2 DEF TypeOK, ToolCall, Session
  <2>2. ledger[p].attempts > 0
    BY <1>2, CallsBelong DEF RefInv, RerunInv
  <2>3. ledger'[p].attempts >= ledger[p].attempts
    BY <1>2, <2>1, AttemptsNeverFall
  <2>4. ledger[p].attempts \in Nat /\ ledger'[p].attempts \in Nat
    BY <1>2, <2>1 DEF TypeOK, Ledger, AttemptRecord
  <2> QED
    BY <2>2, <2>3, <2>4
<1> QED
  BY <1>1, <1>3 DEF RefInv

\* A step that is no claim leaves the flags alone or publishes.
LEMMA PublishSteps ==
  ASSUME RefInv, [Next]_vars, ~ \E d \in Deliveries : ClaimRepairSlot(d)
  PROVE  SamePublished \/ \E p \in Pipelines : PublishesAt(p)
<1>0. TypeOK
  BY DEF RefInv, CapInv
<1>1. ASSUME NEW d \in Deliveries, HandlerStep(d) PROVE SamePublished
  BY <1>0, <1>1, HandlerSamePublished
<1>2. ASSUME NEW t \in live, ToolStep(t) PROVE SamePublished
  BY <1>0, <1>2, ToolSamePublished DEF TypeOK
<1>3. ASSUME NEW c \in calls, PublishBeforeMerge(c) \/ FinishTool(c)
      PROVE  SamePublished \/ PublishesAt(c.session.pipeline)
  <2> DEFINE p == c.session.pipeline
             a == ledger[p]
  <2>1. /\ c.session \in Session /\ p \in Pipelines
        /\ a \in AttemptRecord /\ a.attempts > 0
    BY <1>0 DEF TypeOK, ToolCall, Session, Ledger, RefInv
  <2>2. ASSUME AddMarker(p, "lastVerification") PROVE SamePublished
    BY <1>0, <2>1, <2>2, SamePublishedOf, SamePublishedAll
    DEF AddMarker, StartedWork, SessionStatus, TerminalAction
  <2>3. ASSUME RecordTerminalAction(c.session, "rerun_requested")
        PROVE  SamePublished
    BY <1>0, <2>1, <2>3, TerminalActionPublishes
    DEF SamePublished, TerminalAction, AttemptRecord
  <2>4. ASSUME RecordTerminalAction(c.session, "published")
        PROVE  PublishesAt(p)
    BY <1>0, <2>1, <2>4, TerminalActionPublishes DEF PublishesAt, TerminalAction
  <2>5. ASSUME PublishBeforeMerge(c) PROVE PublishesAt(p)
    <3>1. [a EXCEPT !.published = TRUE].published
      BY <2>1 DEF AttemptRecord
    <3>2. ledger' = [ledger EXCEPT ![p] = [a EXCEPT !.published = TRUE]]
      BY <2>5 DEF PublishBeforeMerge
    <3>3. ledger'[p].published /\ \A q \in Pipelines \ {p} : ledger'[q] = ledger[q]
      BY <1>0, <2>1, <3>1, <3>2 DEF TypeOK, Ledger
    <3> QED
      BY <2>1, <2>5, <3>3 DEF PublishBeforeMerge, PublishesAt, Repairing
  <2> QED
    BY <1>3, <2>2, <2>3, <2>4, <2>5
    DEF FinishTool, FinishChecks, FinishPublish, FinishRerun, SamePublished
<1>4. ASSUME NEW p \in Pipelines, WindowExpires(p) PROVE SamePublished
  <2>1. [ledger[p] EXCEPT !.recent = FALSE].published = ledger[p].published
    BY <1>0 DEF TypeOK, Ledger, AttemptRecord
  <2> QED
    BY <1>0, <1>4, <2>1, SamePublishedAll DEF WindowExpires
<1>5. ASSUME \/ \E d \in Deliveries : ReceiveFailure(d) \/ RejectFailure(d)
             \/ Crash
             \/ UNCHANGED vars
      PROVE  SamePublished
  BY <1>5 DEF ReceiveFailure, RejectFailure, Crash, vars, SamePublished
<1>6. \A c \in calls : c.session.pipeline \in Pipelines
  BY <1>0 DEF TypeOK, ToolCall, Session
<1> QED
  BY <1>1, <1>2, <1>3, <1>4, <1>5, <1>6 DEF Next

-----------------------------------------------------------------------------
\* What the slot sees of a step.

OneHolder == \A s \in Shas : \A d, e \in RepairsOf(s) : d = e

\* While no repair outlives the recent window a slot has one holder.
LEMMA SlotHasOneHolder ==
  ASSUME SlotInv, "window_expires" \notin Faults
  PROVE  OneHolder
BY DEF SlotInv, OneRepairPerSha, OneHolder, RepairsOf

\* A repair that goes on keeps the slot, one that ends leaves it to nobody.
LEMMA HolderKept ==
  ASSUME NEW s \in Shas, OneHolder, \A d \in Deliveries : GoesOn(d)
  PROVE  HolderOf(s)' = HolderOf(s) \/ HolderOf(s)' = NoHolder
<1>1. RepairsOf(s)' \subseteq RepairsOf(s)
  BY DEF RepairsOf, GoesOn, Repairing
<1>2. CASE RepairsOf(s)' = {}
  BY <1>2 DEF HolderOf
<1>3. CASE RepairsOf(s)' # {}
  <2>1. RepairsOf(s)' = RepairsOf(s)
    BY <1>1, <1>3 DEF OneHolder
  <2> QED
    BY <2>1 DEF HolderOf
<1> QED
  BY <1>2, <1>3

\* A claim takes the slot of its commit and no other.
LEMMA ClaimAcquires ==
  ASSUME RefInv, OneHolder, OneHolder', NEW d \in Deliveries, Starts(d),
         "window_expires" \notin Faults
  PROVE  Slot!Acquire(ShaOf[PipelineOf[d]], d)
<1> DEFINE p == PipelineOf[d]
           s == ShaOf[p]
<1>0. /\ TypeOK /\ p \in Pipelines /\ s \in Shas /\ p \in PipelinesOf(s)
      /\ ledger \in Ledger
      /\ ledger' = [ledger EXCEPT ![p] = ClaimedAttempt(@)]
      /\ ActiveAttemptsForSha(ledger, s) = {}
      /\ CountAttemptsForSha(ledger, s) + 1 <= MaxAttemptsPerSha
      /\ \A e \in Deliveries \ {d} : job'[e] = job[e]
  BY ServiceAssumption, LedgerAssumption
  DEF RefInv, CapInv, TypeOK, Starts, ClaimRepairSlot, SlotInProgress,
      WithinAttemptCap, PipelinesOf
<1>1. job'[d].stage = "seeding"
  <2>1. job[d] \in Job
    BY <1>0 DEF TypeOK
  <2>2. job'[d] = Seeding(job[d], ClaimedAttempt(ledger[p]).attempts)
    BY <1>0 DEF Starts, ClaimRepairSlot, TypeOK
  <2> QED
    BY <2>1, <2>2 DEF Seeding, Job
<1>2. RepairsOf(s) = {}
  <2> SUFFICES ASSUME NEW e \in RepairsOf(s) PROVE FALSE
    OBVIOUS
  <2>1. /\ PipelineOf[e] \in Pipelines /\ ShaOf[PipelineOf[e]] = s
        /\ Holds(ledger[PipelineOf[e]])
    BY ServiceAssumption DEF RepairsOf, RefInv, SlotInv
  <2> QED
    BY <1>0, <2>1, HoldsIsActive
<1>3. HolderOf(s) = NoHolder
  BY <1>2 DEF HolderOf
<1>4. d \in RepairsOf(s)'
  BY <1>1 DEF RepairsOf, Repairing, RepairStages
<1>5. HolderOf(s)' = d
  <2>1. HolderOf(s)' \in RepairsOf(s)'
    BY <1>4 DEF HolderOf
  <2> QED
    BY <1>0, <1>4, <2>1 DEF OneHolder
<1>6. ASSUME NEW r \in Shas \ {s} PROVE HolderOf(r)' = HolderOf(r)
  <2>1. RepairsOf(r)' = RepairsOf(r)
    BY <1>0 DEF RepairsOf, Repairing
  <2> QED
    BY <2>1 DEF HolderOf
<1>7. ~PublishedFor(s)
  BY <1>0, PublishedIsActive DEF PublishedFor, PipelinesOf
<1>8. ASSUME NEW r \in Shas PROVE PublishedFor(r)' = PublishedFor(r)
  <2>1. ledger[p] \in AttemptRecord /\ ~ledger[p].published
    BY <1>0, <1>7 DEF PublishedFor, Ledger
  <2>2. ~ClaimedAttempt(ledger[p]).published
    <3>1. RecordAttempt(ledger[p]).published = FALSE
      BY <2>1 DEF RecordAttempt, NoAttempt
    <3>2. RecordAttempt(ledger[p]) \in AttemptRecord
      BY <2>1, RecordAttemptType
    <3> QED
      BY <3>1, <3>2 DEF ClaimedAttempt, AttemptRecord
  <2>3. \A q \in Pipelines : ledger'[q].published = ledger[q].published
    BY <1>0, <2>1, <2>2, ClaimedAttemptType DEF Ledger, AttemptRecord
  <2> QED
    BY <2>3 DEF PublishedFor, PipelinesOf
<1>9. CountAttemptsForSha(ledger', s) = CountAttemptsForSha(ledger, s) + 1
  <2>1. PICK x : /\ RecordedAttempts(ledger', s) = RecordedAttempts(ledger, s) \cup {x}
                 /\ x \notin RecordedAttempts(ledger, s)
    BY <1>0, ClaimAddsOne
  <2>2. IsFiniteSet(RecordedAttempts(ledger, s))
    BY <1>0 DEF RefInv, CapInv
  <2> QED
    BY <2>1, <2>2, FS_AddElement DEF CountAttemptsForSha
<1>10. \A r \in Shas \ {s} : CountAttemptsForSha(ledger', r) = CountAttemptsForSha(ledger, r)
  BY <1>0, ClaimElsewhere DEF CountAttemptsForSha
<1>11. CountAttemptsForSha(ledger, s) < MaxAttemptsPerSha
  <2>1. CountAttemptsForSha(ledger, s) \in Nat
    BY <1>0, FS_CardinalityType DEF RefInv, CapInv, CountAttemptsForSha
  <2> QED
    BY <1>0, <2>1, LedgerAssumption
<1> HIDE DEF p, s
<1>12. [r \in Shas |-> HolderOf(r)]' = [[r \in Shas |-> HolderOf(r)] EXCEPT ![s] = d]
  BY <1>0, <1>5, <1>6
<1>13. [r \in Shas |-> CountAttemptsForSha(ledger, r)]'
         = [[r \in Shas |-> CountAttemptsForSha(ledger, r)] EXCEPT ![s] = @ + 1]
  BY <1>0, <1>9, <1>10
<1>14. [r \in Shas |-> PublishedFor(r)]' = [r \in Shas |-> PublishedFor(r)]
  BY <1>8
<1> QED
  BY <1>0, <1>3, <1>7, <1>11, <1>12, <1>13, <1>14 DEF Slot!Acquire, p, s

\* Any other step publishes, or lets some holders leave.
LEMMA OthersPublishOrVacate ==
  ASSUME RefInv, OneHolder, [Next]_vars,
         ~ \E d \in Deliveries : ClaimRepairSlot(d)
  PROVE  Slot!Vacate \/ \E s \in Shas : Slot!Publish(s)
<1>0. TypeOK /\ \A d \in Deliveries : GoesOn(d)
  BY JobMoves DEF RefInv, CapInv, Starts
<1>1. \A p \in Pipelines : ledger'[p].attempts = ledger[p].attempts
  <2>1. ASSUME NEW t \in live, BeginRerun(t)
        PROVE  \A p \in Pipelines : ledger'[p].attempts = ledger[p].attempts
    BY <1>0, <2>1, KeepsRerun DEF BeginRerun, Keeps, TypeOK, Ledger
  <2> QED
    BY <1>0, <2>1, StepKeeps DEF AllKeepRequests, KeepsRequests, Keeps
<1>2. [r \in Shas |-> CountAttemptsForSha(ledger, r)]'
        = [r \in Shas |-> CountAttemptsForSha(ledger, r)]
  <2>1. \A r \in Shas : RecordedAttempts(ledger', r) = RecordedAttempts(ledger, r)
    BY <1>1, SameAttempts DEF PipelinesOf
  <2> QED
    BY <2>1 DEF CountAttemptsForSha
<1>3. CASE SamePublished
  <2> DEFINE left == {r \in Shas : HolderOf(r)' = NoHolder}
  <2>1. [r \in Shas |-> PublishedFor(r)]' = [r \in Shas |-> PublishedFor(r)]
    BY <1>3 DEF SamePublished, PublishedFor, PipelinesOf
  <2>2. \A r \in Shas :
          HolderOf(r)' = IF r \in left THEN NoHolder ELSE HolderOf(r)
    BY <1>0, HolderKept
  <2>3. left \in SUBSET Shas
    OBVIOUS
  <2> HIDE DEF left
  <2>4. [r \in Shas |-> HolderOf(r)]'
          = [r \in Shas |-> IF r \in left THEN NoHolder
                            ELSE [q \in Shas |-> HolderOf(q)][r]]
    BY <2>2
  <2> QED
    BY <1>2, <2>1, <2>3, <2>4 DEF Slot!Vacate
<1>4. ASSUME NEW p \in Pipelines, PublishesAt(p)
      PROVE  Slot!Publish(ShaOf[p])
  <2> DEFINE s == ShaOf[p]
  <2>1. s \in Shas /\ p \in PipelinesOf(s)
    BY LedgerAssumption DEF PipelinesOf
  <2>2. \A r \in Shas : HolderOf(r)' = HolderOf(r)
    <3>1. \A r \in Shas : RepairsOf(r)' = RepairsOf(r)
      BY <1>4 DEF PublishesAt, RepairsOf
    <3> TAKE r \in Shas
    <3>2. RepairsOf(r)' = RepairsOf(r)
      BY <3>1
    <3> QED
      BY <3>2 DEF HolderOf
  <2>3. PublishedFor(s)'
    BY <1>4, <2>1 DEF PublishesAt, PublishedFor, PipelinesOf
  <2>4. \A r \in Shas \ {s} : PublishedFor(r)' = PublishedFor(r)
    BY <1>4 DEF PublishesAt, PublishedFor, PipelinesOf
  <2>5. CountAttemptsForSha(ledger, s) > 0
    <3>1. ledger[p].attempts \in Nat /\ 1 \in 1 .. ledger[p].attempts
      BY <1>0, <1>4 DEF PublishesAt, TypeOK, Ledger, AttemptRecord
    <3>2. <<p, 1>> \in RecordedAttempts(ledger, s)
      BY <2>1, <3>1, RecordedAttemptsElement
    <3>3. IsFiniteSet(RecordedAttempts(ledger, s))
      BY <2>1 DEF RefInv, CapInv
    <3>4. /\ Cardinality(RecordedAttempts(ledger, s)) \in Nat
          /\ Cardinality(RecordedAttempts(ledger, s)) # 0
      BY <3>2, <3>3, FS_CardinalityType, FS_EmptySet
    <3> QED
      BY <3>4 DEF CountAttemptsForSha
  <2> HIDE DEF s
  <2>6. [r \in Shas |-> PublishedFor(r)]'
          = [[r \in Shas |-> PublishedFor(r)] EXCEPT ![s] = TRUE]
    <3>1. PublishedFor(s)' = TRUE
      BY <2>3 DEF PublishedFor
    <3> QED
      BY <2>1, <2>4, <3>1
  <2> QED
    BY <1>2, <2>1, <2>2, <2>5, <2>6 DEF Slot!Publish, s
<1>5. \A p \in Pipelines : ShaOf[p] \in Shas
  BY LedgerAssumption
<1> QED
  BY <1>3, <1>4, <1>5, PublishSteps

\* As long as no repair outlives the recent window, the service implements the
\* abstract slot: one repair of a commit at a time, at most maxAttemptsPerSha
\* of them, none after a publish (claimRepairSlot, isActiveRepairAttempt).
THEOREM SlotIsImplemented ==
  "window_expires" \notin Faults => (Spec => ImplementsRepairSlot)
<1> SUFFICES ASSUME "window_expires" \notin Faults
             PROVE  Spec => Slot!Spec
  BY DEF ImplementsRepairSlot
<1>1. Init => Slot!Init
  <2> SUFFICES ASSUME Init PROVE Slot!Init
    OBVIOUS
  <2>1. \A s \in Shas : CountAttemptsForSha(ledger, s) = 0
    BY NoAttemptsRecorded, FS_EmptySet DEF CountAttemptsForSha
  <2>2. \A s \in Shas : HolderOf(s) = NoHolder
    BY DEF Init, HolderOf, RepairsOf, Repairing, RepairStages, IdleJob
  <2>3. \A s \in Shas : PublishedFor(s) = FALSE
    BY DEF Init, PublishedFor, PipelinesOf, NoAttempt
  <2> QED
    BY <2>1, <2>2, <2>3 DEF Slot!Init
<1>2. Init => RefInv
  BY RefInit
<1>3. RefInv /\ [Next]_vars => RefInv'
  BY RefStep
<1>4. RefInv /\ RefInv' /\ [Next]_vars => [Slot!Next]_(Slot!slotVars)
  <2> SUFFICES ASSUME RefInv, RefInv', [Next]_vars PROVE Slot!Next
    OBVIOUS
  <2>1. OneHolder /\ OneHolder'
    BY SlotHasOneHolder DEF RefInv, SlotInv, OneRepairPerSha, OneHolder, RepairsOf
  <2>2. ASSUME NEW d \in Deliveries, ClaimRepairSlot(d) PROVE Slot!Next
    <3>1. Starts(d)
      BY <2>2 DEF ClaimRepairSlot, Starts, RefInv, CapInv, TypeOK
    <3>2. ShaOf[PipelineOf[d]] \in Shas
      BY ServiceAssumption, LedgerAssumption
    <3> QED
      BY <2>1, <3>1, <3>2, ClaimAcquires DEF Slot!Next
  <2> QED
    BY <2>1, <2>2, OthersPublishOrVacate DEF Slot!Next
<1> QED
  BY <1>1, <1>2, <1>3, <1>4, PTL DEF Spec, Slot!Spec

=============================================================================
