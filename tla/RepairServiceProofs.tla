------------------------- MODULE RepairServiceProofs -------------------------
(***************************************************************************)
(* Theorems about RepairService, for any number of pipelines, deliveries   *)
(* and sessions, any cap and retry limits, and any set of faults.          *)
(***************************************************************************)
EXTENDS RepairService, FiniteSetTheorems, TLAPS

-----------------------------------------------------------------------------
\* Types.

\* The record of a pipeline nobody has repaired yet is a record.
LEMMA NoAttemptType == NoAttempt \in AttemptRecord
BY DEF NoAttempt, AttemptRecord, StartedWork, SessionStatus, TerminalAction,
       MaxRerunRequests

\* A recorded attempt is a record with one attempt more.
LEMMA RecordAttemptType ==
  ASSUME NEW a \in AttemptRecord
  PROVE  /\ RecordAttempt(a) \in AttemptRecord
         /\ RecordAttempt(a).attempts = a.attempts + 1
<1> DEFINE n == a.attempts + 1
<1>1. n \in Nat
  BY DEF AttemptRecord
<1> HIDE DEF n
<1>2. LET r == [NoAttempt EXCEPT !.attempts = n, !.recent = TRUE]
      IN  r \in AttemptRecord /\ r.attempts = n
  BY <1>1, NoAttemptType DEF AttemptRecord
<1> QED
  BY <1>2 DEF RecordAttempt, n

\* So is a claimed attempt, which is marked as dispatched and unpublished.
LEMMA ClaimedAttemptType ==
  ASSUME NEW a \in AttemptRecord
  PROVE  /\ ClaimedAttempt(a) \in AttemptRecord
         /\ ClaimedAttempt(a).attempts = a.attempts + 1
BY RecordAttemptType DEF ClaimedAttempt, AttemptRecord, StartedWork

\* The other updates of a record keep its type and its number of attempts.
LEMMA MarkerType ==
  ASSUME NEW a \in AttemptRecord, NEW m \in StartedWork
  PROVE  /\ WithMarker(a, m) \in AttemptRecord
         /\ WithoutMarker(a, m) \in AttemptRecord
         /\ WithMarker(a, m).attempts = a.attempts
         /\ WithoutMarker(a, m).attempts = a.attempts
BY DEF WithMarker, WithoutMarker, AttemptRecord

\* Recording an outcome keeps a record well typed.
LEMMA OutcomeType ==
  ASSUME NEW a \in AttemptRecord, NEW status \in SessionStatus,
         NEW terminal \in TerminalAction
  PROVE  /\ WithOutcome(a, status, terminal) \in AttemptRecord
         /\ WithOutcome(a, status, terminal).attempts = a.attempts
BY DEF WithOutcome, AttemptRecord

\* Recording a terminal action keeps a record well typed.
LEMMA TerminalActionType ==
  ASSUME NEW a \in AttemptRecord, NEW action \in TerminalAction
  PROVE  /\ WithTerminalAction(a, action) \in AttemptRecord
         /\ WithTerminalAction(a, action).attempts = a.attempts
<1> DEFINE b == WithOutcome(a, "completed", action)
           v == b.published \/ action = "published"
<1>1. b \in AttemptRecord /\ b.attempts = a.attempts
  BY OutcomeType DEF SessionStatus
<1>2. v \in BOOLEAN
  BY <1>1 DEF AttemptRecord
<1>3. WithTerminalAction(a, action) = [b EXCEPT !.published = v]
  BY DEF WithTerminalAction
<1> HIDE DEF b, v
<1>4. /\ [b EXCEPT !.published = v] \in AttemptRecord
      /\ [b EXCEPT !.published = v].attempts = b.attempts
  BY <1>1, <1>2 DEF AttemptRecord
<1> QED
  BY <1>1, <1>3, <1>4

\* Claiming a rerun request keeps a record well typed.
LEMMA RerunRequestType ==
  ASSUME NEW a \in AttemptRecord, RerunClaimable(a)
  PROVE  /\ WithRerunRequest(a) \in AttemptRecord
         /\ WithRerunRequest(a).attempts = a.attempts
         /\ WithRerunRequest(a).rerunRequests = a.rerunRequests + 1
BY DEF WithRerunRequest, RerunClaimable, AttemptRecord, MaxRerunRequests

\* A record replaced by a record leaves a ledger.
LEMMA LedgerUpdate ==
  ASSUME TypeOK, NEW p \in Pipelines, NEW a \in AttemptRecord,
         ledger' = [ledger EXCEPT ![p] = a]
  PROVE  ledger' \in Ledger
BY DEF TypeOK, Ledger

\* A handler that moves to another stage is still a handler, and a handler
\* that is done is an idle one.
LEMMA JobUpdate ==
  ASSUME TypeOK, NEW d \in Deliveries, NEW j \in Job,
         job' = [job EXCEPT ![d] = j]
  PROVE  job' \in [Deliveries -> Job]
BY DEF TypeOK

\* Moving a job to another stage keeps it well typed.
LEMMA StageType ==
  ASSUME NEW j \in Job, NEW s \in Stages
  PROVE  [j EXCEPT !.stage = s] \in Job
BY DEF Job

\* The idle job is well typed.
LEMMA IdleJobType == IdleJob \in Job
BY ServiceAssumption DEF IdleJob, Job, Stages, TerminalAction

\* A handler's session is a session.
LEMMA SessionOfType ==
  ASSUME TypeOK, NEW d \in Deliveries
  PROVE  SessionOf(d) \in Session
BY ServiceAssumption DEF TypeOK, SessionOf, Session, Job

-----------------------------------------------------------------------------
\* What the parts that several actions share do to the ledger and the handlers.

Typed == ledger' \in Ledger /\ job' \in [Deliveries -> Job]

\* Each ledger write of the service keeps the whole state well typed: first
\* the delivery marker,
LEMMA AddMarkerType ==
  ASSUME TypeOK, NEW p \in Pipelines, NEW m \in StartedWork, AddMarker(p, m)
  PROVE  ledger' \in Ledger
BY MarkerType, LedgerUpdate DEF AddMarker, TypeOK, Ledger

\* the record of a started session,
LEMMA RecordSessionRunningType ==
  ASSUME TypeOK, NEW p \in Pipelines, RecordSessionRunning(p)
  PROVE  ledger' \in Ledger
<1>1. ledger[p] \in AttemptRecord
  BY DEF TypeOK, Ledger
<1>2. WithOutcome(WithMarker(ledger[p], "lastSessionId"), "running", "none")
        \in AttemptRecord
  BY <1>1, MarkerType, OutcomeType
  DEF StartedWork, SessionStatus, TerminalAction
<1> QED
  BY <1>2, LedgerUpdate DEF RecordSessionRunning, TypeOK, Ledger

\* the record of a provider-error retry,
LEMMA PrepareProviderErrorRetryType ==
  ASSUME TypeOK, NEW d \in Deliveries, PrepareProviderErrorRetry(d)
  PROVE  Typed
<1>1. PipelineOf[d] \in Pipelines /\ ledger[PipelineOf[d]] \in AttemptRecord
  BY ServiceAssumption DEF TypeOK, Ledger
<1>2. WithOutcome(WithoutMarker(ledger[PipelineOf[d]], "lastSessionId"),
                  "running", "none") \in AttemptRecord
  BY <1>1, MarkerType, OutcomeType
  DEF StartedWork, SessionStatus, TerminalAction
<1>3. ledger' \in Ledger
  BY <1>1, <1>2, LedgerUpdate DEF PrepareProviderErrorRetry, TypeOK, Ledger
<1>4. /\ job[d] \in Job
      /\ job[d].retries + 1 \in 0 .. ProviderErrorRetries
  BY ServiceAssumption
  DEF PrepareProviderErrorRetry, CanRetryProviderError, TypeOK, Job
<1>5. BackingOff(job[d]) \in Job
  BY <1>4 DEF BackingOff, Job, Stages
<1>6. job' \in [Deliveries -> Job]
  BY <1>5, JobUpdate DEF PrepareProviderErrorRetry
<1> QED
  BY <1>3, <1>6 DEF Typed

\* the record of a continuation,
LEMMA PrepareContinuationType ==
  ASSUME TypeOK, NEW d \in Deliveries, PrepareContinuation(d)
  PROVE  Typed
<1>1. PipelineOf[d] \in Pipelines /\ ledger[PipelineOf[d]] \in AttemptRecord
  BY ServiceAssumption DEF TypeOK, Ledger
<1>2. WithOutcome(ledger[PipelineOf[d]], "running", "none") \in AttemptRecord
  BY <1>1, OutcomeType DEF SessionStatus, TerminalAction
<1>3. ledger' \in Ledger
  BY <1>1, <1>2, LedgerUpdate DEF PrepareContinuation, TypeOK, Ledger
<1>4. /\ job[d] \in Job
      /\ job[d].continuations + 1 \in 0 .. MaxContinuations
  BY ServiceAssumption DEF PrepareContinuation, TypeOK, Job
<1>5. Continuing(job[d]) \in Job
  BY <1>4 DEF Continuing, Job, Stages
<1>6. job' \in [Deliveries -> Job]
  BY <1>5, JobUpdate DEF PrepareContinuation
<1> QED
  BY <1>3, <1>6 DEF Typed

\* the record of an attempt left to a redelivery,
LEMMA GiveUpForRedeliveryType ==
  ASSUME TypeOK, NEW d \in Deliveries, NEW status \in SessionStatus,
         GiveUpForRedelivery(d, status)
  PROVE  Typed
<1>1. PipelineOf[d] \in Pipelines /\ ledger[PipelineOf[d]] \in AttemptRecord
  BY ServiceAssumption DEF TypeOK, Ledger
<1>2. WithOutcome(WithoutMarker(ledger[PipelineOf[d]], "dispatchedAt"),
                  status, "none") \in AttemptRecord
  BY <1>1, MarkerType, OutcomeType DEF StartedWork, TerminalAction
<1>3. ledger' \in Ledger
  BY <1>1, <1>2, LedgerUpdate DEF GiveUpForRedelivery, TypeOK, Ledger
<1>4. job' \in [Deliveries -> Job]
  BY StageType, JobUpdate DEF GiveUpForRedelivery, TypeOK, Stages
<1> QED
  BY <1>3, <1>4 DEF Typed

\* the record of a finished repair,
LEMMA SettleRepairType ==
  ASSUME TypeOK, NEW d \in Deliveries, NEW status \in SessionStatus,
         NEW terminal \in TerminalAction, SettleRepair(d, status, terminal)
  PROVE  Typed
<1>1. PipelineOf[d] \in Pipelines /\ ledger[PipelineOf[d]] \in AttemptRecord
  BY ServiceAssumption DEF TypeOK, Ledger
<1>2. ledger' \in Ledger
  BY <1>1, OutcomeType, LedgerUpdate DEF SettleRepair, TypeOK, Ledger
<1>3. job' \in [Deliveries -> Job]
  BY IdleJobType, JobUpdate DEF SettleRepair
<1> QED
  BY <1>2, <1>3 DEF Typed

\* and the record of a tool's terminal action.
LEMMA RecordTerminalActionType ==
  ASSUME TypeOK, NEW t \in Session, NEW action \in TerminalAction,
         RecordTerminalAction(t, action)
  PROVE  Typed
<1>1. t.pipeline \in Pipelines /\ ledger[t.pipeline] \in AttemptRecord
  BY DEF TypeOK, Ledger, Session
<1>2. ledger' \in Ledger
  BY <1>1, TerminalActionType, LedgerUpdate DEF RecordTerminalAction
<1>3. \A d \in Deliveries : [job[d] EXCEPT !.seen = action] \in Job
  BY DEF TypeOK, Job
<1>4. job' \in [Deliveries -> Job]
  BY <1>3 DEF RecordTerminalAction, TypeOK
<1> QED
  BY <1>2, <1>4 DEF Typed

-----------------------------------------------------------------------------
\* TypeOK is an invariant.

LEMMA HandlerStepType ==
  ASSUME TypeOK, NEW d \in Deliveries, HandlerStep(d)
  PROVE  TypeOK'
<1> USE ServiceAssumption DEF sessionVars
<1>0. /\ PipelineOf[d] \in Pipelines
      /\ ledger[PipelineOf[d]] \in AttemptRecord
      /\ job[d] \in Job
  BY DEF TypeOK, Ledger
<1>t. ASSUME Typed, UNCHANGED <<processed, calls, reruns>>,
             live' \subseteq live \cup {SessionOf(d)}
      PROVE  TypeOK'
  BY <1>t, SessionOfType DEF TypeOK, Typed
<1>1. ASSUME ClaimRepairSlot(d) PROVE TypeOK'
  <2>1. ledger' \in Ledger
    BY <1>0, <1>1, ClaimedAttemptType, LedgerUpdate
    DEF ClaimRepairSlot, TypeOK, Ledger
  <2>2. ClaimedAttempt(ledger[PipelineOf[d]]).attempts \in Nat
    BY <1>0, ClaimedAttemptType DEF AttemptRecord
  <2>3. Seeding(job[d], ClaimedAttempt(ledger[PipelineOf[d]]).attempts) \in Job
    BY <1>0, <2>2 DEF Seeding, Job, Stages
  <2>4. job' \in [Deliveries -> Job]
    BY <1>1, <2>3, JobUpdate DEF ClaimRepairSlot
  <2> QED
    BY <1>t, <1>1, <2>1, <2>4 DEF ClaimRepairSlot, Typed
<1>2. ASSUME RefuseRepairSlot(d) PROVE TypeOK'
  <2>1. job' \in [Deliveries -> Job]
    BY <1>2, IdleJobType, JobUpdate DEF RefuseRepairSlot
  <2> QED
    BY <1>2, <2>1 DEF RefuseRepairSlot, TypeOK
<1>3. ASSUME SeedFailureContext(d) PROVE TypeOK'
  <2>1. ledger' \in Ledger
    BY <1>0, <1>3, AddMarkerType DEF SeedFailureContext, StartedWork
  <2>2. job' \in [Deliveries -> Job]
    BY <1>0, <1>3, StageType, JobUpdate DEF SeedFailureContext, Stages
  <2> QED
    BY <1>t, <1>3, <2>1, <2>2 DEF SeedFailureContext, Typed
<1>4. ASSUME SendSucceeds(d) PROVE TypeOK'
  <2>1. ledger' \in Ledger
    BY <1>0, <1>4, RecordSessionRunningType DEF SendSucceeds
  <2>2. 0 \in 0 .. MaxContinuations
    OBVIOUS
  <2>3. WatchingAnew(job[d]) \in Job
    BY <1>0, <2>2 DEF WatchingAnew, Job, Stages, TerminalAction
  <2>4. job' \in [Deliveries -> Job]
    BY <1>4, <2>3, JobUpdate DEF SendSucceeds
  <2> QED
    BY <1>t, <1>4, <2>1, <2>4 DEF SendSucceeds, Typed
<1>5. ASSUME SendFailsRetryably(d) PROVE TypeOK'
  BY <1>t, <1>5, PrepareProviderErrorRetryType DEF SendFailsRetryably
<1>6. ASSUME SendFails(d) PROVE TypeOK'
  <2> DEFINE a == WithoutMarker(ledger[PipelineOf[d]], "dispatchedAt")
  <2>1. a \in AttemptRecord /\ ledger[PipelineOf[d]].terminal \in TerminalAction
    BY <1>0, MarkerType DEF StartedWork, AttemptRecord
  <2>2. WithOutcome(a, "failed", ledger[PipelineOf[d]].terminal)
          \in AttemptRecord
    BY <2>1, OutcomeType DEF SessionStatus
  <2>3. ledger' \in Ledger
    BY <1>0, <1>6, <2>2, LedgerUpdate DEF SendFails
  <2>4. job' \in [Deliveries -> Job]
    BY <1>0, <1>6, StageType, JobUpdate DEF SendFails, Stages
  <2> QED
    BY <1>t, <1>6, <2>3, <2>4 DEF SendFails, Typed
<1>7. ASSUME BackoffEnds(d) PROVE TypeOK'
  <2>1. job' \in [Deliveries -> Job]
    BY <1>0, <1>7, StageType, JobUpdate DEF BackoffEnds, Stages
  <2> QED
    BY <1>7, <2>1 DEF BackoffEnds, TypeOK
<1>8. ASSUME Observe(d) PROVE TypeOK'
  <2>1. job[d].seen \in TerminalAction
    BY <1>0 DEF Job
  <2>2. SessionStopped(d) => Typed
    BY <2>1, SettleRepairType, PrepareContinuationType, GiveUpForRedeliveryType
    DEF SessionStopped, SessionStatus
  <2>3. SessionFailed(d) => Typed
    BY <2>1, SettleRepairType, PrepareProviderErrorRetryType,
       GiveUpForRedeliveryType
    DEF SessionFailed, SessionStatus
  <2>4. MonitorGivesUp(d) => Typed
    BY <2>1, SettleRepairType, GiveUpForRedeliveryType
    DEF MonitorGivesUp, SessionStatus
  <2>5. StreamEnds(d) => Typed
    BY <2>1, SettleRepairType, PrepareContinuationType, GiveUpForRedeliveryType
    DEF StreamEnds, SessionStatus, TerminalAction
  <2> QED
    BY <1>t, <1>8, <2>2, <2>3, <2>4, <2>5
    DEF Observe, ObserveStop, ObserveFailure, TurnEnds, MonitorGivesUp,
        StreamEnds
<1>9. ASSUME ContinuationSucceeds(d) PROVE TypeOK'
  <2>1. ledger' \in Ledger
    BY <1>0, <1>9, RecordSessionRunningType DEF ContinuationSucceeds
  <2>2. job' \in [Deliveries -> Job]
    BY <1>0, <1>9, StageType, JobUpdate DEF ContinuationSucceeds, Stages
  <2> QED
    BY <1>t, <1>9, <2>1, <2>2 DEF ContinuationSucceeds, Typed
<1>10. ASSUME ContinuationFails(d) PROVE TypeOK'
  <2>1. ledger' \in Ledger
    BY <1>0, <1>10, MarkerType, LedgerUpdate DEF ContinuationFails, StartedWork
  <2>2. job' \in [Deliveries -> Job]
    BY <1>0, <1>10, StageType, JobUpdate DEF ContinuationFails, Stages
  <2> QED
    BY <1>t, <1>10, <2>1, <2>2 DEF ContinuationFails, Typed
<1>11. ASSUME ReleaseDelivery(d) PROVE TypeOK'
  <2>1. job' \in [Deliveries -> Job]
    BY <1>11, IdleJobType, JobUpdate DEF ReleaseDelivery
  <2> QED
    BY <1>11, <2>1 DEF ReleaseDelivery, TypeOK
<1> QED
  BY <1>1, <1>2, <1>3, <1>4, <1>5, <1>6, <1>7, <1>8, <1>9, <1>10, <1>11
  DEF HandlerStep, Send, Continue

\* Every step of a tool keeps the state well typed.
LEMMA ToolStepType ==
  ASSUME TypeOK, NEW t \in live, ToolStep(t)
  PROVE  TypeOK'
<1> USE DEF sessionVars
<1>0. /\ t \in Session
      /\ t.pipeline \in Pipelines
      /\ ledger[t.pipeline] \in AttemptRecord
  BY DEF TypeOK, Ledger, Session
<1>1. ASSUME StageRepositorySnapshot(t) PROVE TypeOK'
  BY <1>0, <1>1, AddMarkerType
  DEF StageRepositorySnapshot, TypeOK, StartedWork
<1>2. ASSUME GetFailureContext(t) PROVE TypeOK'
  BY <1>0, <1>2, AddMarkerType DEF GetFailureContext, TypeOK, StartedWork
<1>3. ASSUME PostProviderComment(t) PROVE TypeOK'
  BY <1>0, <1>3, RecordTerminalActionType
  DEF PostProviderComment, TypeOK, Typed, TerminalAction
<1>4. ASSUME MergeChange(t) PROVE TypeOK'
  BY <1>0, <1>4, RecordTerminalActionType
  DEF MergeChange, TypeOK, Typed, TerminalAction
<1>5. ASSUME NEW tool \in {"run_repo_checks", "publish_fix"},
             BeginStagedTool(t, tool)
      PROVE  TypeOK'
  BY <1>0, <1>5 DEF BeginStagedTool, TypeOK, ToolCall, SplitTools
<1>6. ASSUME BeginRerun(t) PROVE TypeOK'
  <2>1. ledger' \in Ledger
    BY <1>0, <1>6, RerunRequestType, LedgerUpdate DEF BeginRerun
  <2>2. calls' \subseteq ToolCall
    BY <1>0, <1>6 DEF BeginRerun, TypeOK, ToolCall, SplitTools
  <2>3. reruns' \in [Pipelines -> Nat]
    BY <1>0, <1>6 DEF BeginRerun, TypeOK
  <2> QED
    BY <1>6, <2>1, <2>2, <2>3 DEF BeginRerun, TypeOK
<1> QED
  BY <1>1, <1>2, <1>3, <1>4, <1>5, <1>6 DEF ToolStep, BeginTool

\* The end of a session keeps the state well typed.
LEMMA FinishType ==
  ASSUME TypeOK, NEW c \in calls, PublishBeforeMerge(c) \/ FinishTool(c)
  PROVE  TypeOK'
<1>0. /\ c \in ToolCall
      /\ c.session \in Session
      /\ c.session.pipeline \in Pipelines
      /\ ledger[c.session.pipeline] \in AttemptRecord
  BY DEF TypeOK, Ledger, ToolCall, Session
<1>1. ASSUME PublishBeforeMerge(c) PROVE TypeOK'
  <2>1. [ledger[c.session.pipeline] EXCEPT !.published = TRUE] \in AttemptRecord
    BY <1>0 DEF AttemptRecord
  <2>2. ledger' \in Ledger
    BY <1>0, <1>1, <2>1, LedgerUpdate DEF PublishBeforeMerge
  <2>3. calls' \subseteq ToolCall
    BY <1>0, <1>1 DEF PublishBeforeMerge, TypeOK, ToolCall, SplitTools
  <2> QED
    BY <1>1, <2>2, <2>3 DEF PublishBeforeMerge, TypeOK
<1>2. ASSUME FinishTool(c) PROVE TypeOK'
  <2>1. FinishChecks(c) => Typed
    BY <1>0, AddMarkerType DEF FinishChecks, Typed, TypeOK, StartedWork
  <2>2. FinishPublish(c) => Typed
    BY <1>0, RecordTerminalActionType DEF FinishPublish, TerminalAction
  <2>3. FinishRerun(c) => Typed
    BY <1>0, RecordTerminalActionType
    DEF FinishRerun, TerminalAction, Typed, TypeOK
  <2> QED
    BY <1>2, <2>1, <2>2, <2>3 DEF FinishTool, TypeOK, Typed
<1> QED
  BY <1>1, <1>2

\* Crashes, deliveries and expiring windows keep the state well typed.
LEMMA EnvironmentType ==
  ASSUME TypeOK,
         \/ \E d \in Deliveries : ReceiveFailure(d) \/ RejectFailure(d)
         \/ \E p \in Pipelines : WindowExpires(p)
         \/ Crash
  PROVE  TypeOK'
<1> USE DEF sessionVars
<1>1. ASSUME NEW d \in Deliveries, ReceiveFailure(d) PROVE TypeOK'
  <2>1. [IdleJob EXCEPT !.stage = "claiming"] \in Job
    BY IdleJobType, StageType DEF Stages
  <2>2. job' \in [Deliveries -> Job]
    BY <1>1, <2>1, JobUpdate DEF ReceiveFailure, TypeOK
  <2> QED
    BY <1>1, <2>2 DEF ReceiveFailure, MarkDeliveryProcessed, TypeOK
<1>2. ASSUME NEW p \in Pipelines, WindowExpires(p) PROVE TypeOK'
  <2>1. [ledger[p] EXCEPT !.recent = FALSE] \in AttemptRecord
    BY DEF TypeOK, Ledger, AttemptRecord
  <2>2. ledger' \in Ledger
    BY <1>2, <2>1, LedgerUpdate DEF WindowExpires
  <2> QED
    BY <1>2, <2>2 DEF WindowExpires, TypeOK
<1>3. ASSUME Crash PROVE TypeOK'
  BY <1>3, IdleJobType DEF Crash, TypeOK
<1>4. ASSUME NEW d \in Deliveries, RejectFailure(d) PROVE TypeOK'
  BY <1>4 DEF RejectFailure, MarkDeliveryProcessed, TypeOK
<1> QED
  BY <1>1, <1>2, <1>3, <1>4

\* Every step keeps the types.
LEMMA TypeStep ==
  ASSUME TypeOK, [Next]_vars
  PROVE  TypeOK'
<1>1. CASE UNCHANGED vars
  BY <1>1 DEF vars, TypeOK
<1> QED
  BY <1>1, HandlerStepType, ToolStepType, FinishType, EnvironmentType DEF Next

\* Every variable keeps its type: retries and continuations stay within their
\* limits whatever the sessions answer, and a record is only ever replaced by a
\* record (repair-service.ts, state.ts).
THEOREM TypeInvariant == Spec => []TypeOK
<1>1. Init => TypeOK
  BY NoAttemptType, IdleJobType DEF Init, TypeOK, Ledger
<1>2. TypeOK /\ [Next]_vars => TypeOK'
  BY TypeStep
<1> QED
  BY <1>1, <1>2, PTL DEF Spec

-----------------------------------------------------------------------------
\* What a step does to the records: all but a claim keep the attempts and what
\* is published, all but a rerun request keep the requests as well.

Keeps(a, b) ==
  /\ b.attempts = a.attempts
  /\ a.published => b.published

KeepsRequests(a, b) == Keeps(a, b) /\ b.rerunRequests = a.rerunRequests

\* Each record update keeps the facts the invariants rest on: adding a
\* marker,
LEMMA KeepsMarker ==
  ASSUME NEW a \in AttemptRecord, NEW m \in StartedWork
  PROVE  /\ KeepsRequests(a, WithMarker(a, m))
         /\ KeepsRequests(a, WithoutMarker(a, m))
BY DEF KeepsRequests, Keeps, AttemptRecord, WithMarker, WithoutMarker

\* recording an outcome,
LEMMA KeepsOutcome ==
  ASSUME NEW a \in AttemptRecord, NEW status \in SessionStatus,
         NEW terminal \in TerminalAction
  PROVE  KeepsRequests(a, WithOutcome(a, status, terminal))
BY DEF KeepsRequests, Keeps, AttemptRecord, WithOutcome

\* recording a terminal action,
LEMMA KeepsTerminalAction ==
  ASSUME NEW a \in AttemptRecord, NEW action \in TerminalAction
  PROVE  KeepsRequests(a, WithTerminalAction(a, action))
<1>1. /\ WithOutcome(a, "completed", action) \in AttemptRecord
      /\ KeepsRequests(a, WithOutcome(a, "completed", action))
  BY OutcomeType, KeepsOutcome DEF SessionStatus
<1> QED
  BY <1>1 DEF WithTerminalAction, KeepsRequests, Keeps, AttemptRecord

\* publishing,
LEMMA KeepsPublished ==
  ASSUME NEW a \in AttemptRecord
  PROVE  /\ [a EXCEPT !.published = TRUE] \in AttemptRecord
         /\ KeepsRequests(a, [a EXCEPT !.published = TRUE])
BY DEF KeepsRequests, Keeps, AttemptRecord

\* letting the slot's window pass,
LEMMA KeepsExpired ==
  ASSUME NEW a \in AttemptRecord
  PROVE  /\ [a EXCEPT !.recent = FALSE] \in AttemptRecord
         /\ KeepsRequests(a, [a EXCEPT !.recent = FALSE])
BY DEF KeepsRequests, Keeps, AttemptRecord

\* claiming a rerun,
LEMMA KeepsRerun ==
  ASSUME NEW a \in AttemptRecord
  PROVE  Keeps(a, WithRerunRequest(a))
BY DEF Keeps, AttemptRecord, WithRerunRequest

\* and recording an outcome together with the session marker.
LEMMA KeepsOutcomeOf ==
  ASSUME NEW a \in AttemptRecord, NEW m \in StartedWork,
         NEW status \in SessionStatus, NEW terminal \in TerminalAction
  PROVE  /\ KeepsRequests(a, WithOutcome(WithMarker(a, m), status, terminal))
         /\ KeepsRequests(a, WithOutcome(WithoutMarker(a, m), status, terminal))
<1>1. WithMarker(a, m) \in AttemptRecord /\ WithoutMarker(a, m) \in AttemptRecord
  BY MarkerType
<1> QED
  BY <1>1, KeepsMarker, KeepsOutcome DEF KeepsRequests, Keeps

AllKeepRequests == \A p \in Pipelines : KeepsRequests(ledger[p], ledger'[p])

\* A step that replaces one record and keeps its facts keeps them all.
LEMMA KeepsAll ==
  ASSUME TypeOK, NEW p \in Pipelines, NEW a \in AttemptRecord,
         KeepsRequests(ledger[p], a), ledger' = [ledger EXCEPT ![p] = a]
  PROVE  AllKeepRequests
BY DEF AllKeepRequests, KeepsRequests, Keeps, TypeOK, Ledger

\* An unchanged ledger keeps every record's facts.
LEMMA UnchangedKeeps ==
  ASSUME UNCHANGED ledger
  PROVE  AllKeepRequests
BY DEF AllKeepRequests, KeepsRequests, Keeps

\* Every step of a handler but the claim keeps every record's facts,
LEMMA HandlerKeeps ==
  ASSUME TypeOK, NEW d \in Deliveries, HandlerStep(d), ~ClaimRepairSlot(d)
  PROVE  AllKeepRequests
<1> USE ServiceAssumption DEF StartedWork, SessionStatus, TerminalAction
<1> DEFINE p == PipelineOf[d]
           a == ledger[p]
<1>0. /\ p \in Pipelines
      /\ a \in AttemptRecord
      /\ job[d].seen \in TerminalAction
  BY DEF TypeOK, Ledger, Job
<1>a. ASSUME NEW b, KeepsRequests(a, b), ledger' = [ledger EXCEPT ![p] = b]
      PROVE  AllKeepRequests
  BY <1>0, <1>a DEF AllKeepRequests, KeepsRequests, Keeps, TypeOK, Ledger
<1>1. ASSUME SeedFailureContext(d) PROVE AllKeepRequests
  BY <1>0, <1>a, <1>1, KeepsMarker DEF SeedFailureContext, AddMarker
<1>2. ASSUME RecordSessionRunning(p) PROVE AllKeepRequests
  BY <1>0, <1>a, <1>2, KeepsOutcomeOf DEF RecordSessionRunning
<1>3. ASSUME PrepareProviderErrorRetry(d) PROVE AllKeepRequests
  BY <1>0, <1>a, <1>3, KeepsOutcomeOf DEF PrepareProviderErrorRetry
<1>4. ASSUME SendFails(d) PROVE AllKeepRequests
  <2>1. a.terminal \in TerminalAction
    BY <1>0 DEF AttemptRecord
  <2>2. KeepsRequests(a, WithOutcome(WithoutMarker(a, "dispatchedAt"),
                                     "failed", a.terminal))
    BY <1>0, <2>1, KeepsOutcomeOf
  <2> QED
    BY <1>a, <1>4, <2>2 DEF SendFails
<1>5. ASSUME NEW status \in SessionStatus, GiveUpForRedelivery(d, status)
      PROVE  AllKeepRequests
  BY <1>0, <1>a, <1>5, KeepsOutcomeOf DEF GiveUpForRedelivery
<1>6. ASSUME NEW status \in SessionStatus, NEW terminal \in TerminalAction,
             SettleRepair(d, status, terminal)
      PROVE  AllKeepRequests
  BY <1>0, <1>a, <1>6, KeepsOutcome DEF SettleRepair
<1>7. ASSUME PrepareContinuation(d) PROVE AllKeepRequests
  BY <1>0, <1>a, <1>7, KeepsOutcome DEF PrepareContinuation
<1>8. ASSUME ContinuationFails(d) PROVE AllKeepRequests
  BY <1>0, <1>a, <1>8, KeepsMarker DEF ContinuationFails
<1>9. ASSUME RefuseRepairSlot(d) \/ BackoffEnds(d) \/ ReleaseDelivery(d)
      PROVE  AllKeepRequests
  BY <1>9, UnchangedKeeps DEF RefuseRepairSlot, BackoffEnds, ReleaseDelivery
<1>10. Send(d) \/ Continue(d) => AllKeepRequests
  BY <1>2, <1>3, <1>4, <1>8
  DEF Send, Continue, SendSucceeds, SendFailsRetryably, ContinuationSucceeds
<1>11. SessionStopped(d) => AllKeepRequests
  BY <1>0, <1>5, <1>6, <1>7 DEF SessionStopped
<1>12. SessionFailed(d) => AllKeepRequests
  BY <1>0, <1>3, <1>5, <1>6 DEF SessionFailed
<1>13. Observe(d) => AllKeepRequests
  BY <1>0, <1>5, <1>6, <1>7, <1>11, <1>12
  DEF Observe, ObserveStop, ObserveFailure, MonitorGivesUp, StreamEnds
<1> QED
  BY <1>1, <1>9, <1>10, <1>13 DEF HandlerStep

\* every step of a tool does,
LEMMA ToolKeeps ==
  ASSUME TypeOK, NEW t \in Session, ToolStep(t), ~BeginRerun(t)
  PROVE  AllKeepRequests
<1> USE DEF StartedWork, SessionStatus, TerminalAction
<1>0. t.pipeline \in Pipelines /\ ledger[t.pipeline] \in AttemptRecord
  BY DEF TypeOK, Ledger, Session
<1>1. ASSUME NEW m \in StartedWork, AddMarker(t.pipeline, m)
      PROVE  AllKeepRequests
  BY <1>0, <1>1, KeepsMarker, MarkerType, KeepsAll DEF AddMarker
<1>2. ASSUME NEW action \in TerminalAction, RecordTerminalAction(t, action)
      PROVE  AllKeepRequests
  BY <1>0, <1>2, KeepsTerminalAction, TerminalActionType, KeepsAll
  DEF RecordTerminalAction
<1> QED
  BY <1>1, <1>2, UnchangedKeeps
  DEF ToolStep, StageRepositorySnapshot, GetFailureContext,
      PostProviderComment, MergeChange, BeginTool, BeginStagedTool

\* and so does the end of a session.
LEMMA FinishKeeps ==
  ASSUME TypeOK, NEW c \in calls, PublishBeforeMerge(c) \/ FinishTool(c)
  PROVE  AllKeepRequests
<1> USE DEF StartedWork, SessionStatus, TerminalAction
<1> DEFINE p == c.session.pipeline
<1>0. p \in Pipelines /\ ledger[p] \in AttemptRecord
  BY DEF TypeOK, Ledger, ToolCall, Session
<1>1. ASSUME AddMarker(p, "lastVerification") PROVE AllKeepRequests
  BY <1>0, <1>1, KeepsMarker, MarkerType, KeepsAll DEF AddMarker
<1>2. ASSUME NEW action \in TerminalAction,
             RecordTerminalAction(c.session, action)
      PROVE  AllKeepRequests
  BY <1>0, <1>2, KeepsTerminalAction, TerminalActionType, KeepsAll
  DEF RecordTerminalAction
<1>3. ASSUME PublishBeforeMerge(c) PROVE AllKeepRequests
  BY <1>0, <1>3, KeepsPublished, KeepsAll DEF PublishBeforeMerge
<1> QED
  BY <1>1, <1>2, <1>3, UnchangedKeeps
  DEF FinishTool, FinishChecks, FinishPublish, FinishRerun

\* So every step but a claim and the start of a rerun keeps every record's
\* facts and reruns nothing.
LEMMA StepKeeps ==
  ASSUME TypeOK, [Next]_vars
  PROVE  \/ \E d \in Deliveries : ClaimRepairSlot(d)
         \/ \E t \in live : BeginRerun(t)
         \/ AllKeepRequests /\ reruns' = reruns
<1>1. ASSUME NEW d \in Deliveries, HandlerStep(d)
      PROVE  ClaimRepairSlot(d) \/ (AllKeepRequests /\ reruns' = reruns)
  BY <1>1, HandlerKeeps
  DEF HandlerStep, RefuseRepairSlot, SeedFailureContext, Send, SendSucceeds,
      SendFailsRetryably, SendFails, BackoffEnds, Observe, ObserveStop,
      ObserveFailure, TurnEnds, MonitorGivesUp, StreamEnds, Continue,
      ContinuationSucceeds, ContinuationFails, ReleaseDelivery, sessionVars
<1>2. ASSUME NEW t \in live, ToolStep(t)
      PROVE  BeginRerun(t) \/ (AllKeepRequests /\ reruns' = reruns)
  BY <1>2, ToolKeeps
  DEF ToolStep, StageRepositorySnapshot, GetFailureContext,
      PostProviderComment, MergeChange, BeginTool, BeginStagedTool,
      sessionVars, TypeOK
<1>3. ASSUME NEW c \in calls, PublishBeforeMerge(c) \/ FinishTool(c)
      PROVE  AllKeepRequests /\ reruns' = reruns
  BY <1>3, FinishKeeps DEF PublishBeforeMerge, FinishTool
<1>4. ASSUME NEW p \in Pipelines, WindowExpires(p)
      PROVE  AllKeepRequests /\ reruns' = reruns
  <2>1. ledger[p] \in AttemptRecord
    BY DEF TypeOK, Ledger
  <2> QED
    BY <1>4, <2>1, KeepsExpired, KeepsAll DEF WindowExpires, sessionVars
<1>5. ASSUME \/ \E d \in Deliveries : ReceiveFailure(d) \/ RejectFailure(d)
             \/ Crash
             \/ UNCHANGED vars
      PROVE  AllKeepRequests /\ reruns' = reruns
  BY <1>5, UnchangedKeeps DEF ReceiveFailure, RejectFailure, Crash, vars, sessionVars
<1> QED
  BY <1>1, <1>2, <1>3, <1>4, <1>5 DEF Next

-----------------------------------------------------------------------------
\* The attempts of a commit.

LEMMA RecordedAttemptsElement ==
  ASSUME NEW L, NEW s, NEW x
  PROVE  x \in RecordedAttempts(L, s) <=>
           \E p \in PipelinesOf(s) : \E i \in 1 .. L[p].attempts : x = <<p, i>>
BY DEF RecordedAttempts

\* Ledgers whose records agree on attempts count the same per commit.
LEMMA SameAttempts ==
  ASSUME NEW L, NEW M, NEW s,
         \A p \in PipelinesOf(s) : M[p].attempts = L[p].attempts
  PROVE  RecordedAttempts(M, s) = RecordedAttempts(L, s)
BY RecordedAttemptsElement

\* A claim records one attempt of its commit that was not recorded before.
LEMMA ClaimAddsOne ==
  ASSUME NEW L \in Ledger, NEW p \in Pipelines
  PROVE  LET M == [L EXCEPT ![p] = ClaimedAttempt(@)]
             x == <<p, L[p].attempts + 1>>
         IN  /\ RecordedAttempts(M, ShaOf[p]) =
                  RecordedAttempts(L, ShaOf[p]) \cup {x}
             /\ x \notin RecordedAttempts(L, ShaOf[p])
<1> DEFINE M == [L EXCEPT ![p] = ClaimedAttempt(@)]
           n == L[p].attempts
           s == ShaOf[p]
<1>1. n \in Nat /\ p \in PipelinesOf(s)
  BY DEF Ledger, AttemptRecord, PipelinesOf
<1>2. M[p].attempts = n + 1
  BY ClaimedAttemptType DEF Ledger
<1>3. \A q \in PipelinesOf(s) \ {p} : M[q].attempts = L[q].attempts
  BY DEF Ledger, PipelinesOf
<1> HIDE DEF M, n, s
<1>4. \A x : x \in RecordedAttempts(M, s)
              <=> x \in RecordedAttempts(L, s) \/ x = <<p, n + 1>>
  <2> TAKE x
  <2>1. CASE \E i : x = <<p, i>>
    <3> PICK i : x = <<p, i>>
      BY <2>1
    <3>1. x \in RecordedAttempts(M, s) <=> i \in 1 .. (n + 1)
      BY <1>1, <1>2, RecordedAttemptsElement
    <3>2. x \in RecordedAttempts(L, s) <=> i \in 1 .. n
      BY <1>1, RecordedAttemptsElement DEF n
    <3> QED
      BY <1>1, <3>1, <3>2
  <2>2. CASE ~\E i : x = <<p, i>>
    BY <1>3, <2>2, RecordedAttemptsElement
  <2> QED
    BY <2>1, <2>2
<1>5. <<p, n + 1>> \notin RecordedAttempts(L, s)
  <2> SUFFICES ASSUME <<p, n + 1>> \in RecordedAttempts(L, s) PROVE FALSE
    OBVIOUS
  <2>1. PICK q \in PipelinesOf(s) :
          \E i \in 1 .. L[q].attempts : <<p, n + 1>> = <<q, i>>
    BY RecordedAttemptsElement
  <2>2. n + 1 \in 1 .. n
    BY <2>1 DEF n
  <2> QED
    BY <1>1, <2>2
<1> QED
  BY <1>4, <1>5 DEF M, n, s

\* A claim leaves the attempts of every other commit alone.
LEMMA ClaimElsewhere ==
  ASSUME NEW L \in Ledger, NEW p \in Pipelines, NEW s, s # ShaOf[p]
  PROVE  RecordedAttempts([L EXCEPT ![p] = ClaimedAttempt(@)], s) =
           RecordedAttempts(L, s)
<1>1. \A q \in PipelinesOf(s) :
        [L EXCEPT ![p] = ClaimedAttempt(@)][q].attempts = L[q].attempts
  BY DEF Ledger, PipelinesOf
<1> QED
  BY <1>1, SameAttempts

\* The cap, with what makes counting attempts meaningful: a cardinality says
\* nothing of a set that might be infinite.
CapInv ==
  /\ TypeOK
  /\ \A s \in Shas : IsFiniteSet(RecordedAttempts(ledger, s))
  /\ AttemptsWithinCap

\* The empty ledger counts no attempt.
LEMMA NoAttemptsRecorded ==
  ASSUME Init, NEW s \in Shas
  PROVE  RecordedAttempts(ledger, s) = {}
<1>1. \A p \in Pipelines : ledger[p].attempts = 0
  BY DEF Init, NoAttempt
<1>2. 1 .. 0 = {}
  OBVIOUS
<1> QED
  BY <1>1, <1>2, RecordedAttemptsElement DEF PipelinesOf

\* The cap's invariant holds at first,
LEMMA CapInit ==
  ASSUME Init
  PROVE  CapInv
<1>1. TypeOK
  BY NoAttemptType, IdleJobType DEF Init, TypeOK, Ledger
<1>2. ASSUME NEW s \in Shas
      PROVE  /\ IsFiniteSet(RecordedAttempts(ledger, s))
             /\ CountAttemptsForSha(ledger, s) <= MaxAttemptsPerSha
  <2>1. RecordedAttempts(ledger, s) = {}
    BY NoAttemptsRecorded
  <2>2. IsFiniteSet({}) /\ Cardinality({}) = 0
    BY FS_EmptySet
  <2> QED
    BY <2>1, <2>2, LedgerAssumption DEF CountAttemptsForSha
<1> QED
  BY <1>1, <1>2 DEF CapInv, AttemptsWithinCap

\* and every step keeps it.
LEMMA CapStep ==
  ASSUME CapInv, [Next]_vars
  PROVE  CapInv'
<1>0. TypeOK /\ TypeOK'
  BY TypeStep DEF CapInv
<1>1. ASSUME NEW d \in Deliveries, ClaimRepairSlot(d)
      PROVE  \A s \in Shas :
               /\ IsFiniteSet(RecordedAttempts(ledger', s))
               /\ CountAttemptsForSha(ledger', s) <= MaxAttemptsPerSha
  <2> TAKE s \in Shas
  <2> DEFINE p == PipelineOf[d]
             R == RecordedAttempts(ledger, s)
  <2>1. /\ p \in Pipelines
        /\ ledger \in Ledger
        /\ ledger' = [ledger EXCEPT ![p] = ClaimedAttempt(@)]
        /\ IsFiniteSet(R)
        /\ Cardinality(R) <= MaxAttemptsPerSha
    BY <1>0, <1>1, ServiceAssumption
    DEF ClaimRepairSlot, TypeOK, CapInv, AttemptsWithinCap,
        CountAttemptsForSha
  <2>2. CASE s = ShaOf[p]
    <3>1. PICK x : RecordedAttempts(ledger', s) = R \cup {x} /\ x \notin R
      BY <2>1, <2>2, ClaimAddsOne
    <3>2. /\ IsFiniteSet(R \cup {x})
          /\ Cardinality(R \cup {x}) = Cardinality(R) + 1
      BY <2>1, <3>1, FS_AddElement
    <3>3. Cardinality(R) + 1 <= MaxAttemptsPerSha
      BY <1>1, <2>2 DEF ClaimRepairSlot, WithinAttemptCap, CountAttemptsForSha
    <3> QED
      BY <3>1, <3>2, <3>3 DEF CountAttemptsForSha
  <2>3. CASE s # ShaOf[p]
    BY <2>1, <2>3, ClaimElsewhere DEF CountAttemptsForSha
  <2> QED
    BY <2>2, <2>3
<1>2. ASSUME \A p \in Pipelines : ledger'[p].attempts = ledger[p].attempts
      PROVE  \A s \in Shas :
               /\ IsFiniteSet(RecordedAttempts(ledger', s))
               /\ CountAttemptsForSha(ledger', s) <= MaxAttemptsPerSha
  <2> TAKE s \in Shas
  <2>1. RecordedAttempts(ledger', s) = RecordedAttempts(ledger, s)
    BY <1>2, SameAttempts DEF PipelinesOf
  <2> QED
    BY <2>1 DEF CapInv, AttemptsWithinCap, CountAttemptsForSha
<1>3. \/ \E d \in Deliveries : ClaimRepairSlot(d)
      \/ \A p \in Pipelines : ledger'[p].attempts = ledger[p].attempts
  <2>1. ASSUME NEW t \in live, BeginRerun(t)
        PROVE  \A p \in Pipelines : ledger'[p].attempts = ledger[p].attempts
    BY <1>0, <2>1, KeepsRerun DEF BeginRerun, Keeps, TypeOK, Ledger
  <2> QED
    BY <1>0, <2>1, StepKeeps DEF AllKeepRequests, KeepsRequests, Keeps
<1> QED
  BY <1>0, <1>1, <1>2, <1>3
  DEF CapInv, AttemptsWithinCap, CountAttemptsForSha

\* The policy's cap bounds the attempts of a commit over all its pipelines, for
\* every number of webhooks, retries, crashes and overlapping sessions
\* (claimRepairSlot, countAttemptsForSha).
THEOREM CapHolds == Spec => []AttemptsWithinCap
<1>1. Init => CapInv
  BY CapInit
<1>2. CapInv /\ [Next]_vars => CapInv'
  BY CapStep
<1>3. CapInv => AttemptsWithinCap
  BY DEF CapInv
<1> QED
  BY <1>1, <1>2, <1>3, PTL DEF Spec

-----------------------------------------------------------------------------
\* Published fixes.

LEMMA PublishedIsActive ==
  ASSUME NEW p \in Pipelines, ledger[p].published
  PROVE  ActiveAttemptsForSha(ledger, ShaOf[p]) # {}
BY DEF ActiveAttemptsForSha, PipelinesOf, IsActiveRepairAttempt

\* A claim concerns a commit without a published fix.
LEMMA PublishedBlocksClaim ==
  ASSUME TypeOK, NEW d \in Deliveries, ClaimRepairSlot(d)
  PROVE  PublishedStep
<1> DEFINE p == PipelineOf[d]
<1>1. p \in Pipelines /\ ledger' = [ledger EXCEPT ![p] = ClaimedAttempt(@)]
  BY ServiceAssumption DEF ClaimRepairSlot
<1>2. ASSUME NEW q \in Pipelines, ledger[q].published
      PROVE  ShaOf[q] # ShaOf[p]
  BY <1>2, PublishedIsActive DEF ClaimRepairSlot, SlotInProgress
<1>3. \A q \in Pipelines : q # p => ledger'[q] = ledger[q]
  BY <1>1 DEF TypeOK, Ledger
<1> QED
  BY <1>2, <1>3 DEF PublishedStep, PipelinesOf

\* Once a fix is published, no interleaving takes it back or records another
\* attempt for its commit (isActiveRepairAttempt, resetAttemptForRetry).
THEOREM PublishedStays == Spec => PublishedIsFinal
<1>1. TypeOK /\ [Next]_vars => [PublishedStep]_vars
  <2> SUFFICES ASSUME TypeOK, [Next]_vars PROVE PublishedStep
    OBVIOUS
  <2>1. ASSUME NEW t \in live, BeginRerun(t) PROVE PublishedStep
    BY <2>1, KeepsRerun
    DEF BeginRerun, Keeps, TypeOK, Ledger, PublishedStep, PipelinesOf
  <2>2. AllKeepRequests => PublishedStep
    BY DEF AllKeepRequests, KeepsRequests, Keeps, PublishedStep, PipelinesOf
  <2> QED
    BY <2>1, <2>2, StepKeeps, PublishedBlocksClaim
<1> QED
  BY <1>1, TypeInvariant, PTL DEF Spec, PublishedIsFinal

-----------------------------------------------------------------------------
\* Handlers.

\* How a handler moves: it stops repairing, it starts with its claim, or it
\* goes on with the attempt it has.
GoesOn(d) == Repairing(d)' => Repairing(d) /\ job'[d].attempt = job[d].attempt

Starts(d) == ClaimRepairSlot(d) /\ \A e \in Deliveries \ {d} : job'[e] = job[e]

\* What a step does to a job: it stays, goes idle, claims or moves on
\* within its own attempt.
LEMMA JobMoves ==
  ASSUME TypeOK, [Next]_vars
  PROVE  \/ \E d \in Deliveries : Starts(d)
         \/ \A d \in Deliveries : GoesOn(d)
<1> USE DEF GoesOn, Repairing, RepairStages
<1>0. ASSUME NEW d \in Deliveries, NEW j,
             job' = [job EXCEPT ![d] = j],
             j.stage \in RepairStages => Repairing(d) /\ j.attempt = job[d].attempt
      PROVE  \A e \in Deliveries : GoesOn(e)
  BY <1>0 DEF TypeOK
<1>i. IdleJob.stage \notin RepairStages
  BY DEF IdleJob
<1>u. (job' = job) => \A e \in Deliveries : GoesOn(e)
  OBVIOUS
<1>1. ASSUME NEW d \in Deliveries, NEW s \in Stages, 
             job' = [job EXCEPT ![d].stage = s],
             s \in RepairStages => Repairing(d)
      PROVE  \A e \in Deliveries : GoesOn(e)
  BY <1>1 DEF TypeOK, Job
<1>2. ASSUME NEW d \in Deliveries, HandlerStep(d), ~ClaimRepairSlot(d)
      PROVE  \A e \in Deliveries : GoesOn(e)
  <2>0. job[d] \in Job
    BY DEF TypeOK
  <2>1. PrepareProviderErrorRetry(d) /\ Repairing(d) =>
          \A e \in Deliveries : GoesOn(e)
    <3>1. BackingOff(job[d]).attempt = job[d].attempt
      BY <2>0 DEF BackingOff, Job
    <3> QED
      BY <1>0, <3>1 DEF PrepareProviderErrorRetry
  <2>2. PrepareContinuation(d) /\ Repairing(d) =>
          \A e \in Deliveries : GoesOn(e)
    <3>1. Continuing(job[d]).attempt = job[d].attempt
      BY <2>0 DEF Continuing, Job
    <3> QED
      BY <1>0, <3>1 DEF PrepareContinuation
  <2>3. ASSUME NEW status, GiveUpForRedelivery(d, status)
        PROVE  \A e \in Deliveries : GoesOn(e)
    BY <1>1, <2>3 DEF GiveUpForRedelivery, Stages
  <2>4. ASSUME NEW status, NEW terminal, SettleRepair(d, status, terminal)
        PROVE  \A e \in Deliveries : GoesOn(e)
    BY <1>0, <1>i, <2>4 DEF SettleRepair
  <2>5. SessionStopped(d) /\ Repairing(d) => \A e \in Deliveries : GoesOn(e)
    BY <2>2, <2>3, <2>4 DEF SessionStopped
  <2>6. SessionFailed(d) /\ Repairing(d) => \A e \in Deliveries : GoesOn(e)
    BY <2>1, <2>3, <2>4 DEF SessionFailed
  <2>7. Observe(d) => \A e \in Deliveries : GoesOn(e)
    BY <2>2, <2>3, <2>4, <2>5, <2>6
    DEF Observe, ObserveStop, ObserveFailure, TurnEnds, MonitorGivesUp,
        StreamEnds
  <2>8. SendSucceeds(d) => \A e \in Deliveries : GoesOn(e)
    <3>1. WatchingAnew(job[d]).attempt = job[d].attempt
      BY <2>0 DEF WatchingAnew, Job
    <3> QED
      BY <1>0, <3>1 DEF SendSucceeds
  <2>9. SendFailsRetryably(d) \/ SendFails(d) =>
          \A e \in Deliveries : GoesOn(e)
    BY <1>1, <2>1 DEF SendFailsRetryably, SendFails, Stages
  <2>10. Continue(d) \/ BackoffEnds(d) \/ SeedFailureContext(d) =>
           \A e \in Deliveries : GoesOn(e)
    BY <1>1
    DEF Continue, ContinuationSucceeds, ContinuationFails, BackoffEnds,
        SeedFailureContext, Stages
  <2>11. RefuseRepairSlot(d) \/ ReleaseDelivery(d) =>
           \A e \in Deliveries : GoesOn(e)
    BY <1>0, <1>i DEF RefuseRepairSlot, ReleaseDelivery
  <2> QED
    BY <1>2, <2>7, <2>8, <2>9, <2>10, <2>11 DEF HandlerStep, Send
<1>3. ASSUME NEW d \in Deliveries, ClaimRepairSlot(d) PROVE Starts(d)
  BY <1>3 DEF ClaimRepairSlot, Starts, TypeOK
<1>4. ASSUME NEW d \in Deliveries, ReceiveFailure(d)
      PROVE  \A e \in Deliveries : GoesOn(e)
  <2>1. [IdleJob EXCEPT !.stage = "claiming"].stage = "claiming"
    BY DEF IdleJob
  <2> QED
    BY <1>0, <1>u, <1>4, <2>1 DEF ReceiveFailure
<1>5. ASSUME NEW t, NEW action, RecordTerminalAction(t, action)
      PROVE  \A e \in Deliveries : GoesOn(e)
  BY <1>5 DEF RecordTerminalAction, TypeOK, Job
<1>6. ASSUME NEW t \in live, ToolStep(t)
      PROVE  \A e \in Deliveries : GoesOn(e)
  BY <1>5, <1>6, <1>u
  DEF ToolStep, StageRepositorySnapshot, GetFailureContext,
      PostProviderComment, MergeChange, BeginTool, BeginStagedTool, BeginRerun
<1>7. ASSUME NEW c \in calls, PublishBeforeMerge(c) \/ FinishTool(c)
      PROVE  \A e \in Deliveries : GoesOn(e)
  BY <1>5, <1>7, <1>u
  DEF PublishBeforeMerge, FinishTool, FinishChecks, FinishPublish, FinishRerun
<1>8. Crash => \A e \in Deliveries : GoesOn(e)
  BY <1>i DEF Crash
<1>9. ASSUME \/ UNCHANGED vars
             \/ \E p \in Pipelines : WindowExpires(p)
             \/ \E d \in Deliveries : RejectFailure(d)
      PROVE  \A e \in Deliveries : GoesOn(e)
  BY <1>9, <1>u DEF vars, WindowExpires, RejectFailure
<1> QED
  BY <1>2, <1>3, <1>4, <1>6, <1>7, <1>8, <1>9 DEF Next

\* A handler's attempt is one its record has counted, so that the attempt of
\* the next claim is nobody's yet.
AttemptInv ==
  /\ TypeOK
  /\ \A d \in Deliveries :
       Repairing(d) => job[d].attempt \in 1 .. ledger[PipelineOf[d]].attempts
  /\ OneHandlerPerAttempt

\* No step lowers an attempt counter.
LEMMA AttemptsNeverFall ==
  ASSUME TypeOK, [Next]_vars, NEW p \in Pipelines
  PROVE  ledger'[p].attempts >= ledger[p].attempts
<1>0. ledger[p] \in AttemptRecord /\ ledger[p].attempts \in Nat
  BY DEF TypeOK, Ledger, AttemptRecord
<1>1. ASSUME NEW d \in Deliveries, ClaimRepairSlot(d)
      PROVE  ledger'[p].attempts >= ledger[p].attempts
  <2>1. ledger'[p] = ledger[p] \/ ledger'[p] = ClaimedAttempt(ledger[p])
    BY <1>1 DEF ClaimRepairSlot, TypeOK, Ledger
  <2> QED
    BY <1>0, <2>1, ClaimedAttemptType
<1>2. ASSUME NEW t \in live, BeginRerun(t)
      PROVE  ledger'[p].attempts >= ledger[p].attempts
  <2>1. ledger'[p] = ledger[p] \/ ledger'[p] = WithRerunRequest(ledger[p])
    BY <1>2 DEF BeginRerun, TypeOK, Ledger
  <2> QED
    BY <1>0, <2>1, KeepsRerun DEF Keeps
<1>3. AllKeepRequests => ledger'[p].attempts >= ledger[p].attempts
  BY <1>0 DEF AllKeepRequests, KeepsRequests, Keeps
<1> QED
  BY <1>1, <1>2, <1>3, StepKeeps

\* Every step keeps the invariant of one handler per attempt.
LEMMA AttemptStep ==
  ASSUME AttemptInv, [Next]_vars
  PROVE  AttemptInv'
<1>0. /\ TypeOK /\ TypeOK'
      /\ \A d \in Deliveries :
           /\ PipelineOf[d] \in Pipelines
           /\ ledger[PipelineOf[d]].attempts \in Nat
           /\ ledger'[PipelineOf[d]].attempts \in Nat
           /\ ledger'[PipelineOf[d]].attempts >= ledger[PipelineOf[d]].attempts
  BY TypeStep, AttemptsNeverFall, ServiceAssumption
  DEF AttemptInv, TypeOK, Ledger, AttemptRecord
<1>1. CASE \A d \in Deliveries : GoesOn(d)
  BY <1>0, <1>1 DEF AttemptInv, OneHandlerPerAttempt, GoesOn
<1>2. ASSUME NEW d \in Deliveries, Starts(d) PROVE AttemptInv'
  <2> DEFINE n == ledger[PipelineOf[d]].attempts
  <2>1. job'[d].attempt = n + 1 /\ ledger'[PipelineOf[d]].attempts = n + 1
    <3>1. job'[d] = Seeding(job[d], n + 1)
      BY <1>0, <1>2, ClaimedAttemptType
      DEF Starts, ClaimRepairSlot, TypeOK, Ledger
    <3>2. ledger'[PipelineOf[d]] = ClaimedAttempt(ledger[PipelineOf[d]])
      BY <1>0, <1>2 DEF Starts, ClaimRepairSlot, TypeOK, Ledger
    <3> QED
      BY <1>0, <3>1, <3>2, ClaimedAttemptType
      DEF Seeding, TypeOK, Job, Ledger
  <2>2. \A e \in Deliveries \ {d} :
          /\ Repairing(e)' => Repairing(e) /\ job'[e].attempt = job[e].attempt
          /\ Repairing(e)' /\ PipelineOf[e] = PipelineOf[d] =>
               job'[e].attempt # n + 1
    BY <1>0, <1>2 DEF Starts, Repairing, AttemptInv
  <2>3. \A e \in Deliveries :
          Repairing(e)' => job'[e].attempt \in 1 .. ledger'[PipelineOf[e]].attempts
    BY <1>0, <2>1, <2>2 DEF AttemptInv
  <2>4. OneHandlerPerAttempt'
    <3> SUFFICES ASSUME NEW e \in Deliveries, NEW f \in Deliveries,
                        Repairing(e)', Repairing(f)',
                        PipelineOf[e] = PipelineOf[f],
                        job'[e].attempt = job'[f].attempt
                 PROVE  e = f
      BY DEF OneHandlerPerAttempt
    <3> QED
      BY <2>1, <2>2 DEF AttemptInv, OneHandlerPerAttempt
  <2> QED
    BY <1>0, <2>3, <2>4 DEF AttemptInv
<1> QED
  BY <1>0, <1>1, <1>2, JobMoves

\* No attempt is ever run by two handlers, even when the recent window lets two
\* repairs of a pipeline overlap (claimRepairSlot, repairContinuationToken).
THEOREM AttemptsAreExclusive == Spec => []OneHandlerPerAttempt
<1>1. Init => AttemptInv
  BY NoAttemptType, IdleJobType
  DEF Init, AttemptInv, TypeOK, Ledger, OneHandlerPerAttempt, Repairing,
      RepairStages, IdleJob
<1>2. AttemptInv /\ [Next]_vars => AttemptInv'
  BY AttemptStep
<1>3. AttemptInv => OneHandlerPerAttempt
  BY DEF AttemptInv
<1> QED
  BY <1>1, <1>2, <1>3, PTL DEF Spec

\* A delivery stays marked while its handler runs: only the handler's last step
\* releases it (markDeliveryProcessed, releaseDelivery).
THEOREM DeliveriesAreHeld == Spec => []HandlerHoldsDelivery
<1>1. Init => HandlerHoldsDelivery
  BY DEF Init, HandlerHoldsDelivery, IdleJob
<1>2. TypeOK /\ HandlerHoldsDelivery /\ [Next]_vars => HandlerHoldsDelivery'
  <2> SUFFICES ASSUME TypeOK, HandlerHoldsDelivery, [Next]_vars
               PROVE  HandlerHoldsDelivery'
    OBVIOUS
  <2> DEFINE Idles(d) == job[d].stage = "idle" => job'[d].stage = "idle"
  <2>1. ASSUME NEW d \in Deliveries, HandlerStep(d), ~ReleaseDelivery(d)
        PROVE  processed' = processed /\ \A e \in Deliveries : Idles(e)
    <3>1. job[d].stage # "idle" /\ processed' = processed
      BY <2>1
      DEF HandlerStep, ClaimRepairSlot, RefuseRepairSlot, SeedFailureContext,
          Send, SendSucceeds, SendFailsRetryably, SendFails, BackoffEnds,
          Observe, ObserveStop, ObserveFailure, TurnEnds, MonitorGivesUp,
          StreamEnds, Continue, ContinuationSucceeds, ContinuationFails
    <3>2. \A e \in Deliveries \ {d} : job'[e] = job[e]
      BY <2>1
      DEF HandlerStep, ClaimRepairSlot, RefuseRepairSlot, SeedFailureContext,
          Send, SendSucceeds, SendFailsRetryably, SendFails, BackoffEnds,
          Observe, ObserveStop, ObserveFailure, TurnEnds, MonitorGivesUp,
          StreamEnds, Continue, ContinuationSucceeds, ContinuationFails,
          SessionStopped, SessionFailed, SettleRepair, GiveUpForRedelivery,
          PrepareContinuation, PrepareProviderErrorRetry, TypeOK
    <3> QED
      BY <3>1, <3>2
  <2>2. ASSUME NEW d \in Deliveries, ReleaseDelivery(d)
        PROVE  HandlerHoldsDelivery'
    BY <2>2 DEF ReleaseDelivery, HandlerHoldsDelivery, IdleJob, TypeOK
  <2>3. ASSUME NEW d \in Deliveries, ReceiveFailure(d)
        PROVE  HandlerHoldsDelivery'
    BY <2>3
    DEF ReceiveFailure, MarkDeliveryProcessed, HandlerHoldsDelivery, TypeOK
  <2>4. ASSUME NEW t, NEW action, RecordTerminalAction(t, action)
        PROVE  \A e \in Deliveries : Idles(e)
    BY <2>4 DEF RecordTerminalAction, TypeOK, Job
  <2>5. ASSUME \/ \E t \in live : ToolStep(t)
               \/ \E c \in calls : PublishBeforeMerge(c) \/ FinishTool(c)
        PROVE  processed' = processed /\ \A e \in Deliveries : Idles(e)
    BY <2>4, <2>5
    DEF ToolStep, StageRepositorySnapshot, GetFailureContext,
        PostProviderComment, MergeChange, BeginTool, BeginStagedTool,
        BeginRerun, PublishBeforeMerge, FinishTool, FinishChecks,
        FinishPublish, FinishRerun
  <2>6. ASSUME Crash PROVE HandlerHoldsDelivery'
    BY <2>6 DEF Crash, HandlerHoldsDelivery, IdleJob
  <2>7. ASSUME NEW d \in Deliveries, RejectFailure(d)
        PROVE  HandlerHoldsDelivery'
    BY <2>7 DEF RejectFailure, MarkDeliveryProcessed, HandlerHoldsDelivery
  <2>8. ASSUME UNCHANGED vars \/ \E p \in Pipelines : WindowExpires(p)
        PROVE  processed' = processed /\ \A e \in Deliveries : Idles(e)
    BY <2>8 DEF vars, WindowExpires
  <2> QED
    BY <2>1, <2>2, <2>3, <2>5, <2>6, <2>7, <2>8 DEF Next, HandlerHoldsDelivery
<1> QED
  BY <1>1, <1>2, TypeInvariant, PTL DEF Spec

-----------------------------------------------------------------------------
\* Reruns.

\* Sessions and tool calls belong to attempts that were recorded, and every
\* rerun but the last belongs to an attempt that is over.
RerunInv ==
  /\ AttemptInv
  /\ \A t \in live : ledger[t.pipeline].attempts > 0
  /\ \A p \in Pipelines :
       \/ reruns[p] + 1 <= ledger[p].attempts + ledger[p].rerunRequests
       \/ reruns[p] = 0 /\ ledger[p].attempts = 0

\* A session goes live only for a pipeline that has been claimed.
LEMMA LiveSessions ==
  ASSUME AttemptInv, [Next]_vars
  PROVE  \A t \in live' :
           t \in live \/ ledger[t.pipeline].attempts > 0
<1>1. ASSUME NEW d \in Deliveries, HandlerStep(d)
      PROVE  live' \subseteq live \cup {SessionOf(d)} /\ (Repairing(d) \/ live' = live)
  BY <1>1
  DEF HandlerStep, ClaimRepairSlot, RefuseRepairSlot, SeedFailureContext,
      Send, SendSucceeds, SendFailsRetryably, SendFails, BackoffEnds,
      Observe, ObserveStop, ObserveFailure, TurnEnds, MonitorGivesUp,
      StreamEnds, Continue, ContinuationSucceeds, ContinuationFails,
      ReleaseDelivery, sessionVars, Repairing, RepairStages
<1>2. \A d \in Deliveries :
        Repairing(d) => ledger[SessionOf(d).pipeline].attempts > 0
  <2> TAKE d \in Deliveries
  <2> HAVE Repairing(d)
  <2>1. job[d].attempt \in 1 .. ledger[PipelineOf[d]].attempts
    BY DEF AttemptInv
  <2>2. ledger[PipelineOf[d]].attempts \in Nat
    BY ServiceAssumption DEF AttemptInv, TypeOK, Ledger, AttemptRecord
  <2> QED
    BY <2>1, <2>2 DEF SessionOf
<1>3. ASSUME ~ \E d \in Deliveries : HandlerStep(d) PROVE live' = live
  BY <1>3
  DEF Next, ToolStep, StageRepositorySnapshot, GetFailureContext,
      PostProviderComment, MergeChange, BeginTool, BeginStagedTool,
      BeginRerun, PublishBeforeMerge, FinishTool, ReceiveFailure,
      RejectFailure, WindowExpires, Crash, vars, sessionVars
<1> QED
  BY <1>1, <1>2, <1>3

\* Every step keeps the invariant of the rerun requests.
LEMMA RerunStep ==
  ASSUME RerunInv, [Next]_vars
  PROVE  RerunInv'
<1>0. AttemptInv /\ AttemptInv' /\ TypeOK /\ TypeOK'
  BY AttemptStep DEF RerunInv, AttemptInv
<1>n. \A p \in Pipelines :
        /\ ledger[p] \in AttemptRecord /\ ledger'[p] \in AttemptRecord
        /\ ledger[p].attempts \in Nat /\ ledger'[p].attempts \in Nat
        /\ ledger[p].rerunRequests \in 0 .. 1
        /\ ledger'[p].rerunRequests \in 0 .. 1
        /\ reruns[p] \in Nat
        /\ ledger'[p].attempts >= ledger[p].attempts
  BY <1>0, AttemptsNeverFall DEF TypeOK, Ledger, AttemptRecord, MaxRerunRequests
<1>1. \A t \in live' : ledger'[t.pipeline].attempts > 0
  <2> TAKE t \in live'
  <2>1. t.pipeline \in Pipelines
    BY <1>0 DEF TypeOK, Session
  <2>2. ledger[t.pipeline].attempts > 0
    BY <1>0, LiveSessions DEF RerunInv
  <2> QED
    BY <1>n, <2>1, <2>2
<1>2. \A p \in Pipelines :
        \/ reruns'[p] + 1 <= ledger'[p].attempts + ledger'[p].rerunRequests
        \/ reruns'[p] = 0 /\ ledger'[p].attempts = 0
  <2> TAKE p \in Pipelines
  <2>0. \/ reruns[p] + 1 <= ledger[p].attempts + ledger[p].rerunRequests
        \/ reruns[p] = 0 /\ ledger[p].attempts = 0
    BY DEF RerunInv
  <2>1. CASE AllKeepRequests /\ reruns' = reruns
    <3>1. /\ ledger'[p].attempts = ledger[p].attempts
          /\ ledger'[p].rerunRequests = ledger[p].rerunRequests
      BY <2>1 DEF AllKeepRequests, KeepsRequests, Keeps
    <3> QED
      BY <2>0, <2>1, <3>1
  <2>2. ASSUME NEW d \in Deliveries, ClaimRepairSlot(d)
        PROVE  \/ reruns'[p] + 1 <= ledger'[p].attempts + ledger'[p].rerunRequests
               \/ reruns'[p] = 0 /\ ledger'[p].attempts = 0
    <3>1. reruns' = reruns
      BY <2>2 DEF ClaimRepairSlot, sessionVars
    <3>2. ledger'[p] = ledger[p] \/ ledger'[p] = ClaimedAttempt(ledger[p])
      BY <1>0, <2>2 DEF ClaimRepairSlot, TypeOK, Ledger
    <3>3. ClaimedAttempt(ledger[p]).attempts = ledger[p].attempts + 1
      BY <1>n, ClaimedAttemptType
    <3> QED
      BY <1>n, <2>0, <3>1, <3>2, <3>3
  <2>3. ASSUME NEW t \in live, BeginRerun(t)
        PROVE  \/ reruns'[p] + 1 <= ledger'[p].attempts + ledger'[p].rerunRequests
               \/ reruns'[p] = 0 /\ ledger'[p].attempts = 0
    <3>1. CASE p # t.pipeline
      <4>1. ledger'[p] = ledger[p] /\ reruns'[p] = reruns[p]
        BY <1>0, <2>3, <3>1 DEF BeginRerun, TypeOK, Ledger
      <4> QED
        BY <2>0, <4>1
    <3>2. CASE p = t.pipeline
      <4>1. /\ ledger'[p] = WithRerunRequest(ledger[p])
            /\ reruns'[p] = reruns[p] + 1
            /\ RerunClaimable(ledger[p])
            /\ ledger[p].attempts > 0
        BY <1>0, <2>3, <3>2 DEF BeginRerun, TypeOK, Ledger, RerunInv
      <4>2. /\ ledger[p].rerunRequests = 0
            /\ ledger'[p].rerunRequests = 1
            /\ ledger'[p].attempts = ledger[p].attempts
        BY <1>n, <4>1, RerunRequestType DEF RerunClaimable, MaxRerunRequests
      <4> QED
        BY <1>n, <2>0, <4>1, <4>2
    <3> QED
      BY <3>1, <3>2
  <2> QED
    BY <1>0, <2>1, <2>2, <2>3, StepKeeps
<1> QED
  BY <1>0, <1>1, <1>2 DEF RerunInv

\* The provider is asked for at most one rerun per recorded attempt, counting
\* the requests of sessions whose attempt is over (claimRerunRequest).
THEOREM RerunsAreBounded == Spec => []RerunsWithinAttempts
<1>1. Init => RerunInv
  BY NoAttemptType, IdleJobType
  DEF Init, RerunInv, AttemptInv, TypeOK, Ledger, OneHandlerPerAttempt,
      Repairing, RepairStages, IdleJob, NoAttempt
<1>2. RerunInv /\ [Next]_vars => RerunInv'
  BY RerunStep
<1>3. RerunInv => RerunsWithinAttempts
  <2> SUFFICES ASSUME RerunInv, NEW p \in Pipelines
               PROVE  reruns[p] <= ledger[p].attempts
    BY DEF RerunsWithinAttempts
  <2>1. /\ ledger[p].attempts \in Nat /\ reruns[p] \in Nat
        /\ ledger[p].rerunRequests \in 0 .. 1
    BY DEF RerunInv, AttemptInv, TypeOK, Ledger, AttemptRecord, MaxRerunRequests
  <2> QED
    BY <2>1 DEF RerunInv
<1> QED
  BY <1>1, <1>2, <1>3, PTL DEF Spec

-----------------------------------------------------------------------------
\* One repair per commit.

\* A record that keeps its commit's slot without having published anything.
Holds(a) ==
  /\ a.recent
  /\ "dispatchedAt" \in a.markers
  /\ a.status \notin {"failed", "abandoned"}

\* While nothing outlives the recent window, the record of a repair holds the
\* slot from the claim until the handler gives it up.
SlotInv ==
  /\ TypeOK
  /\ "window_expires" \notin Faults =>
       \A d \in Deliveries : Repairing(d) => Holds(ledger[PipelineOf[d]])
  /\ OneRepairPerSha

\* A record that holds the slot counts as its commit's active attempt.
LEMMA HoldsIsActive ==
  ASSUME NEW p \in Pipelines, Holds(ledger[p])
  PROVE  ActiveAttemptsForSha(ledger, ShaOf[p]) # {}
BY DEF Holds, ActiveAttemptsForSha, PipelinesOf, IsActiveRepairAttempt

\* The claimed record holds the slot,
LEMMA ClaimedHolds ==
  ASSUME NEW a \in AttemptRecord
  PROVE  Holds(ClaimedAttempt(a))
<1>1. RecordAttempt(a) \in AttemptRecord
  BY RecordAttemptType
<1> DEFINE n == a.attempts + 1
<1>2. RecordAttempt(a) = [NoAttempt EXCEPT !.attempts = n, !.recent = TRUE]
  BY DEF RecordAttempt
<1> HIDE DEF n
<1>3. LET r == [NoAttempt EXCEPT !.attempts = n, !.recent = TRUE]
      IN  r.recent /\ r.status = "none"
  BY NoAttemptType DEF AttemptRecord, NoAttempt
<1> QED
  BY <1>1, <1>2, <1>3 DEF ClaimedAttempt, AttemptRecord, Holds

\* and so does one whose session is recorded as running.
LEMMA HoldsRunning ==
  ASSUME NEW a \in AttemptRecord, Holds(a)
  PROVE  /\ Holds(WithMarker(a, "lastFailureContext"))
         /\ Holds(WithOutcome(a, "running", "none"))
         /\ Holds(WithOutcome(WithMarker(a, "lastSessionId"), "running", "none"))
         /\ Holds(WithOutcome(WithoutMarker(a, "lastSessionId"), "running", "none"))
<1>1. ASSUME NEW b \in AttemptRecord, Holds(b)
      PROVE  Holds(WithOutcome(b, "running", "none"))
  BY <1>1 DEF Holds, WithOutcome, AttemptRecord
<1>2. /\ WithMarker(a, "lastFailureContext") \in AttemptRecord
      /\ WithMarker(a, "lastSessionId") \in AttemptRecord
      /\ WithoutMarker(a, "lastSessionId") \in AttemptRecord
  BY MarkerType DEF StartedWork
<1>3. /\ Holds(WithMarker(a, "lastFailureContext"))
      /\ Holds(WithMarker(a, "lastSessionId"))
      /\ Holds(WithoutMarker(a, "lastSessionId"))
  BY DEF Holds, WithMarker, WithoutMarker, AttemptRecord
<1> QED
  BY <1>1, <1>2, <1>3

\* What sessions write never frees a slot.
LEMMA HoldsForTools ==
  ASSUME NEW a \in AttemptRecord, Holds(a)
  PROVE  /\ \A m \in StartedWork : Holds(WithMarker(a, m))
         /\ \A action \in TerminalAction : Holds(WithTerminalAction(a, action))
         /\ Holds([a EXCEPT !.published = TRUE])
         /\ Holds(WithRerunRequest(a))
<1>1. ASSUME NEW action \in TerminalAction
      PROVE  Holds(WithTerminalAction(a, action))
  <2>1. /\ WithOutcome(a, "completed", action) \in AttemptRecord
        /\ Holds(WithOutcome(a, "completed", action))
    BY OutcomeType DEF SessionStatus, Holds, WithOutcome, AttemptRecord
  <2> QED
    BY <2>1 DEF WithTerminalAction, Holds, AttemptRecord
<1>2. /\ Holds([a EXCEPT !.published = TRUE])
      /\ Holds(WithRerunRequest(a))
      /\ \A m \in StartedWork : Holds(WithMarker(a, m))
  BY DEF Holds, WithRerunRequest, WithMarker, AttemptRecord
<1> QED
  BY <1>1, <1>2

\* A handler that goes on repairing goes on holding its slot.
LEMMA HandlerHoldsSlot ==
  ASSUME TypeOK, NEW d \in Deliveries, HandlerStep(d), ~ClaimRepairSlot(d),
         Repairing(d) => Holds(ledger[PipelineOf[d]])
  PROVE  /\ Repairing(d)' => Repairing(d) /\ Holds(ledger'[PipelineOf[d]])
         /\ \A p \in Pipelines \ {PipelineOf[d]} : ledger'[p] = ledger[p]
         /\ \A e \in Deliveries \ {d} : job'[e] = job[e]
<1> DEFINE p == PipelineOf[d]
           Good == Repairing(d)' => Repairing(d) /\ Holds(ledger'[p])
<1> USE DEF Repairing, RepairStages
<1>0. /\ p \in Pipelines /\ ledger[p] \in AttemptRecord /\ job[d] \in Job
      /\ Repairing(d) => Holds(ledger[p])
  BY ServiceAssumption DEF TypeOK, Ledger
<1>1. Repairing(d) /\ PrepareProviderErrorRetry(d) => Good
  BY <1>0, HoldsRunning DEF PrepareProviderErrorRetry, TypeOK, Ledger
<1>2. Repairing(d) /\ PrepareContinuation(d) => Good
  BY <1>0, HoldsRunning DEF PrepareContinuation, TypeOK, Ledger
<1>3. ASSUME NEW status, GiveUpForRedelivery(d, status) PROVE Good
  BY <1>0, <1>3 DEF GiveUpForRedelivery, TypeOK, Job
<1>4. ASSUME NEW status, NEW terminal, SettleRepair(d, status, terminal)
      PROVE  Good
  BY <1>0, <1>4 DEF SettleRepair, TypeOK, IdleJob
<1>5. Repairing(d) /\ SessionStopped(d) => Good
  BY <1>2, <1>3, <1>4 DEF SessionStopped
<1>6. Repairing(d) /\ SessionFailed(d) => Good
  BY <1>1, <1>3, <1>4 DEF SessionFailed
<1>7. Observe(d) => Good
  BY <1>2, <1>3, <1>4, <1>5, <1>6
  DEF Observe, ObserveStop, ObserveFailure, TurnEnds, MonitorGivesUp, StreamEnds
<1>8. SendSucceeds(d) \/ ContinuationSucceeds(d) => Good
  BY <1>0, HoldsRunning
  DEF SendSucceeds, ContinuationSucceeds, RecordSessionRunning, TypeOK, Ledger
<1>9. SendFailsRetryably(d) => Good
  BY <1>1 DEF SendFailsRetryably
<1>10. SendFails(d) \/ ContinuationFails(d) => Good
  BY <1>0 DEF SendFails, ContinuationFails, TypeOK, Job
<1>11. SeedFailureContext(d) => Good
  BY <1>0, HoldsRunning DEF SeedFailureContext, AddMarker, TypeOK, Ledger
<1>12. RefuseRepairSlot(d) \/ BackoffEnds(d) \/ ReleaseDelivery(d) => Good
  BY <1>0
  DEF RefuseRepairSlot, BackoffEnds, ReleaseDelivery, IdleJob, TypeOK, Job
<1>13. Good
  BY <1>7, <1>8, <1>9, <1>10, <1>11, <1>12 DEF HandlerStep, Send, Continue
<1>14. /\ \A q \in Pipelines \ {p} : ledger'[q] = ledger[q]
       /\ \A e \in Deliveries \ {d} : job'[e] = job[e]
  BY DEF
     HandlerStep, RefuseRepairSlot, SeedFailureContext, AddMarker, Send,
     SendSucceeds, RecordSessionRunning, SendFailsRetryably, SendFails,
     BackoffEnds, Observe, ObserveStop, ObserveFailure, MonitorGivesUp,
     StreamEnds, Continue, ContinuationSucceeds, ContinuationFails,
     ReleaseDelivery, SessionStopped, SessionFailed, SettleRepair,
     GiveUpForRedelivery, PrepareContinuation, PrepareProviderErrorRetry,
     TypeOK, Ledger
<1> QED
  BY <1>13, <1>14

\* The steps of sessions and webhooks leave every held slot held.
LEMMA OthersHoldSlots ==
  ASSUME TypeOK, [Next]_vars, "window_expires" \notin Faults,
         ~ \E d \in Deliveries : HandlerStep(d), 
         NEW p \in Pipelines, Holds(ledger[p])
  PROVE  Holds(ledger'[p])
<1> USE DEF StartedWork, TerminalAction
<1>0. ledger[p] \in AttemptRecord
  BY DEF TypeOK, Ledger
<1>1. ASSUME NEW q, NEW m \in StartedWork, AddMarker(q, m)
      PROVE  Holds(ledger'[p])
  BY <1>0, <1>1, HoldsForTools DEF AddMarker, TypeOK, Ledger
<1>2. ASSUME NEW t, NEW action \in TerminalAction, RecordTerminalAction(t, action)
      PROVE  Holds(ledger'[p])
  BY <1>0, <1>2, HoldsForTools DEF RecordTerminalAction, TypeOK, Ledger
<1>3. ASSUME NEW t \in live, ToolStep(t) PROVE Holds(ledger'[p])
  <2>1. ASSUME BeginRerun(t) PROVE Holds(ledger'[p])
    BY <1>0, <2>1, HoldsForTools DEF BeginRerun, TypeOK, Ledger
  <2> QED
    BY <1>1, <1>2, <1>3, <2>1
    DEF ToolStep, StageRepositorySnapshot, GetFailureContext,
        PostProviderComment, MergeChange, BeginTool, BeginStagedTool
<1>4. ASSUME NEW c \in calls, PublishBeforeMerge(c) PROVE Holds(ledger'[p])
  BY <1>0, <1>4, HoldsForTools DEF PublishBeforeMerge, TypeOK, Ledger
<1>5. ASSUME NEW c \in calls, FinishTool(c) PROVE Holds(ledger'[p])
  BY <1>1, <1>2, <1>5
  DEF FinishTool, FinishChecks, FinishPublish, FinishRerun
<1>6. ASSUME \/ \E d \in Deliveries : ReceiveFailure(d) \/ RejectFailure(d)
             \/ Crash
             \/ UNCHANGED vars
      PROVE  Holds(ledger'[p])
  BY <1>6 DEF ReceiveFailure, RejectFailure, Crash, vars
<1> QED
  BY <1>3, <1>4, <1>5, <1>6 DEF Next, WindowExpires

\* Every step keeps the invariant of the repair slot.
LEMMA SlotStep ==
  ASSUME SlotInv, [Next]_vars
  PROVE  SlotInv'
<1>0. TypeOK /\ TypeOK'
  BY TypeStep DEF SlotInv
<1> SUFFICES ASSUME "window_expires" \notin Faults
             PROVE  /\ \A d \in Deliveries :
                         Repairing(d)' => Holds(ledger'[PipelineOf[d]])
                    /\ OneRepairPerSha'
  BY <1>0 DEF SlotInv, OneRepairPerSha
<1>1. /\ \A d \in Deliveries :
           /\ PipelineOf[d] \in Pipelines
           /\ Repairing(d) => Holds(ledger[PipelineOf[d]])
      /\ \A d, e \in Deliveries :
           Repairing(d) /\ Repairing(e) /\ ShaOf[PipelineOf[d]] = ShaOf[PipelineOf[e]]
             => d = e
  BY ServiceAssumption DEF SlotInv, OneRepairPerSha
<1>2. ASSUME NEW d \in Deliveries, HandlerStep(d), ~ClaimRepairSlot(d)
      PROVE  /\ \A e \in Deliveries :
                  Repairing(e)' => Holds(ledger'[PipelineOf[e]])
             /\ OneRepairPerSha'
  <2>1. /\ Repairing(d)' => Repairing(d) /\ Holds(ledger'[PipelineOf[d]])
        /\ \A p \in Pipelines \ {PipelineOf[d]} : ledger'[p] = ledger[p]
        /\ \A e \in Deliveries \ {d} : job'[e] = job[e]
    BY <1>0, <1>1, <1>2, HandlerHoldsSlot
  <2>2. \A e \in Deliveries : Repairing(e)' => Repairing(e)
    BY <2>1 DEF Repairing
  <2>3. ASSUME NEW e \in Deliveries \ {d}, Repairing(e)'
        PROVE  Holds(ledger'[PipelineOf[e]])
    <3>1. CASE PipelineOf[e] # PipelineOf[d]
      BY <1>1, <2>1, <2>2, <2>3, <3>1
    <3>2. CASE PipelineOf[e] = PipelineOf[d]
      <4>1. ~Repairing(d)
        BY <1>1, <2>2, <2>3, <3>2
      <4>2. ledger' = ledger
        BY <1>2, <4>1
        DEF HandlerStep, RefuseRepairSlot, SeedFailureContext, Send,
            SendSucceeds, SendFailsRetryably, SendFails, BackoffEnds,
            Observe, ObserveStop, ObserveFailure, TurnEnds, MonitorGivesUp,
            StreamEnds, Continue, ContinuationSucceeds, ContinuationFails,
            ReleaseDelivery, Repairing, RepairStages
      <4> QED
        BY <1>1, <2>2, <2>3, <4>2
    <3> QED
      BY <3>1, <3>2
  <2> QED
    BY <1>1, <2>1, <2>2, <2>3 DEF OneRepairPerSha
<1>3. ASSUME NEW d \in Deliveries, Starts(d)
      PROVE  /\ \A e \in Deliveries :
                  Repairing(e)' => Holds(ledger'[PipelineOf[e]])
             /\ OneRepairPerSha'
  <2>1. /\ ledger' = [ledger EXCEPT ![PipelineOf[d]] = ClaimedAttempt(@)]
        /\ ActiveAttemptsForSha(ledger, ShaOf[PipelineOf[d]]) = {}
        /\ \A e \in Deliveries \ {d} : job'[e] = job[e]
    BY <1>3 DEF Starts, ClaimRepairSlot, SlotInProgress
  <2>2. \A e \in Deliveries \ {d} :
          Repairing(e)' =>
            Repairing(e) /\ ShaOf[PipelineOf[e]] # ShaOf[PipelineOf[d]]
    BY <1>1, <2>1, HoldsIsActive DEF Repairing
  <2>3. Holds(ledger'[PipelineOf[d]])
    BY <1>0, <1>1, <2>1, ClaimedHolds DEF TypeOK, Ledger
  <2>4. \A e \in Deliveries \ {d} :
          Repairing(e)' => Holds(ledger'[PipelineOf[e]])
    BY <1>0, <1>1, <2>1, <2>2 DEF TypeOK, Ledger
  <2> QED
    BY <1>1, <2>2, <2>3, <2>4 DEF OneRepairPerSha
<1>4. ASSUME ~ \E d \in Deliveries : HandlerStep(d)
      PROVE  /\ \A e \in Deliveries :
                  Repairing(e)' => Holds(ledger'[PipelineOf[e]])
             /\ OneRepairPerSha'
  <2>1. \A e \in Deliveries : Repairing(e)' => Repairing(e)
    BY <1>0, <1>4, JobMoves DEF GoesOn, Starts, HandlerStep
  <2>2. \A e \in Deliveries :
          Repairing(e) => Holds(ledger'[PipelineOf[e]])
    BY <1>0, <1>1, <1>4, OthersHoldSlots
  <2> QED
    BY <1>1, <2>1, <2>2 DEF OneRepairPerSha
<1> QED
  BY <1>0, <1>2, <1>3, <1>4 DEF Starts, ClaimRepairSlot, TypeOK

\* While no repair outlives the recent window a commit has at most one repair
\* under way, however many webhooks and pipelines report it (claimRepairSlot,
\* isActiveRepairAttempt).
THEOREM RepairsAreExclusive == Spec => []OneRepairPerSha
<1>1. Init => SlotInv
  BY NoAttemptType, IdleJobType
  DEF Init, SlotInv, TypeOK, Ledger, OneRepairPerSha, Repairing, RepairStages,
      IdleJob
<1>2. SlotInv /\ [Next]_vars => SlotInv'
  BY SlotStep
<1>3. SlotInv => OneRepairPerSha
  BY DEF SlotInv
<1> QED
  BY <1>1, <1>2, <1>3, PTL DEF Spec

-----------------------------------------------------------------------------
\* Released deliveries.

\* A record that does not keep a redelivery from its slot, or has been acted on.
Freed(a) ==
  \/ a.status \in {"failed", "abandoned"}
  \/ ~a.recent
  \/ a.published
  \/ a.terminal # "none"

\* The slot of a pipeline is free, acted on, or taken by another repair.
Reclaimable(p) ==
  Freed(ledger[p]) \/ \E e \in Deliveries : Repairing(e) /\ PipelineOf[e] = p

\* Whoever waits to release its delivery finds its slot so, from the moment it
\* gave up until the release is through.
ReleaseInv ==
  /\ TypeOK
  /\ \A d \in Deliveries :
       job[d].stage = "releasing" => Reclaimable(PipelineOf[d])

\* A step that takes no repair away, sends nobody to the release and leaves
\* what is free so.
Harmless ==
  /\ \A p \in Pipelines : Freed(ledger[p]) => Freed(ledger'[p])
  /\ \A d \in Deliveries :
       /\ Repairing(d) => Repairing(d)'
       /\ job'[d].stage = "releasing" => job[d].stage = "releasing"

\* A step of one handler, which goes on repairing or leaves a freed record.
OwnStep(d) ==
  /\ \A p \in Pipelines \ {PipelineOf[d]} : ledger'[p] = ledger[p]
  /\ \A e \in Deliveries \ {d} : job'[e] = job[e]
  /\ Repairing(d)' \/ Freed(ledger'[PipelineOf[d]])

\* What is written to a record while it is repaired keeps it freed: markers,
\* requests and merges in the making,
LEMMA FreedStays ==
  ASSUME NEW a \in AttemptRecord
  PROVE  /\ \A m \in StartedWork : Freed(a) => Freed(WithMarker(a, m))
         /\ Freed(a) => Freed(WithRerunRequest(a))
         /\ Freed([a EXCEPT !.published = TRUE])
         /\ Freed([a EXCEPT !.recent = FALSE])
BY DEF Freed, AttemptRecord, WithMarker, WithRerunRequest

\* terminal actions,
LEMMA ActedFreed ==
  ASSUME NEW a \in AttemptRecord, NEW action \in TerminalAction \ {"none"}
  PROVE  Freed(WithTerminalAction(a, action))
BY DEF Freed, AttemptRecord, WithTerminalAction, WithOutcome

\* and so do the outcomes a repair ends with.
LEMMA EndsFreed ==
  ASSUME NEW a \in AttemptRecord, NEW status, NEW terminal,
         status \in {"failed", "abandoned"} \/ terminal # "none"
  PROVE  /\ Freed(WithOutcome(a, status, terminal))
         /\ Freed(WithOutcome(WithoutMarker(a, "dispatchedAt"),
                              status, terminal))
BY DEF Freed, AttemptRecord, WithOutcome, WithoutMarker

\* Both kinds of steps keep the slots of the released deliveries reclaimable.
LEMMA ReleaseKept ==
  ASSUME ReleaseInv, TypeOK', Harmless \/ \E d \in Deliveries : OwnStep(d)
  PROVE  ReleaseInv'
<1>0. \A d \in Deliveries : PipelineOf[d] \in Pipelines
  BY ServiceAssumption
<1>1. CASE Harmless
  BY <1>0, <1>1 DEF Harmless, ReleaseInv, Reclaimable
<1>2. ASSUME NEW d \in Deliveries, OwnStep(d) PROVE ReleaseInv'
  <2> SUFFICES ASSUME NEW e \in Deliveries, job'[e].stage = "releasing"
               PROVE  Reclaimable(PipelineOf[e])'
    BY DEF ReleaseInv
  <2>1. CASE PipelineOf[e] = PipelineOf[d]
    BY <1>2, <2>1 DEF OwnStep, Reclaimable
  <2>2. CASE PipelineOf[e] # PipelineOf[d]
    <3>1. e # d /\ job[e].stage = "releasing" /\ Reclaimable(PipelineOf[e])
      BY <1>2, <2>2 DEF OwnStep, ReleaseInv
    <3> QED
      BY <1>0, <1>2, <2>2, <3>1 DEF OwnStep, Reclaimable, Repairing
  <2> QED
    BY <2>1, <2>2
<1> QED
  BY <1>1, <1>2

\* Every step of a handler is of one of the kinds.
LEMMA HandlerReleases ==
  ASSUME TypeOK, NEW d \in Deliveries, HandlerStep(d),
         "continuation_send_fails" \notin Faults, "stream_ends" \notin Faults
  PROVE  Harmless \/ OwnStep(d)
<1> DEFINE p == PipelineOf[d]
           a == ledger[p]
           Kept == \A q \in Pipelines \ {p} : ledger'[q] = ledger[q]
<1>0. /\ p \in Pipelines /\ a \in AttemptRecord
      /\ job[d] \in Job /\ job \in [Deliveries -> Job]
      /\ ledger \in [Pipelines -> AttemptRecord]
  BY ServiceAssumption DEF TypeOK, Ledger
<1>1. ASSUME NEW b, ledger' = [ledger EXCEPT ![p] = b],
             NEW j, job' = [job EXCEPT ![d] = j],
             j.stage \in RepairStages \/ Freed(b)
      PROVE  OwnStep(d)
  BY <1>0, <1>1 DEF OwnStep, Repairing
<1>2. ASSUME NEW j, job' = [job EXCEPT ![d] = j], UNCHANGED ledger,
             j.stage \in RepairStages \/ j.stage = "idle",
             Repairing(d) => j.stage \in RepairStages
      PROVE  Harmless
  BY <1>0, <1>2 DEF Harmless, Repairing, RepairStages
<1>3. ClaimRepairSlot(d) => OwnStep(d)
  <2>1. \A n : Seeding(job[d], n).stage = "seeding"
    BY <1>0 DEF Seeding, Job
  <2> QED
    BY <1>1, <2>1 DEF ClaimRepairSlot, RepairStages
<1>4. ASSUME NEW s \in RepairStages, NEW b,
             ledger' = [ledger EXCEPT ![p] = b],
             job' = [job EXCEPT ![d].stage = s]
      PROVE  OwnStep(d)
  <2>1. [job[d] EXCEPT !.stage = s].stage = s
    BY <1>0 DEF Job
  <2> QED
    BY <1>1, <1>4, <2>1
<1>5. SeedFailureContext(d) \/ ContinuationSucceeds(d) => OwnStep(d)
  BY <1>4
  DEF SeedFailureContext, AddMarker, ContinuationSucceeds,
      RecordSessionRunning, RepairStages
<1>6. SendSucceeds(d) => OwnStep(d)
  <2>1. WatchingAnew(job[d]).stage = "watching"
    BY <1>0 DEF WatchingAnew, Job
  <2> QED
    BY <1>1, <2>1 DEF SendSucceeds, RecordSessionRunning, RepairStages
<1>7. PrepareProviderErrorRetry(d) => OwnStep(d)
  <2>1. BackingOff(job[d]).stage = "backoff"
    BY <1>0 DEF BackingOff, Job
  <2> QED
    BY <1>1, <2>1 DEF PrepareProviderErrorRetry, RepairStages
<1>8. PrepareContinuation(d) => OwnStep(d)
  <2>1. Continuing(job[d]).stage = "continuing"
    BY <1>0 DEF Continuing, Job
  <2> QED
    BY <1>1, <2>1 DEF PrepareContinuation, RepairStages
<1>9. ASSUME NEW b, Freed(b), ledger' = [ledger EXCEPT ![p] = b],
             job' = [job EXCEPT ![d].stage = "releasing"]
      PROVE  OwnStep(d)
  BY <1>1, <1>9
<1>10. SendFails(d) => OwnStep(d)
  BY <1>0, <1>9, EndsFreed DEF SendFails
<1>11. ASSUME NEW status \in {"failed", "abandoned"},
              GiveUpForRedelivery(d, status)
       PROVE  OwnStep(d)
  BY <1>0, <1>9, <1>11, EndsFreed DEF GiveUpForRedelivery
<1>12. ASSUME NEW status, NEW terminal, terminal # "none",
              SettleRepair(d, status, terminal)
       PROVE  OwnStep(d)
  BY <1>0, <1>1, <1>12, EndsFreed DEF SettleRepair
<1>13. Observe(d) => OwnStep(d)
  BY <1>7, <1>8, <1>11, <1>12
  DEF Observe, ObserveStop, ObserveFailure, MonitorGivesUp, StreamEnds,
      SessionStopped, SessionFailed
<1>14. BackoffEnds(d) => Harmless
  <2>1. [job[d] EXCEPT !.stage = "sending"].stage = "sending"
    BY <1>0 DEF Job
  <2> QED
    BY <1>2, <2>1 DEF BackoffEnds, RepairStages
<1>15. RefuseRepairSlot(d) \/ ReleaseDelivery(d) => Harmless
  <2>1. IdleJob.stage = "idle"
    BY DEF IdleJob
  <2> QED
    BY <1>2, <2>1 DEF RefuseRepairSlot, ReleaseDelivery, Repairing, RepairStages
<1> QED
  BY <1>3, <1>5, <1>6, <1>7, <1>10, <1>13, <1>14, <1>15
  DEF HandlerStep, Send, SendFailsRetryably, Continue, ContinuationFails

\* Every step of a tool is harmless.
LEMMA ToolReleases ==
  ASSUME TypeOK,
         \/ \E t \in live : ToolStep(t)
         \/ \E c \in calls : PublishBeforeMerge(c) \/ FinishTool(c)
  PROVE  Harmless
<1> USE DEF StartedWork, TerminalAction
<1>0. ledger \in [Pipelines -> AttemptRecord] /\ job \in [Deliveries -> Job]
  BY DEF TypeOK, Ledger
<1>1. ASSUME NEW p \in Pipelines, NEW b, ledger' = [ledger EXCEPT ![p] = b],
             Freed(ledger[p]) => Freed(b)
      PROVE  \A q \in Pipelines : Freed(ledger[q]) => Freed(ledger'[q])
  BY <1>0, <1>1
<1>2. ASSUME NEW p \in Pipelines, NEW m \in StartedWork, AddMarker(p, m),
             UNCHANGED job
      PROVE  Harmless
  <2>1. Freed(ledger[p]) => Freed(WithMarker(ledger[p], m))
    BY <1>0, FreedStays
  <2>2. \A q \in Pipelines : Freed(ledger[q]) => Freed(ledger'[q])
    BY <1>1, <1>2, <2>1 DEF AddMarker
  <2> QED
    BY <1>2, <2>2 DEF Harmless, Repairing
<1>3. ASSUME NEW t \in Session, NEW action \in TerminalAction \ {"none"},
             RecordTerminalAction(t, action)
      PROVE  Harmless
  <2>1. \A q \in Pipelines : Freed(ledger[q]) => Freed(ledger'[q])
    <3>1. t.pipeline \in Pipelines
      BY DEF Session
    <3>2. Freed(WithTerminalAction(ledger[t.pipeline], action))
      BY <1>0, <3>1, ActedFreed
    <3> QED
      BY <1>1, <1>3, <3>1, <3>2 DEF RecordTerminalAction
  <2>2. \A d \in Deliveries : job'[d].stage = job[d].stage
    BY <1>0, <1>3 DEF RecordTerminalAction, Job
  <2> QED
    BY <2>1, <2>2 DEF Harmless, Repairing
<1>4. UNCHANGED <<ledger, job>> => Harmless
  BY DEF Harmless, Repairing
<1>5. ASSUME NEW t \in live, BeginTool(t) PROVE Harmless
  <2>1. t.pipeline \in Pipelines
    BY DEF TypeOK, Session
  <2>2. BeginRerun(t) => Harmless
    <3>1. Freed(ledger[t.pipeline]) => Freed(WithRerunRequest(ledger[t.pipeline]))
      BY <1>0, <2>1, FreedStays
    <3>2. BeginRerun(t) =>
            \A q \in Pipelines : Freed(ledger[q]) => Freed(ledger'[q])
      BY <1>1, <2>1, <3>1 DEF BeginRerun
    <3> QED
      BY <3>2 DEF BeginRerun, Harmless, Repairing
  <2> QED
    BY <1>4, <1>5, <2>2 DEF BeginTool, BeginStagedTool
<1>6. ASSUME NEW t \in live, ToolStep(t) PROVE Harmless
  <2>1. t \in Session /\ t.pipeline \in Pipelines
    BY DEF TypeOK, Session
  <2> QED
    BY <1>2, <1>3, <1>5, <1>6, <2>1
    DEF ToolStep, StageRepositorySnapshot, GetFailureContext,
        PostProviderComment, MergeChange
<1>7. ASSUME NEW c \in calls, PublishBeforeMerge(c) \/ FinishTool(c)
      PROVE  Harmless
  <2>1. c.session \in Session /\ c.session.pipeline \in Pipelines
    BY DEF TypeOK, ToolCall, Session
  <2>2. PublishBeforeMerge(c) => Harmless
    <3>1. Freed([ledger[c.session.pipeline] EXCEPT !.published = TRUE])
      BY <1>0, <2>1, FreedStays
    <3>2. PublishBeforeMerge(c) =>
            \A q \in Pipelines : Freed(ledger[q]) => Freed(ledger'[q])
      BY <1>0, <2>1, <3>1 DEF PublishBeforeMerge
    <3> QED
      BY <3>2 DEF PublishBeforeMerge, Harmless, Repairing
  <2> QED
    BY <1>2, <1>3, <1>4, <1>7, <2>1, <2>2
    DEF FinishTool, FinishChecks, FinishPublish, FinishRerun
<1> QED
  BY <1>6, <1>7

\* Every step keeps the invariant of the released deliveries.
LEMMA ReleaseStep ==
  ASSUME ReleaseInv, HandlerHoldsDelivery, [Next]_vars,
         "continuation_send_fails" \notin Faults, "stream_ends" \notin Faults
  PROVE  ReleaseInv'
<1>0. TypeOK /\ TypeOK'
  BY TypeStep DEF ReleaseInv
<1>1. ASSUME NEW d \in Deliveries, HandlerStep(d) PROVE ReleaseInv'
  BY <1>0, <1>1, HandlerReleases, ReleaseKept
<1>2. ASSUME \/ \E t \in live : ToolStep(t)
             \/ \E c \in calls : PublishBeforeMerge(c) \/ FinishTool(c)
      PROVE  ReleaseInv'
  BY <1>0, <1>2, ToolReleases, ReleaseKept
<1>3. ASSUME NEW p \in Pipelines, WindowExpires(p) PROVE ReleaseInv'
  <2>1. Freed([ledger[p] EXCEPT !.recent = FALSE])
    BY <1>0, FreedStays DEF TypeOK, Ledger, StartedWork, TerminalAction
  <2>2. Harmless
    BY <1>0, <1>3, <2>1 DEF WindowExpires, Harmless, Repairing, TypeOK, Ledger
  <2> QED
    BY <1>0, <2>2, ReleaseKept
<1>4. ASSUME NEW d \in Deliveries, ReceiveFailure(d) PROVE ReleaseInv'
  <2>1. [IdleJob EXCEPT !.stage = "claiming"].stage = "claiming"
    BY DEF IdleJob
  <2>2. \A e \in Deliveries \ {d} : job'[e] = job[e]
    BY <1>0, <1>4 DEF ReceiveFailure, TypeOK
  <2>3. job'[d].stage = "claiming" /\ job[d].stage = "idle" /\ ledger' = ledger
    BY <1>0, <1>4, <2>1
    DEF ReceiveFailure, MarkDeliveryProcessed, HandlerHoldsDelivery, TypeOK
  <2>4. Harmless
    BY <2>2, <2>3 DEF Harmless, Repairing, RepairStages
  <2> QED
    BY <1>0, <2>4, ReleaseKept
<1>5. Crash => ReleaseInv'
  BY <1>0 DEF Crash, ReleaseInv, IdleJob
<1>6. ASSUME UNCHANGED vars \/ \E d \in Deliveries : RejectFailure(d)
      PROVE  ReleaseInv'
  <2>1. Harmless
    BY <1>6 DEF vars, RejectFailure, Harmless, Repairing
  <2> QED
    BY <1>0, <2>1, ReleaseKept
<1> QED
  BY <1>1, <1>2, <1>3, <1>4, <1>5, <1>6 DEF Next

\* Where no continuation is refused and no stream ends early, a delivery that
\* is released finds its slot free unless its repair did act or another has
\* taken the slot (releaseDelivery, isActiveRepairAttempt).
THEOREM ReleasedCanRetry ==
  "continuation_send_fails" \notin Faults /\ "stream_ends" \notin Faults
    => (Spec => ReleasedDeliveryCanRetry)
<1> SUFFICES ASSUME "continuation_send_fails" \notin Faults,
                    "stream_ends" \notin Faults
             PROVE  Spec => ReleasedDeliveryCanRetry
  OBVIOUS
<1> DEFINE Released == \A d \in processed \ processed' : SlotReclaimable(d)
<1>1. Init => ReleaseInv
  BY NoAttemptType, IdleJobType
  DEF Init, ReleaseInv, TypeOK, Ledger, IdleJob
<1>2. ReleaseInv /\ HandlerHoldsDelivery /\ [Next]_vars => ReleaseInv'
  BY ReleaseStep
<1>3. ReleaseInv /\ [Next]_vars => [Released]_vars
  <2> SUFFICES ASSUME ReleaseInv, [Next]_vars, NEW d \in processed \ processed'
               PROVE  SlotReclaimable(d)
    OBVIOUS
  <2>1. ReleaseDelivery(d)
    BY DEF Next, ReceiveFailure, RejectFailure, MarkDeliveryProcessed,
           HandlerStep, ClaimRepairSlot, RefuseRepairSlot, SeedFailureContext,
           Send, SendSucceeds, SendFailsRetryably, SendFails, BackoffEnds,
           Observe, ObserveStop, ObserveFailure, TurnEnds, MonitorGivesUp,
           StreamEnds, Continue, ContinuationSucceeds, ContinuationFails,
           ReleaseDelivery, ToolStep, StageRepositorySnapshot,
           GetFailureContext, PostProviderComment, MergeChange, BeginTool,
           BeginStagedTool, BeginRerun, PublishBeforeMerge, FinishTool,
           WindowExpires, Crash, vars, sessionVars
  <2>2. d \in Deliveries /\ job[d].stage = "releasing"
    BY <2>1 DEF ReleaseDelivery, ReleaseInv, TypeOK
  <2>3. Reclaimable(PipelineOf[d]) /\ ~Repairing(d)
    BY <2>2 DEF ReleaseInv, Repairing, RepairStages
  <2>4. Freed(ledger[PipelineOf[d]]) => SlotReclaimable(d)
    BY DEF Freed, SlotReclaimable, IsActiveRepairAttempt
  <2> QED
    BY <2>3, <2>4 DEF Reclaimable, SlotReclaimable
<1> QED
  BY <1>1, <1>2, <1>3, DeliveriesAreHeld, PTL
  DEF Spec, ReleasedDeliveryCanRetry

=============================================================================
