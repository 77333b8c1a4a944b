---------------------------- MODULE RepairService ----------------------------
(***************************************************************************)
(* The repair orchestrator, agent/lib/repair-service.ts: what happens to a *)
(* failed-pipeline webhook from the moment its delivery is marked until    *)
(* its repair settles, together with the Eve sessions it starts and the    *)
(* tools those sessions run.                                               *)
(*                                                                         *)
(* A step is what runs between two awaits that really wait: for the        *)
(* network, a timer, the session stream or the promise-chain mutex of      *)
(* state.ts.  Deliveries are handled concurrently, and every session runs  *)
(* concurrently with all of them.                                          *)
(***************************************************************************)
EXTENDS RepairState

CONSTANTS
  Deliveries,          \* webhook deliveries that report a failed pipeline
  PipelineOf,          \* the pipeline each delivery reports
  Disallowed,          \* deliveries whose branch the policy does not allow
  ProviderErrorRetries,\* config.providerErrorRetries
  MaxContinuations,    \* MAX_REPAIR_CONTINUATIONS
  MaxToolCalls,        \* bound: split tool calls in flight at once
  Faults               \* what the environment may do besides answering

\* crash                    the process stops; only the state file survives
\* window_expires           a repair outlives the 15-minute recent window
\* stream_ends              a session stream ends before any boundary event
\* continuation_send_fails  Eve refuses the continuation message
\* monitor_gives_up         timeout, stream error or edit loop: the monitor
\*                          stops watching a session that keeps running
FaultKinds ==
  {"crash", "window_expires", "stream_ends", "continuation_send_fails",
   "monitor_gives_up"}

ASSUME ServiceAssumption ==
  /\ PipelineOf \in [Deliveries -> Pipelines]
  /\ Disallowed \subseteq Deliveries
  /\ ProviderErrorRetries \in Nat
  /\ MaxContinuations \in Nat
  /\ MaxToolCalls \in Nat
  /\ Faults \subseteq FaultKinds

VARIABLES
  ledger,      \* state.attempts, persisted
  processed,   \* state.processedDeliveries, persisted
  job,         \* the async handler of each delivery, in memory
  live,        \* Eve sessions whose turn is running, outside the process
  calls,       \* tool calls that have read the record and not yet written it
  reruns       \* reruns asked of the provider, per pipeline

vars == <<ledger, processed, job, live, calls, reruns>>

\* What the sessions own, and no handler changes by itself.
sessionVars == <<live, calls, reruns>>

-----------------------------------------------------------------------------

\* Where a handler is suspended:
\*   claiming    awaiting claimRepairSlot        seeding     loadFailureContext
\*   sending     send, first or retry            backoff     the retry's sleep
\*   watching    observeRepairSession            continuing  the second send
\*   releasing   awaiting releaseDelivery
Stages ==
  {"idle", "claiming", "seeding", "sending", "backoff", "watching",
   "continuing", "releasing"}

\* seen is the last terminal action in the stream of the session the handler
\* reads.
Job ==
  [stage : Stages, attempt : Nat, retries : 0 .. ProviderErrorRetries,
   continuations : 0 .. MaxContinuations, seen : TerminalAction]

IdleJob ==
  [stage |-> "idle", attempt |-> 0, retries |-> 0, continuations |-> 0,
   seen |-> "none"]

\* Every session that is started is watched with all its continuations left.
Seeding(j, n) == [j EXCEPT !.stage = "seeding", !.attempt = n]

WatchingAnew(j) ==
  [j EXCEPT !.stage = "watching", !.continuations = 0, !.seen = "none"]

\* Mutant: the retry is not counted.
BackingOffUncounted(j) == [j EXCEPT !.stage = "backoff"]

BackingOff(j) == [j EXCEPT !.stage = "backoff", !.retries = @ + 1]

Continuing(j) == [j EXCEPT !.stage = "continuing", !.continuations = @ + 1]

\* repairContinuationToken: one Eve session per attempt and provider retry.
Session ==
  [pipeline : Pipelines, attempt : Nat, retry : 0 .. ProviderErrorRetries]

SessionOf(d) ==
  [pipeline |-> PipelineOf[d], attempt |-> job[d].attempt,
   retry |-> job[d].retries]

\* The tools whose guard on the record and effect on it are awaits apart.
\* immediate_merge is publish_fix between its two writes.
SplitTools ==
  {"run_repo_checks", "publish_fix", "immediate_merge", "rerun_pipeline"}

ToolCall == [session : Session, tool : SplitTools]

\* The handlers that own a repair: past the claim and not yet giving it up.
RepairStages ==
  {"seeding", "sending", "backoff", "watching", "continuing"}

Repairing(d) == job[d].stage \in RepairStages

TypeOK ==
  /\ ledger \in Ledger
  /\ processed \subseteq Deliveries
  /\ job \in [Deliveries -> Job]
  /\ live \subseteq Session
  /\ calls \subseteq ToolCall
  /\ reruns \in [Pipelines -> Nat]

Init ==
  /\ ledger = [p \in Pipelines |-> NoAttempt]
  /\ processed = {}
  /\ job = [d \in Deliveries |-> IdleJob]
  /\ live = {}
  /\ calls = {}
  /\ reruns = [p \in Pipelines |-> 0]

-----------------------------------------------------------------------------
\* Webhook to repair slot.

MarkDeliveryProcessed(d) ==
  /\ d \notin processed
  /\ processed' = processed \cup {d}

ReceiveFailure(d) ==
  /\ MarkDeliveryProcessed(d)
  /\ d \notin Disallowed
  /\ job' = [job EXCEPT ![d] = [IdleJob EXCEPT !.stage = "claiming"]]
  /\ UNCHANGED <<ledger, sessionVars>>

\* The delivery is marked before the branch policy is asked, and a rejected
\* one stays marked.  A duplicate changes nothing and is not a step.
RejectFailure(d) ==
  /\ MarkDeliveryProcessed(d)
  /\ d \in Disallowed
  /\ UNCHANGED <<ledger, job, sessionVars>>

\* Mutant: only the pipeline of the event is asked, not its commit.
PipelineInProgress(d) == IsActiveRepairAttempt(ledger[PipelineOf[d]])

SlotInProgress(d) ==
  ActiveAttemptsForSha(ledger, ShaOf[PipelineOf[d]]) # {}

ClaimRepairSlot(d) ==
  /\ job[d].stage = "claiming"
  /\ ~SlotInProgress(d)
  /\ WithinAttemptCap(ledger, PipelineOf[d])
  /\ ledger' = [ledger EXCEPT ![PipelineOf[d]] = ClaimedAttempt(@)]
  /\ job' = [job EXCEPT ![d] =
                Seeding(@, ClaimedAttempt(ledger[PipelineOf[d]]).attempts)]
  /\ UNCHANGED <<processed, sessionVars>>

\* in_progress and max_attempts: the event is dropped, its delivery stays marked.
RefuseRepairSlot(d) ==
  /\ job[d].stage = "claiming"
  /\ SlotInProgress(d) \/ ~WithinAttemptCap(ledger, PipelineOf[d])
  /\ job' = [job EXCEPT ![d] = IdleJob]
  /\ UNCHANGED <<ledger, processed, sessionVars>>

-----------------------------------------------------------------------------
\* startRepairSession: seed, send, retry.

AddMarker(p, marker) ==
  ledger' = [ledger EXCEPT ![p] = WithMarker(@, marker)]

\* A failure to load the context is seeded as an error block, so this step
\* always succeeds.
SeedFailureContext(d) ==
  /\ job[d].stage = "seeding"
  /\ AddMarker(PipelineOf[d], "lastFailureContext")
  /\ job' = [job EXCEPT ![d].stage = "sending"]
  /\ UNCHANGED <<processed, sessionVars>>

RecordSessionRunning(p) ==
  ledger' = [ledger EXCEPT ![p] =
               WithOutcome(WithMarker(@, "lastSessionId"), "running", "none")]

SendSucceeds(d) ==
  /\ job[d].stage = "sending"
  /\ RecordSessionRunning(PipelineOf[d])
  /\ live' = live \cup {SessionOf(d)}
  /\ job' = [job EXCEPT ![d] = WatchingAnew(@)]
  /\ UNCHANGED <<processed, calls, reruns>>

\* Mutant: one retry too many.
CanRetryOnceMore(d) == job[d].retries <= ProviderErrorRetries

CanRetryProviderError(d) == job[d].retries < ProviderErrorRetries

\* prepareProviderErrorRetry up to its sleep.
PrepareProviderErrorRetry(d) ==
  /\ CanRetryProviderError(d)
  /\ ledger' = [ledger EXCEPT ![PipelineOf[d]] =
                   WithOutcome(WithoutMarker(@, "lastSessionId"),
                               "running", "none")]
  /\ job' = [job EXCEPT ![d] = BackingOff(@)]

\* send throws a retryable provider error and a retry is left.
SendFailsRetryably(d) ==
  /\ job[d].stage = "sending"
  /\ PrepareProviderErrorRetry(d)
  /\ UNCHANGED <<processed, sessionVars>>

\* send throws and is not retried: the session status is recorded as failed,
\* then the outer catch clears the dispatch marker.
SendFails(d) ==
  /\ job[d].stage = "sending"
  /\ ledger' = [ledger EXCEPT ![PipelineOf[d]] =
                   WithOutcome(WithoutMarker(@, "dispatchedAt"),
                               "failed", @.terminal)]
  /\ job' = [job EXCEPT ![d].stage = "releasing"]
  /\ UNCHANGED <<processed, sessionVars>>

BackoffEnds(d) ==
  /\ job[d].stage = "backoff"
  /\ job' = [job EXCEPT ![d].stage = "sending"]
  /\ UNCHANGED <<ledger, processed, sessionVars>>

-----------------------------------------------------------------------------
\* monitorRepairLoop: one boundary of the watched session.  Recording the
\* observation and deciding what follows from it happen in one turn of the
\* event loop.

\* Mutant: the dispatch marker is cleared and the outcome not recorded.
GiveUpUnrecorded(d, status) ==
  /\ ledger' = [ledger EXCEPT ![PipelineOf[d]] =
                   WithoutMarker(@, "dispatchedAt")]
  /\ job' = [job EXCEPT ![d].stage = "releasing"]

\* recordSessionObservation, then releaseForExternalRetryIfNeeded.
GiveUpForRedelivery(d, status) ==
  /\ ledger' = [ledger EXCEPT ![PipelineOf[d]] =
                   WithOutcome(WithoutMarker(@, "dispatchedAt"),
                               status, "none")]
  /\ job' = [job EXCEPT ![d].stage = "releasing"]

\* The observation is recorded and the handler returns; the delivery stays
\* marked.
SettleRepair(d, status, terminal) ==
  /\ ledger' = [ledger EXCEPT ![PipelineOf[d]] =
                   WithOutcome(@, status, terminal)]
  /\ job' = [job EXCEPT ![d] = IdleJob]

\* One bounded continuation of a session that waits without having asked a
\* human.
PrepareContinuation(d) ==
  /\ job[d].continuations < MaxContinuations
  /\ ledger' = [ledger EXCEPT ![PipelineOf[d]] =
                   WithOutcome(@, "running", "none")]
  /\ job' = [job EXCEPT ![d] = Continuing(@)]

\* What follows from a session that stopped: done if it took a terminal
\* action; else continued, or given up as abandoned.
SessionStopped(d) ==
  \/ job[d].seen # "none" /\ SettleRepair(d, "completed", job[d].seen)
  \/ job[d].seen = "none" /\ PrepareContinuation(d)
  \/ job[d].seen = "none" /\ GiveUpForRedelivery(d, "abandoned")

\* What follows from a failed session: a terminal action settles it, a
\* retryable provider error is retried while a retry is left, anything else is
\* given up.
SessionFailed(d) ==
  \/ job[d].seen # "none" /\ SettleRepair(d, "failed", job[d].seen)
  \/ job[d].seen = "none" /\ PrepareProviderErrorRetry(d)
  \/ job[d].seen = "none" /\ GiveUpForRedelivery(d, "failed")

\* A turn ends after the results of its tool calls.
TurnEnds(d) ==
  /\ job[d].stage = "watching"
  /\ \A c \in calls : c.session # SessionOf(d)
  /\ live' = live \ {SessionOf(d)}
  /\ UNCHANGED <<processed, calls, reruns>>

\* session.completed or session.waiting
ObserveStop(d) == TurnEnds(d) /\ SessionStopped(d)

\* step.failed, turn.failed or session.failed
ObserveFailure(d) == TurnEnds(d) /\ SessionFailed(d)

\* Timeout, stream error or edit loop.  The session is not stopped, and its
\* terminal action may be among the events not read.
MonitorGivesUp(d) ==
  /\ "monitor_gives_up" \in Faults
  /\ job[d].stage = "watching"
  /\ \/ GiveUpForRedelivery(d, "failed")
     \/ job[d].seen # "none" /\ SettleRepair(d, "failed", job[d].seen)
  /\ UNCHANGED <<processed, sessionVars>>

\* The stream is done without a boundary event.  What was read, which may be
\* less than what the session did, classifies it as stopped or, with nothing to
\* tell, as running, which is neither retried nor continued nor released.
StreamEnds(d) ==
  /\ "stream_ends" \in Faults
  /\ job[d].stage = "watching"
  /\ \/ job[d].seen # "none" /\ SettleRepair(d, "completed", job[d].seen)
     \/ PrepareContinuation(d)
     \/ GiveUpForRedelivery(d, "abandoned")
     \/ SettleRepair(d, "running", "none")
  /\ UNCHANGED <<processed, sessionVars>>

ContinuationSucceeds(d) ==
  /\ job[d].stage = "continuing"
  /\ RecordSessionRunning(PipelineOf[d])
  /\ live' = live \cup {SessionOf(d)}
  /\ job' = [job EXCEPT ![d].stage = "watching"]
  /\ UNCHANGED <<processed, calls, reruns>>

\* The continuation's send throws into the outer catch of startRepairSession,
\* which clears the dispatch marker only.
ContinuationFails(d) ==
  /\ "continuation_send_fails" \in Faults
  /\ job[d].stage = "continuing"
  /\ ledger' = [ledger EXCEPT ![PipelineOf[d]] =
                   WithoutMarker(@, "dispatchedAt")]
  /\ job' = [job EXCEPT ![d].stage = "releasing"]
  /\ UNCHANGED <<processed, sessionVars>>

\* Mutant: the delivery is never released.
ReleaseForgotten(d) ==
  /\ job[d].stage = "releasing"
  /\ job' = [job EXCEPT ![d] = IdleJob]
  /\ UNCHANGED <<ledger, processed, sessionVars>>

ReleaseDelivery(d) ==
  /\ job[d].stage = "releasing"
  /\ processed' = processed \ {d}
  /\ job' = [job EXCEPT ![d] = IdleJob]
  /\ UNCHANGED <<ledger, sessionVars>>

-----------------------------------------------------------------------------
\* Tools.  A session names its attempt by the pipeline key only, so a session
\* of an earlier attempt writes to the record of the current one.

\* The handlers reading the stream of session t.
Watchers(t) == {d \in Deliveries : job[d].stage = "watching" /\ SessionOf(d) = t}

\* The tool's own write of the outcome, and its result in the stream.
RecordTerminalAction(t, action) ==
  /\ ledger' = [ledger EXCEPT ![t.pipeline] = WithTerminalAction(@, action)]
  /\ job' = [d \in Deliveries |->
              IF d \in Watchers(t) THEN [job[d] EXCEPT !.seen = action]
                                   ELSE job[d]]

StageRepositorySnapshot(t) ==
  /\ AddMarker(t.pipeline, "repoStagedAt")
  /\ UNCHANGED <<processed, job, sessionVars>>

GetFailureContext(t) ==
  /\ AddMarker(t.pipeline, "lastFailureContext")
  /\ UNCHANGED <<processed, job, sessionVars>>

PostProviderComment(t) ==
  /\ RecordTerminalAction(t, "comment_posted")
  /\ UNCHANGED <<processed, sessionVars>>

\* merge_change: guards on the recorded change, then merges it.  The mergeChange
\* of every provider answers with merged: true or throws, so that its result is
\* always a terminal action to the monitor.
MergeChange(t) ==
  /\ ledger[t.pipeline].published
  /\ RecordTerminalAction(t, "published")
  /\ UNCHANGED <<processed, sessionVars>>

\* resolveStagedAttempt of run_repo_checks and publish_fix.
BeginStagedTool(t, tool) ==
  /\ "repoStagedAt" \in ledger[t.pipeline].markers
  /\ calls' = calls \cup {[session |-> t, tool |-> tool]}
  /\ UNCHANGED <<ledger, processed, job, live, reruns>>

\* rerun_pipeline claims its one request and sends it.
BeginRerun(t) ==
  /\ RerunClaimable(ledger[t.pipeline])
  /\ ledger' = [ledger EXCEPT ![t.pipeline] = WithRerunRequest(@)]
  /\ reruns' = [reruns EXCEPT ![t.pipeline] = @ + 1]
  /\ calls' = calls \cup {[session |-> t, tool |-> "rerun_pipeline"]}
  /\ UNCHANGED <<processed, job, live>>

BeginTool(t) ==
  /\ Cardinality(calls) < MaxToolCalls
  /\ \/ \E tool \in {"run_repo_checks", "publish_fix"} : BeginStagedTool(t, tool)
     \/ BeginRerun(t)

\* The checks ran; publish_fix that finds them failing, or nothing changed,
\* leaves no more than this either.
FinishChecks(c) ==
  /\ c.tool \in {"run_repo_checks", "publish_fix"}
  /\ AddMarker(c.session.pipeline, "lastVerification")
  /\ UNCHANGED job

FinishPublish(c) ==
  /\ c.tool \in {"publish_fix", "immediate_merge"}
  /\ RecordTerminalAction(c.session, "published")

\* auto_merge without requireSuccessfulPipeline: the publish is recorded before
\* the merge is asked for, and the outcome after it.
PublishBeforeMerge(c) ==
  /\ c \in calls
  /\ c.tool = "publish_fix"
  /\ ledger' = [ledger EXCEPT ![c.session.pipeline].published = TRUE]
  /\ calls' = (calls \ {c}) \cup {[c EXCEPT !.tool = "immediate_merge"]}
  /\ UNCHANGED <<processed, job, live, reruns>>

\* A failed request is recorded in the rerun request only.
FinishRerun(c) ==
  /\ c.tool = "rerun_pipeline"
  /\ \/ RecordTerminalAction(c.session, "rerun_requested")
     \/ UNCHANGED <<ledger, job>>

FinishTool(c) ==
  /\ c \in calls
  /\ FinishChecks(c) \/ FinishPublish(c) \/ FinishRerun(c)
  /\ calls' = calls \ {c}
  /\ UNCHANGED <<processed, live, reruns>>

-----------------------------------------------------------------------------
\* Environment.

WindowExpires(p) ==
  /\ "window_expires" \in Faults
  /\ ledger[p].recent
  /\ ledger' = [ledger EXCEPT ![p].recent = FALSE]
  /\ UNCHANGED <<processed, job, sessionVars>>

\* Handlers and tool calls die with the process.  Eve sessions are durable
\* and outlive it.
Crash ==
  /\ "crash" \in Faults
  /\ \E d \in Deliveries : job[d].stage # "idle"
  /\ job' = [d \in Deliveries |-> IdleJob]
  /\ calls' = {}
  /\ UNCHANGED <<ledger, processed, live, reruns>>

-----------------------------------------------------------------------------

Send(d) == SendSucceeds(d) \/ SendFailsRetryably(d) \/ SendFails(d)

Observe(d) ==
  ObserveStop(d) \/ ObserveFailure(d) \/ MonitorGivesUp(d) \/ StreamEnds(d)

Continue(d) == ContinuationSucceeds(d) \/ ContinuationFails(d)

\* What a handler does next once the thing it awaits has happened.
HandlerStep(d) ==
  \/ ClaimRepairSlot(d) \/ RefuseRepairSlot(d) \/ SeedFailureContext(d)
  \/ Send(d) \/ BackoffEnds(d) \/ Observe(d) \/ Continue(d)
  \/ ReleaseDelivery(d)

ToolStep(t) ==
  \/ StageRepositorySnapshot(t) \/ GetFailureContext(t)
  \/ PostProviderComment(t) \/ MergeChange(t) \/ BeginTool(t)

Next ==
  \/ \E d \in Deliveries :
       ReceiveFailure(d) \/ RejectFailure(d) \/ HandlerStep(d)
  \/ \E t \in live : ToolStep(t)
  \/ \E c \in calls : PublishBeforeMerge(c) \/ FinishTool(c)
  \/ \E p \in Pipelines : WindowExpires(p)
  \/ Crash

Spec == Init /\ [][Next]_vars

\* Every await of a handler settles: provider requests and the monitor have
\* deadlines, a sleep ends, the mutex chain survives rejections.  A released
\* delivery is sent again.  Nothing is assumed of sessions and tools.
Fairness ==
  \A d \in Deliveries : WF_vars(HandlerStep(d)) /\ WF_vars(ReceiveFailure(d))

FairSpec == Spec /\ Fairness

-----------------------------------------------------------------------------
\* What the slot guards are for.

\* The cap of the policy holds over all pipelines of a commit, however many
\* webhooks, retries, crashes and sessions of earlier attempts interleave
\* (claimRepairSlot, countAttemptsForSha).
AttemptsWithinCap ==
  \A s \in Shas : CountAttemptsForSha(ledger, s) <= MaxAttemptsPerSha

\* A delivery stays marked for as long as its handler runs, so that no
\* duplicate of it can start a second one (markDeliveryProcessed,
\* releaseDelivery).
HandlerHoldsDelivery ==
  \A d \in Deliveries : job[d].stage # "idle" => d \in processed

\* No two handlers ever run the same attempt of a pipeline, even when the
\* recent window let a second repair in: their continuation tokens differ
\* (repairContinuationToken).
OneHandlerPerAttempt ==
  \A d, e \in Deliveries :
    /\ Repairing(d) /\ Repairing(e)
    /\ PipelineOf[d] = PipelineOf[e]
    /\ job[d].attempt = job[e].attempt
    => d = e

\* While no repair outlives the recent window, a commit has at most one repair
\* under way, whichever of its pipelines the webhooks name (the in-progress
\* guard of claimRepairSlot).
OneRepairPerSha ==
  "window_expires" \notin Faults =>
    \A d, e \in Deliveries :
      Repairing(d) /\ Repairing(e) /\ ShaOf[PipelineOf[d]] = ShaOf[PipelineOf[e]]
        => d = e

\* The provider is never asked for more reruns of a pipeline than it had
\* attempts, including the requests of sessions whose attempt is over
\* (claimRerunRequest).
RerunsWithinAttempts ==
  \A p \in Pipelines : reruns[p] <= ledger[p].attempts

\* Once a fix has been published for a commit nothing takes it back and no
\* further attempt is recorded for that commit (isActiveRepairAttempt,
\* resetAttemptForRetry).
PublishedStep ==
  \A p \in Pipelines :
    ledger[p].published =>
      /\ ledger'[p].published
      /\ \A q \in PipelinesOf(ShaOf[p]) :
            ledger'[q].attempts = ledger[q].attempts

PublishedIsFinal == [][PublishedStep]_vars

\* A delivery that is released for redelivery finds its slot free, unless the
\* repair did act in the end or another repair of the pipeline is under way
\* (releaseDelivery; isActiveRepairAttempt: "a slot that failed to launch can be
\* reclaimed by a redelivery").
SlotReclaimable(d) ==
  \/ ~IsActiveRepairAttempt(ledger[PipelineOf[d]])
  \/ ledger[PipelineOf[d]].published
  \/ ledger[PipelineOf[d]].terminal # "none"
  \/ \E e \in Deliveries \ {d} : Repairing(e) /\ PipelineOf[e] = PipelineOf[d]

ReleasedDeliveryCanRetry ==
  [][\A d \in processed \ processed' : SlotReclaimable(d)]_vars

\* Every repair that is claimed comes to an end: retries and continuations are
\* bounded and the monitor has a deadline.
RepairSettles ==
  \A d \in Deliveries : Repairing(d) ~> job[d].stage = "idle"

\* A commit whose failure was accepted is repaired again, redelivery after
\* redelivery, until some session publishes or takes another terminal action, or
\* the cap is reached.
Resolved(s) ==
  \/ CountAttemptsForSha(ledger, s) = MaxAttemptsPerSha
  \/ \E p \in PipelinesOf(s) : ledger[p].terminal # "none" \/ ledger[p].published

RetriedUntilResolved ==
  \A s \in Shas :
    (\E d \in Deliveries : Repairing(d) /\ ShaOf[PipelineOf[d]] = s)
      ~> Resolved(s)

=============================================================================
