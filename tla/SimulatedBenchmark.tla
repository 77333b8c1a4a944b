-------------------------- MODULE SimulatedBenchmark --------------------------
(***************************************************************************)
(* The benchmark runner (scripts/simulated-benchmark.mjs) together with    *)
(* the service it starts and the state file both of them change.  The      *)
(* runner is one Node process: a worker that verifies a fixture or updates *)
(* the file keeps the others from running, one that waits for HTTP or      *)
(* sleeps does not.                                                        *)
(***************************************************************************)
EXTENDS BenchmarkService, FiniteSets

CONSTANTS
  Runner,           \* the process of the runner
  Concurrency       \* options.concurrency

ASSUME BenchmarkAssumption ==
  /\ Processes = {Runner, Server} /\ Runner # Server
  /\ Jobs \subseteq Nat
  /\ Concurrency \in Nat \ {0}

VARIABLES
  work,   \* what the workers know of each job
  post,   \* the webhook request of each job
  run     \* main

runnerVars == <<work, post, run>>
vars == <<storeVars, serviceVars, runnerVars, mayHappen>>

-----------------------------------------------------------------------------

\* todo        no worker has taken it        appending   adding its sample
\* delivering  awaiting the webhook answer   polling     waitForRepairResult
\* done        it has its row                failed      its worker has thrown
WorkStages ==
  {"todo", "appending", "delivering", "polling", "done", "failed"}

\* What is kept of an attempt record that was read, and what becomes the row.
Sight == [status : Statuses, terminal : Terminals, change : Nat]
Unseen == [status |-> "none", terminal |-> "none", change |-> 0]

RowStatuses ==
  {"none", "no_webhook_attempt", "published_green",
   "published_unexpected_files", "published_check_failed",
   "published_check_unknown", "rerun_requested", "comment_posted",
   "agent_failed", "agent_abandoned", "agent_waiting",
   "agent_completed_without_publish", "incomplete"}

Row == [status : RowStatuses, change : Nat]
NoRow == [status |-> "none", change |-> 0]

Work ==
  [stage : WorkStages, redeliveries : Nat, last : Sight, row : Row]

NewWork == [stage |-> "todo", redeliveries |-> 0, last |-> Unseen, row |-> NoRow]

Active == {"appending", "delivering", "polling"}

\* Type correctness, of the two state files and both processes.
TypeOK ==
  /\ StoreTypeOK
  /\ ServiceTypeOK
  /\ work \in [Jobs -> Work]
  /\ post \in [Jobs -> {"none", "sent", "accepted", "refused"}]
  /\ run \in {"starting", "running", "stopping", "aborting", "finished", "aborted"}

Init ==
  /\ StoreInit
  /\ ServiceInit
  /\ work = [j \in Jobs |-> NewWork]
  /\ post = [j \in Jobs |-> "none"]
  /\ run = "starting"

\* Workers go on while main, after the first error, stops the service.
RunnerFree == pc[Runner] = "idle" /\ run \in {"running", "aborting"}

Stage(w, stage) == [w EXCEPT !.stage = stage]

\* The first error ends Promise.all.
Abandon(j) ==
  /\ work' = [work EXCEPT ![j] = Stage(@, "failed")]
  /\ run' = "aborting"

-----------------------------------------------------------------------------
\* main

\* startBenchmarkServer succeeds, or the service does not become ready.
StartServer ==
  /\ run = "starting"
  /\ run' \in {"running", "aborted"}
  /\ UNCHANGED <<storeVars, serviceVars, work, post>>

\* Promise.all is through.
AllRowsMade ==
  /\ RunnerFree
  /\ run = "running"
  /\ \A j \in Jobs : work[j].stage = "done"
  /\ run' = "stopping"
  /\ UNCHANGED <<storeVars, serviceVars, work, post>>

\* The service ends, on the SIGTERM of stopBenchmarkServer; at any point of an
\* update.
StopServer ==
  /\ run \in {"stopping", "aborting"}
  /\ ServerExits
  /\ UNCHANGED runnerVars

\* The runner writes its report, or exits with the error, when it is not in the
\* middle of an update.  It has waited for the npm process, or for five seconds:
\* the service under it may still be running, and then goes on.
RunnerExits ==
  /\ run \in {"stopping", "aborting"}
  /\ pc[Runner] = "idle"
  /\ run' = IF run = "stopping" THEN "finished" ELSE "aborted"
  /\ UNCHANGED <<storeVars, serviceVars, work, post>>

\* The service ends by itself.
ServerCrashes ==
  /\ \E j \in Jobs : "server_exits" \in mayHappen[j]
  /\ run = "running"
  /\ ServerExits
  /\ UNCHANGED runnerVars

-----------------------------------------------------------------------------
\* runScenarioSample

\* A worker that has thrown takes no other job.
WorkerFree ==
  Cardinality({j \in Jobs : work[j].stage \in Active \cup {"failed"}})
    < Concurrency

NextJob(j) ==
  /\ work[j].stage = "todo"
  /\ \A i \in Jobs : work[i].stage = "todo" => j <= i

\* The fixture fails as it should, and its sample is to be appended.
StartJob(j) ==
  /\ RunnerFree /\ WorkerFree /\ NextJob(j)
  /\ Begin(Runner, [kind |-> "sample", job |-> j])
  /\ work' = [work EXCEPT ![j] = Stage(@, "appending")]
  /\ UNCHANGED <<serviceVars, post, run>>

BrokenFixture(j) ==
  /\ "fixture_broken" \in mayHappen[j]
  /\ RunnerFree /\ WorkerFree /\ NextJob(j)
  /\ Abandon(j)
  /\ UNCHANGED <<storeVars, serviceVars, post>>

\* The sample is in the file, and the webhook is sent.
SampleAppended(j) ==
  /\ work[j].stage = "appending"
  /\ done[Runner]
  /\ Return(Runner)
  /\ work' = [work EXCEPT ![j] = Stage(@, "delivering")]
  /\ post' = [post EXCEPT ![j] = "sent"]
  /\ UNCHANGED <<serviceVars, run>>

AppendFails(j) ==
  /\ work[j].stage = "appending"
  /\ ~done[Runner]
  /\ Return(Runner)
  /\ Abandon(j)
  /\ UNCHANGED <<serviceVars, post>>

\* The service answers a webhook request.
Receive(j) ==
  /\ post[j] = "sent"
  /\ \/ AcceptDelivery(j) /\ post' = [post EXCEPT ![j] = "accepted"]
     \/ RefuseDelivery(j) /\ post' = [post EXCEPT ![j] = "refused"]
  /\ UNCHANGED <<work, run>>

\* An accepted request counts as a redelivery when the poll has sent it.
Accepted(w) ==
  [w EXCEPT !.stage = "polling",
            !.redeliveries = IF w.last = Unseen THEN @ ELSE @ + 1]

DeliveryAccepted(j) ==
  /\ RunnerFree
  /\ post[j] = "accepted"
  /\ post' = [post EXCEPT ![j] = "none"]
  /\ work' = [work EXCEPT ![j] = Accepted(@)]
  /\ UNCHANGED <<storeVars, serviceVars, run>>

\* Anything but accepted: true is an error, as is a service that is not there.
DeliveryFails(j) ==
  /\ RunnerFree
  /\ \/ post[j] = "refused"
     \/ post[j] \in {"sent", "accepted"} /\ pc[Server] = "stopped"
  /\ post' = [post EXCEPT ![j] = "none"]
  /\ Abandon(j)
  /\ UNCHANGED <<storeVars, serviceVars>>

-----------------------------------------------------------------------------
\* waitForRepairResult reads the attempt record.

Seen(a) == [status |-> a.status, terminal |-> a.terminal, change |-> a.change]

\* shouldRedeliverRepairAttempt; isTerminalRepairAttempt also takes a completed
\* attempt and one that has published.
Redeliverable(a) ==
  a.change = 0 /\ a.status \in {"failed", "abandoned", "waiting"}

Exhausted(a, redeliveries) ==
  \/ a.change = 0 /\ a.status = "completed"
  \/ Redeliverable(a) /\ redeliveries + a.attempts >= MaxAttempts

CheckStatus(verdict) ==
  CASE verdict = "success"          -> "published_green"
    [] verdict = "unexpected_files" -> "published_unexpected_files"
    [] verdict = "failure"          -> "published_check_failed"

\* classifyBenchmarkStatus, with readSimulatedPullRequestChecks
RowStatus(a) ==
  CASE a.change # 0 ->
         IF ChangesNumbered(db, a.change) = {} THEN "published_check_unknown"
         ELSE CheckStatus((CHOOSE c \in ChangesNumbered(db, a.change) :
                             TRUE).verdict)
    [] a.change = 0 /\ a.terminal \in {"rerun_requested", "comment_posted"} ->
         a.terminal
    [] OTHER ->
         CASE a.status = "failed"    -> "agent_failed"
           [] a.status = "abandoned" -> "agent_abandoned"
           [] a.status = "waiting"   -> "agent_waiting"
           [] a.status = "completed" -> "agent_completed_without_publish"
           [] OTHER                  -> "incomplete"

RowOf(a) == [status |-> RowStatus(a), change |-> a.change]

WithRow(w, row) ==
  [w EXCEPT !.stage = "done", !.last = Unseen, !.row = row]

MakeRow(j, row) == work' = [work EXCEPT ![j] = WithRow(@, row)]

\* The record is remembered, and the worker goes on to a stage.
Noting(w, a, stage) == [w EXCEPT !.stage = stage, !.last = Seen(a)]

Polling(j) ==
  /\ RunnerFree
  /\ work[j].stage = "polling"
  /\ UNCHANGED <<storeVars, serviceVars, run>>

\* Published, and the observation of its session is recorded.
PollPublished(j) ==
  /\ Polling(j)
  /\ attempt[j].change # 0 /\ attempt[j].ended
  /\ MakeRow(j, RowOf(attempt[j]))
  /\ UNCHANGED post

\* Published, and the observation not recorded yet.
PollUnobserved(j) ==
  /\ Polling(j)
  /\ attempt[j].change # 0 /\ ~attempt[j].ended
  /\ work' = [work EXCEPT ![j] = Noting(@, attempt[j], "polling")]
  /\ UNCHANGED post

\* Nothing published, and no delivery would change that.
PollExhausted(j) ==
  /\ Polling(j)
  /\ Exhausted(attempt[j], work[j].redeliveries)
  /\ MakeRow(j, RowOf(attempt[j]))
  /\ UNCHANGED post

\* Mutant: neither the cap nor the attempts made are looked at.
RedeliverAlways(j) ==
  /\ Polling(j)
  /\ Redeliverable(attempt[j])
  /\ work' = [work EXCEPT ![j] = Noting(@, attempt[j], "delivering")]
  /\ post' = [post EXCEPT ![j] = "sent"]

\* An attempt that may have been released is delivered once more.
PollRedelivers(j) ==
  /\ Polling(j)
  /\ Redeliverable(attempt[j])
  /\ work[j].redeliveries + attempt[j].attempts < MaxAttempts
  /\ work' = [work EXCEPT ![j] = Noting(@, attempt[j], "delivering")]
  /\ post' = [post EXCEPT ![j] = "sent"]

\* repairTimeoutMs has passed: the last attempt seen in a terminal state makes
\* the row, however it went on since.
DeadlinePasses(j) ==
  /\ Polling(j)
  /\ MakeRow(j, IF work[j].last = Unseen
                THEN [NoRow EXCEPT !.status = "no_webhook_attempt"]
                ELSE RowOf(work[j].last))
  /\ UNCHANGED post

-----------------------------------------------------------------------------

MainStep ==
  /\ StartServer \/ AllRowsMade \/ StopServer \/ RunnerExits
  /\ UNCHANGED mayHappen

Crash == ServerCrashes /\ UNCHANGED mayHappen

WorkerStep(j) ==
  /\ \/ StartJob(j) \/ BrokenFixture(j) \/ SampleAppended(j) \/ AppendFails(j)
     \/ DeliveryAccepted(j) \/ DeliveryFails(j)
     \/ PollPublished(j) \/ PollUnobserved(j) \/ PollExhausted(j)
     \/ PollRedelivers(j) \/ DeadlinePasses(j)
  /\ UNCHANGED mayHappen

Webhook(j) == Receive(j) /\ UNCHANGED mayHappen

Update(p) == UpdateStep(p) /\ UNCHANGED <<serviceVars, runnerVars, mayHappen>>

ServiceStep(j) == HandlerStep(j) /\ UNCHANGED <<runnerVars, mayHappen>>

Tool == ToolStep /\ UNCHANGED <<runnerVars, mayHappen>>

ToolCalled(s) == SessionStep(s) /\ UNCHANGED <<runnerVars, mayHappen>>

Next ==
  \/ MainStep \/ Crash \/ Tool
  \/ \E j \in Jobs : WorkerStep(j) \/ Webhook(j) \/ ServiceStep(j)
  \/ \E p \in Processes : Update(p)
  \/ \E s \in live : ToolCalled(s)

Spec == Init /\ [][Next]_vars

Worker == \E j \in Jobs : WorkerStep(j)

\* A handler acts upon what it has just recorded; no other can have.
Upshot ==
  \E j \in Jobs : handler[j].stage \in {"observed", "dropped"} /\ ServiceStep(j)

\* Both event loops and the file system go on, main does what it comes to, and
\* the service gets to a request although its tools and handlers keep it busy.
\* That a model acts, and that a turn ends, is not assumed.
Fairness ==
  /\ WF_vars(MainStep) /\ WF_vars(Worker) /\ WF_vars(Tool) /\ WF_vars(Upshot)
  /\ \A p \in Processes : WF_vars(Update(p))
  /\ \A j \in Jobs : SF_vars(Webhook(j))

FairSpec == Spec /\ Fairness

-----------------------------------------------------------------------------
\* Properties.

\* The service is never asked for a commit whose sample is missing from the
\* file, whatever other updates the two processes make meanwhile: it would
\* answer with an error and the whole benchmark would end
\* (appendSimulatorSample, readSample).
EveryPostHasItsSample ==
  \A j \in Jobs : post[j] = "sent" => j \in db.samples

\* A row that says what was published names a change made for its own job, with
\* the checks of that change and of no other, however many jobs publish at once
\* and however stale the record it was made from
\* (classifyBenchmarkStatus, readSimulatedPullRequestChecks).
RowNamesItsOwnChange ==
  \A j \in Jobs :
    work[j].row.change # 0 =>
      \E c \in db.changes :
        /\ ChangesNumbered(db, work[j].row.change) = {c}
        /\ c.job = j
        /\ work[j].row.status = CheckStatus(c.verdict)

\* The service refuses a webhook only for an attempt that has acted, that is
\* still under way or that was left running, never because the sample, the mark
\* or the cap is not as the runner takes it to be
\* (waitForRepairResult, shouldRedeliverRepairAttempt against claimRepairSlot).
RefusedOnlyIfActed ==
  [][\A j \in Jobs :
       post[j] = "sent" /\ post'[j] = "refused" =>
         \/ handler[j].stage # "idle"
         \/ attempt[j].terminal # "none" \/ attempt[j].change # 0
         \/ attempt[j].status = "running"]_vars

\* The benchmark ends, with a report or an error, although a model never stops,
\* the service is gone or a lock directory is left behind by it
\* (waitForRepairResult, withSimulatorStateLock, runWithConcurrency).
BenchmarkEnds == <>(run \in {"finished", "aborted"})

=============================================================================
