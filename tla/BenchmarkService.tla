--------------------------- MODULE BenchmarkService ---------------------------
(***************************************************************************)
(* The service under benchmark, as the benchmark runner sees it: an        *)
(* attempt record per job in the state file of agent/lib/state.ts, read by *)
(* the runner at any time, and the updates the tools make to the simulated *)
(* provider's file.  A step is one write to either file, because the       *)
(* runner can read them between any two.  RepairService has the service    *)
(* at the grain of its own awaits.                                         *)
(*                                                                         *)
(* The service is one Node process.  While it is in an update of the       *)
(* provider's file, or between the writes of one turn of its event loop,   *)
(* it takes no other step.  A job has one pipeline and one delivery.       *)
(***************************************************************************)
EXTENDS SimulatorStore

CONSTANTS
  Server,               \* the process of the service
  MaxAttempts,          \* policy.maxAttemptsPerSha of the fixture
  MaxContinuations,     \* MAX_REPAIR_CONTINUATIONS
  ProviderErrorRetries, \* config.providerErrorRetries
  MergesAtOnce,         \* auto_merge without requireSuccessfulPipeline
  MaxChanges,           \* bound: changes published in all
  TriedVerdicts,        \* bound: what the fixes of each job may amount to
  Courses               \* bound: what is let happen to the jobs together

\* The tools a model may call: merge_change only where the policy allows it.
ModelTools ==
  {"publish_fix", "merge_change", "post_provider_comment", "rerun_pipeline"}

\* How a turn in which no tool has acted ends; one that has acted completes, or
\* fails.
TurnEndings == {"waiting", "abandoned", "failed"}

\* fixture_broken           the fixture fails unmutated, or passes mutated
\* server_exits             the process of the service ends by itself
\* send_fails               Eve refuses the first message, or a retry
\* monitor_gives_up         the monitor stops watching a session that goes on
\* stream_ends              a stream ends before any boundary event
\* continuation_send_fails  Eve refuses the continuation message
\* window_expires           an attempt outlives the 15-minute recent window
Faults ==
  {"fixture_broken", "server_exits", "send_fails", "monitor_gives_up",
   "stream_ends", "continuation_send_fails", "window_expires"}

ASSUME ServiceAssumption ==
  /\ Server \in Processes
  /\ MaxAttempts \in Nat \ {0}
  /\ MaxContinuations \in Nat
  /\ ProviderErrorRetries \in Nat
  /\ MergesAtOnce \in BOOLEAN
  /\ MaxChanges \in Nat
  /\ TriedVerdicts \in [Jobs -> SUBSET Verdicts]
  /\ Courses \subseteq [Jobs -> SUBSET (ModelTools \cup TurnEndings \cup Faults)]

VARIABLES
  attempt,  \* state.attempts
  marked,   \* state.processedDeliveries
  handler,  \* the async handler of each job's delivery
  live,     \* Eve sessions whose turn is running
  tool,     \* the tool call that waits for the provider
  mayHappen \* one of Courses: tools called, turn endings and faults

serviceVars == <<attempt, marked, handler, live, tool>>

-----------------------------------------------------------------------------

Statuses ==
  {"none", "running", "waiting", "completed", "failed", "abandoned"}

\* "published" stands for "merged" as well.
Terminals == {"none", "published", "rerun_requested", "comment_posted"}

\* change is changeNumber, 0 when nothing is published; ended says whether
\* lastSessionEndedAt is set, rerun whether the one rerun has been claimed.
Attempt ==
  [attempts : 0 .. MaxAttempts, status : Statuses, terminal : Terminals,
   change : Nat, ended : BOOLEAN, rerun : BOOLEAN]

NoAttempt ==
  [attempts |-> 0, status |-> "none", terminal |-> "none", change |-> 0,
   ended |-> FALSE, rerun |-> FALSE]

\* sending    awaiting send, first or retry     watching  the session stream
\* observed   an observation is recorded and not yet acted upon
\* dropped    the same, of a monitor that gave up
\* continuing awaiting the continuation's send
HandlerStages ==
  {"idle", "sending", "watching", "observed", "dropped", "continuing"}

Handler ==
  [stage : HandlerStages, seen : Terminals,
   continuations : 0 .. MaxContinuations, retries : 0 .. ProviderErrorRetries]

IdleHandler ==
  [stage |-> "idle", seen |-> "none", continuations |-> 0, retries |-> 0]

Session == [job : Jobs, attempt : 1 .. MaxAttempts]

\* immediate_merge is publish_fix when it merges what it has published.
Tools == ModelTools \cup {"immediate_merge"}

NoTool == [session |-> NoRequest, name |-> "none"]

ToolCall == [session : Session, name : Tools] \cup {NoTool}

ServiceTypeOK ==
  /\ attempt \in [Jobs -> Attempt]
  /\ marked \subseteq Jobs
  /\ handler \in [Jobs -> Handler]
  /\ live \subseteq Session
  /\ tool \in ToolCall
  /\ mayHappen \in Courses

ServiceInit ==
  /\ attempt = [j \in Jobs |-> NoAttempt]
  /\ marked = {}
  /\ handler = [j \in Jobs |-> IdleHandler]
  /\ live = {}
  /\ tool = NoTool
  /\ mayHappen \in Courses

-----------------------------------------------------------------------------

\* The event loop of the service can turn to something else.
ServerFree ==
  /\ pc[Server] = "idle"
  /\ \A j \in Jobs : handler[j].stage \notin {"observed", "dropped"}

SessionOf(j) == [job |-> j, attempt |-> attempt[j].attempts]

\* The handler that reads the stream of session s is there.
Watched(s) ==
  handler[s.job].stage = "watching" /\ SessionOf(s.job) = s

At(h, stage) == [h EXCEPT !.stage = stage]

\* The stream is read from here, with no tool result seen.
WatchAnew(h) == [h EXCEPT !.stage = "watching", !.seen = "none"]

WithStatus(a, status) == [a EXCEPT !.status = status]
WithChangeNumber(a, n) == [a EXCEPT !.change = n]

\* clearSessionOutcomePatch with a session status
Cleared(a, status) ==
  [a EXCEPT !.status = status, !.terminal = "none", !.ended = FALSE]

\* resetAttemptForRetry and the dispatch marker
NextAttempt(a) == [NoAttempt EXCEPT !.attempts = a.attempts + 1]

\* recordSessionObservation
Observed(a, status, terminal) ==
  [a EXCEPT !.status = status, !.terminal = terminal, !.ended = TRUE]

\* The record of a tool that has acted.
Acted(a, terminal) == [Cleared(a, "completed") EXCEPT !.terminal = terminal]

-----------------------------------------------------------------------------
\* The webhook (dispatchPipelineEvent).

\* isActiveRepairAttempt: something published holds the slot for good, a status
\* other than failed and abandoned for the recent window.
SlotTaken(a) ==
  /\ a.attempts > 0
  /\ \/ a.change # 0
     \/ a.status \notin {"failed", "abandoned"}

SlotExpired(j) ==
  attempt[j].change = 0 /\ "window_expires" \in mayHappen[j]

AttemptsLeft(a) == a.attempts + 1 <= MaxAttempts

\* The policy is read from the sample, so one that is not in the file is an
\* error; then come the duplicate, the slot and the cap.
Acceptable(j) ==
  /\ j \in db.samples
  /\ j \notin marked
  /\ ~SlotTaken(attempt[j]) \/ SlotExpired(j)
  /\ AttemptsLeft(attempt[j])

AcceptDelivery(j) ==
  /\ ServerFree
  /\ Acceptable(j)
  /\ marked' = marked \cup {j}
  /\ attempt' = [attempt EXCEPT ![j] = NextAttempt(@)]
  /\ handler' = [handler EXCEPT ![j] = [IdleHandler EXCEPT !.stage = "sending"]]
  /\ UNCHANGED <<storeVars, live, tool>>

\* A delivery that finds the slot taken stays marked.
RefuseDelivery(j) ==
  /\ ServerFree
  /\ \/ j \notin db.samples \/ j \in marked
     \/ SlotTaken(attempt[j]) \/ ~AttemptsLeft(attempt[j])
  /\ marked' = IF j \in db.samples THEN marked \cup {j} ELSE marked
  /\ UNCHANGED <<storeVars, attempt, handler, live, tool>>

-----------------------------------------------------------------------------
\* startRepairSession and monitorRepairLoop.

FirstWatch(h) == [WatchAnew(h) EXCEPT !.continuations = 0]

SendSucceeds(j) ==
  /\ handler[j].stage = "sending"
  /\ ServerFree
  /\ attempt' = [attempt EXCEPT ![j] = Cleared(@, "running")]
  /\ live' = live \cup {SessionOf(j)}
  /\ handler' = [handler EXCEPT ![j] = FirstWatch(@)]
  /\ UNCHANGED <<storeVars, marked, tool>>

Resending(h) == [h EXCEPT !.stage = "sending", !.retries = @ + 1]

\* Mutant: one retry too many.
RetryOnceMore(j) ==
  /\ handler[j].retries <= ProviderErrorRetries
  /\ attempt' = [attempt EXCEPT ![j] = Cleared(@, "running")]
  /\ handler' = [handler EXCEPT ![j] = Resending(@)]
  /\ UNCHANGED marked

\* prepareProviderErrorRetry; its sleep is part of waiting for the next send.
Retry(j) ==
  /\ handler[j].retries < ProviderErrorRetries
  /\ attempt' = [attempt EXCEPT ![j] = Cleared(@, "running")]
  /\ handler' = [handler EXCEPT ![j] = Resending(@)]
  /\ UNCHANGED marked

SendFailsRetryably(j) ==
  /\ "send_fails" \in mayHappen[j]
  /\ handler[j].stage = "sending"
  /\ ServerFree
  /\ Retry(j)
  /\ UNCHANGED <<storeVars, live, tool>>

\* Both writes of the record and the release follow each other in one turn, and
\* the status does not change after the first.
SendFails(j) ==
  /\ "send_fails" \in mayHappen[j]
  /\ handler[j].stage = "sending"
  /\ ServerFree
  /\ attempt' = [attempt EXCEPT ![j] = WithStatus(@, "failed")]
  /\ marked' = marked \ {j}
  /\ handler' = [handler EXCEPT ![j] = IdleHandler]
  /\ UNCHANGED <<storeVars, live, tool>>

RecordObservation(j, status, terminal, stage) ==
  /\ handler[j].stage = "watching"
  /\ ServerFree
  /\ attempt' = [attempt EXCEPT ![j] = Observed(@, status, terminal)]
  /\ handler' = [handler EXCEPT ![j] = At(@, stage)]
  /\ UNCHANGED <<storeVars, marked, tool>>

\* A turn that ends, by itself or by a failure.
TurnEnds(j) ==
  /\ \E status \in (TurnEndings \cap mayHappen[j]) \cup {"completed"} :
       /\ status = "completed" => handler[j].seen # "none"
       /\ status \in {"waiting", "abandoned"} => handler[j].seen = "none"
       /\ RecordObservation(j, status, handler[j].seen, "observed")
  /\ live' = live \ {SessionOf(j)}

\* Timeout, stream error or edit loop; the terminal action may be among the
\* events not read.
MonitorGivesUp(j) ==
  /\ "monitor_gives_up" \in mayHappen[j]
  /\ \E terminal \in {handler[j].seen, "none"} :
       RecordObservation(j, "failed", terminal, "dropped")
  /\ UNCHANGED live

\* The output limit was the last thing read, or nothing was.
StreamEnds(j) ==
  /\ "stream_ends" \in mayHappen[j]
  /\ handler[j].seen = "none"
  /\ \E status \in {"waiting", "running"} :
       RecordObservation(j, status, "none", "observed")
  /\ UNCHANGED live

Unsettled(j, statuses) ==
  attempt[j].terminal = "none" /\ attempt[j].status \in statuses

Continuing(h) == [h EXCEPT !.stage = "continuing", !.continuations = @ + 1]

\* shouldSendRepairContinuation
ContinueSession(j) ==
  /\ handler[j].stage = "observed"
  /\ Unsettled(j, {"waiting"})
  /\ handler[j].continuations < MaxContinuations
  /\ attempt' = [attempt EXCEPT ![j] = Cleared(@, "running")]
  /\ handler' = [handler EXCEPT ![j] = Continuing(@)]
  /\ UNCHANGED <<storeVars, marked, live, tool>>

\* shouldRetryProviderError
RetrySession(j) ==
  /\ handler[j].stage = "observed"
  /\ Unsettled(j, {"failed"})
  /\ Retry(j)
  /\ UNCHANGED <<storeVars, live, tool>>

\* releaseForExternalRetryIfNeeded
ReleaseSession(j) ==
  /\ handler[j].stage \in {"observed", "dropped"}
  /\ Unsettled(j, {"waiting", "failed", "abandoned"})
  /\ attempt' = [attempt EXCEPT ![j] =
                   WithStatus(@, IF @.status = "failed" THEN "failed"
                                                        ELSE "abandoned")]
  /\ marked' = marked \ {j}
  /\ handler' = [handler EXCEPT ![j] = IdleHandler]
  /\ UNCHANGED <<storeVars, live, tool>>

\* Nothing is left to do, and the delivery stays marked.
SettleSession(j) ==
  /\ handler[j].stage \in {"observed", "dropped"}
  /\ ~Unsettled(j, {"waiting", "failed", "abandoned"})
  /\ handler' = [handler EXCEPT ![j] = IdleHandler]
  /\ UNCHANGED <<storeVars, attempt, marked, live, tool>>

ContinuationSucceeds(j) ==
  /\ handler[j].stage = "continuing"
  /\ ServerFree
  /\ attempt' = [attempt EXCEPT ![j] = Cleared(@, "running")]
  /\ live' = live \cup {SessionOf(j)}
  /\ handler' = [handler EXCEPT ![j] = WatchAnew(@)]
  /\ UNCHANGED <<storeVars, marked, tool>>

\* The delivery is released, the status stays running.
ContinuationFails(j) ==
  /\ "continuation_send_fails" \in mayHappen[j]
  /\ handler[j].stage = "continuing"
  /\ ServerFree
  /\ marked' = marked \ {j}
  /\ handler' = [handler EXCEPT ![j] = IdleHandler]
  /\ UNCHANGED <<storeVars, attempt, live, tool>>

-----------------------------------------------------------------------------
\* Tools.  They find the record by its key, whichever attempt it is at.

BeginTool(s, name, r) ==
  /\ ServerFree
  /\ Begin(Server, r)
  /\ tool' = [session |-> s, name |-> name]
  /\ UNCHANGED <<marked, handler, live>>

\* publish_fix when its checks have passed and there is something to publish.
PublishFix(s) ==
  /\ "publish_fix" \in mayHappen[s.job]
  /\ db.next <= MaxChanges
  /\ s.job \in db.samples
  /\ \E v \in TriedVerdicts[s.job] :
       BeginTool(s, "publish_fix",
                 [kind |-> "publish", job |-> s.job, verdict |-> v])
  /\ UNCHANGED attempt

PostProviderComment(s) ==
  /\ "post_provider_comment" \in mayHappen[s.job]
  /\ BeginTool(s, "post_provider_comment", [kind |-> "comment", job |-> s.job])
  /\ UNCHANGED attempt

\* claimRerunRequest
WithRerun(a) == [a EXCEPT !.rerun = TRUE]

RerunPipeline(s) ==
  /\ "rerun_pipeline" \in mayHappen[s.job]
  /\ ~attempt[s.job].rerun
  /\ BeginTool(s, "rerun_pipeline", [kind |-> "rerun", job |-> s.job])
  /\ attempt' = [attempt EXCEPT ![s.job] = WithRerun(@)]

MergeRequest(j, n) == [kind |-> "merge", job |-> j, number |-> n]

MergeChange(s) ==
  /\ "merge_change" \in mayHappen[s.job]
  /\ MergesAtOnce
  /\ attempt[s.job].change # 0
  /\ BeginTool(s, "merge_change", MergeRequest(s.job, attempt[s.job].change))
  /\ UNCHANGED attempt

Having(h, terminal) == [h EXCEPT !.seen = terminal]

\* A session reports what its tool did to the handler that reads its stream.
Report(s, terminal) ==
  handler' = IF Watched(s) THEN [handler EXCEPT ![s.job] = Having(@, terminal)]
                           ELSE handler

\* The tool's record and its result.
Record(s, terminal, n) ==
  /\ attempt' = [attempt EXCEPT ![s.job] =
                   WithChangeNumber(Acted(@, terminal), n)]
  /\ Report(s, terminal)
  /\ tool' = NoTool
  /\ Return(Server)

\* What the outcome of a tool call is once the provider has answered.
Outcome(name) ==
  CASE name = "rerun_pipeline"        -> "rerun_requested"
    [] name = "post_provider_comment" -> "comment_posted"
    [] OTHER                          -> "published"

\* publish_fix that is not to merge, and every other tool.
FinishTool ==
  /\ pc[Server] = "answered" /\ done[Server]
  /\ tool.name # "publish_fix" \/ ~MergesAtOnce
  /\ LET s == tool.session
     IN Record(s, Outcome(tool.name),
               IF tool.name = "publish_fix" THEN number[Server]
                                            ELSE attempt[s.job].change)
  /\ UNCHANGED <<marked, live>>

\* publish_fix that is to merge records the change and asks for its merge.
MergeAtOnce ==
  /\ pc[Server] = "answered" /\ done[Server]
  /\ tool.name = "publish_fix" /\ MergesAtOnce
  /\ attempt' = [attempt EXCEPT ![tool.session.job] =
                   WithChangeNumber(@, number[Server])]
  /\ Begin(Server, MergeRequest(tool.session.job, number[Server]))
  /\ tool' = [session |-> tool.session, name |-> "immediate_merge"]
  /\ UNCHANGED <<marked, handler, live>>

\* A merge that fails after the publish leaves a publish; any other tool throws
\* and records nothing.
ToolFails ==
  /\ pc[Server] = "answered" /\ ~done[Server]
  /\ IF tool.name = "immediate_merge"
     THEN Record(tool.session, "published", attempt[tool.session.job].change)
     ELSE tool' = NoTool /\ Return(Server) /\ UNCHANGED <<attempt, handler>>
  /\ UNCHANGED <<marked, live>>

-----------------------------------------------------------------------------

\* The process of the service ends; handlers, sessions and tools end with it.
ServerExits ==
  /\ StopProcess(Server)
  /\ handler' = [j \in Jobs |-> IdleHandler]
  /\ live' = {}
  /\ tool' = NoTool
  /\ UNCHANGED <<attempt, marked>>

HandlerStep(j) ==
  \/ SendSucceeds(j) \/ SendFailsRetryably(j) \/ SendFails(j)
  \/ TurnEnds(j) \/ MonitorGivesUp(j) \/ StreamEnds(j)
  \/ ContinueSession(j) \/ RetrySession(j) \/ ReleaseSession(j)
  \/ SettleSession(j)
  \/ ContinuationSucceeds(j) \/ ContinuationFails(j)

SessionStep(s) ==
  PublishFix(s) \/ PostProviderComment(s) \/ RerunPipeline(s) \/ MergeChange(s)

ToolStep == FinishTool \/ MergeAtOnce \/ ToolFails

=============================================================================
