---------------------------- MODULE SessionMonitor ----------------------------
(***************************************************************************)
(* agent/lib/session-monitor.ts: observeRepairSession reads the events of  *)
(* one turn of an Eve session and classifies it; monitorRepairLoop and     *)
(* startRepairSession decide from the classification whether the session   *)
(* is continued, a new one is tried, the delivery is given back, or the    *)
(* repair is settled.                                                      *)
(*                                                                         *)
(* The session emits events while the monitor reads them, and may do more  *)
(* than the monitor gets to read: the deadline passes, the stream breaks   *)
(* or ends, or the third failed edit stops the monitor and not the turn.   *)
(***************************************************************************)
EXTENDS Naturals, Sequences, FiniteSets

CONSTANTS
  MaxEvents,          \* bound on the events of a turn
  MaxFailedEdits,     \* MAX_FAILED_EDIT_TOOL_RESULTS
  MaxContinuations,   \* MAX_REPAIR_CONTINUATIONS
  MaxRetries,         \* config.providerErrorRetries
  Faults

\* times_out      the deadline passes
\* stream_breaks  reading throws
\* stream_ends    the stream is done before a boundary event
FaultKinds == {"times_out", "stream_breaks", "stream_ends"}

ASSUME MonitorAssumption ==
  /\ MaxEvents \in Nat /\ MaxFailedEdits \in Nat \ {0}
  /\ MaxContinuations \in Nat /\ MaxRetries \in Nat
  /\ Faults \subseteq FaultKinds

VARIABLES
  stream,         \* the events the turn has emitted
  read,           \* how many of them the monitor has read
  obs,            \* ObservationState
  outcome,        \* RepairSessionObservation, and what is done about it
  continuations,  \* continuationsUsed, before this turn is judged
  retries         \* providerErrorRetriesUsed

vars == <<stream, read, obs, outcome, continuations, retries>>

-----------------------------------------------------------------------------
\* Events, by what the monitor makes of them.

\* step.failed, turn.failed or session.failed with a message that
\* isRetryableProviderErrorMessage accepts or not; session.waiting,
\* session.completed.
Endings == {"failed_transient", "failed_fatal", "waiting", "completed"}

\* edit_failed    action.result of a failed or rejected edit_repo_file
\* edited         action.result of a completed one that edited
\* acted          action.result of a completed terminal tool
\* asked          input.requested
\* length, stop   message.completed or step.completed, by finishReason
Event == Endings \cup
  {"edit_failed", "edited", "acted", "asked", "length", "stop"}

FailureKind ==
  {"none", "length", "no_terminal_action", "human_input_requested",
   "provider_error", "stream_error", "timeout"}

\* A failure's kind, and whether its message is a retryable one.
Failure == [kind : FailureKind, transient : BOOLEAN]

NoFailure == [kind |-> "none", transient |-> FALSE]

ObservationState ==
  [boundary : {"none", "waiting", "completed", "failed"}, failure : Failure,
   acted : BOOLEAN, asked : BOOLEAN, length : BOOLEAN, failedEdits : 0 .. MaxFailedEdits]

createObservationState ==
  [boundary |-> "none", failure |-> NoFailure, acted |-> FALSE,
   asked |-> FALSE, length |-> FALSE, failedEdits |-> 0]

Outcome ==
  [status : {"running", "completed", "waiting", "failed", "abandoned"},
   kind : FailureKind,
   next : {"watching", "settle", "continue", "retry", "give_up"}]

Watching == [status |-> "running", kind |-> "none", next |-> "watching"]

Init ==
  /\ stream = <<>>
  /\ read = 0
  /\ obs = createObservationState
  /\ outcome = Watching
  /\ continuations \in 0 .. MaxContinuations
  /\ retries \in 0 .. MaxRetries

TypeOK ==
  /\ stream \in Seq(Event) /\ Len(stream) <= MaxEvents
  /\ read \in 0 .. Len(stream)
  /\ obs \in ObservationState
  /\ outcome \in Outcome
  /\ continuations \in 0 .. MaxContinuations
  /\ retries \in 0 .. MaxRetries

-----------------------------------------------------------------------------
\* observeStreamEvent

Failed(o, kind, transient) ==
  [o EXCEPT !.boundary = "failed",
            !.failure = [kind |-> kind, transient |-> transient]]

\* Mutant: the limit is one failed edit late.
FailedEditLate(o) ==
  LET counted == [o EXCEPT !.failedEdits = @ + 1]
  IN  IF counted.failedEdits > MaxFailedEdits
        THEN Failed(counted, "no_terminal_action", FALSE)
        ELSE counted

\* The failed edits are counted over the whole turn, and the message of this
\* failure is not one to retry.
FailedEdit(o) ==
  LET counted == [o EXCEPT !.failedEdits = @ + 1]
  IN  IF counted.failedEdits >= MaxFailedEdits
        THEN Failed(counted, "no_terminal_action", FALSE)
        ELSE counted

Asked(o) ==
  [o EXCEPT !.asked = TRUE,
            !.failure = [kind |-> "human_input_requested", transient |-> FALSE]]

observeStreamEvent(o, e) ==
  CASE e = "edit_failed"      -> FailedEdit(o)
    [] e = "acted"            -> [o EXCEPT !.acted = TRUE]
    [] e = "asked"            -> Asked(o)
    [] e = "length"           -> [o EXCEPT !.length = TRUE]
    [] e = "stop"             -> [o EXCEPT !.length = FALSE]
    [] e = "failed_transient" -> Failed(o, "provider_error", TRUE)
    [] e = "failed_fatal"     -> Failed(o, "provider_error", FALSE)
    [] e = "waiting"          -> [o EXCEPT !.boundary = "waiting"]
    [] e = "completed"        -> [o EXCEPT !.boundary = "completed"]
    [] e = "edited"           -> o

-----------------------------------------------------------------------------
\* finalizeObservation, and what its callers decide.

classifyFailure(o) ==
  IF o.failure.kind # "none" THEN o.failure.kind
  ELSE IF o.acted THEN "none"
  ELSE IF o.length THEN "length"
  ELSE IF o.boundary \in {"waiting", "completed"} THEN "no_terminal_action"
  ELSE "none"

\* Mutant: a session that completed is taken to have done its work.
TrustCompleted(o) ==
  IF o.boundary = "failed" THEN "failed"
  ELSE IF o.acted \/ o.boundary = "completed" THEN "completed"
  ELSE IF classifyFailure(o) # "none" THEN "waiting"
  ELSE "running"

classifyStatus(o) ==
  IF o.boundary = "failed" THEN "failed"
  ELSE IF o.acted THEN "completed"
  ELSE IF o.boundary = "completed" /\ classifyFailure(o) # "none"
         THEN "abandoned"
  ELSE IF o.boundary = "completed" THEN "completed"
  ELSE IF classifyFailure(o) # "none" THEN "waiting"
  ELSE "running"

shouldSendRepairContinuation(o) ==
  /\ classifyStatus(o) = "waiting"
  /\ ~o.acted
  /\ ~o.asked
  /\ continuations < MaxContinuations

\* Mutant: any failure with a retryable message is retried, a timeout too.
RetryByMessage(o) ==
  /\ classifyStatus(o) = "failed"
  /\ ~o.acted
  /\ retries < MaxRetries
  /\ o.failure.transient

shouldRetryProviderError(o) ==
  /\ classifyStatus(o) = "failed"
  /\ classifyFailure(o) = "provider_error"
  /\ ~o.acted
  /\ retries < MaxRetries
  /\ o.failure.transient

\* Mutant: what the session did is not asked.
ReleaseByStatus(o) == classifyStatus(o) \in {"failed", "waiting", "abandoned"}

shouldReleaseForRetry(o) ==
  ~o.acted /\ classifyStatus(o) \in {"failed", "waiting", "abandoned"}

FollowUp(o) ==
  IF shouldSendRepairContinuation(o) THEN "continue"
  ELSE IF shouldRetryProviderError(o) THEN "retry"
  ELSE IF shouldReleaseForRetry(o) THEN "give_up"
  ELSE "settle"

finalizeObservation(o) ==
  [status |-> classifyStatus(o), kind |-> classifyFailure(o),
   next |-> FollowUp(o)]

-----------------------------------------------------------------------------

Over == \E i \in DOMAIN stream : stream[i] \in Endings

\* The session goes on until it ends its turn, watched or not.
Emit ==
  /\ ~Over
  /\ Len(stream) < MaxEvents
  /\ \E e \in Event : stream' = Append(stream, e)
  /\ UNCHANGED <<read, obs, outcome, continuations, retries>>

IsWatching == outcome.next = "watching"

\* One event is read and the observation ends at a boundary.
ReadEvent ==
  /\ IsWatching
  /\ read < Len(stream)
  /\ read' = read + 1
  /\ obs' = observeStreamEvent(obs, stream[read + 1])
  /\ outcome' = IF obs'.boundary # "none" THEN finalizeObservation(obs')
                                          ELSE outcome
  /\ UNCHANGED <<stream, continuations, retries>>

\* The observation ends without a boundary event, with the state o.
StopReading(o) ==
  /\ IsWatching
  /\ obs' = o
  /\ outcome' = finalizeObservation(o)
  /\ UNCHANGED <<stream, read, continuations, retries>>

\* The message of a timeout would be a retryable one; that of a stream error
\* is whatever was thrown.
TimeOut == "times_out" \in Faults /\ StopReading(Failed(obs, "timeout", TRUE))

StreamBreaks ==
  /\ "stream_breaks" \in Faults
  /\ \E transient \in BOOLEAN :
       StopReading(Failed(obs, "stream_error", transient))

StreamEnds == "stream_ends" \in Faults /\ StopReading(obs)

Next == Emit \/ ReadEvent \/ TimeOut \/ StreamBreaks \/ StreamEnds

Spec == Init /\ [][Next]_vars

-----------------------------------------------------------------------------

\* What the monitor has read.
Has(e) == \E i \in 1 .. read : stream[i] = e

ReadEnding == \E i \in 1 .. read : stream[i] \in Endings

\* Work that the monitor has seen done is never repeated, however the turn
\* ended: no continuation, no retry, no released delivery (shouldReleaseForRetry,
\* shouldRetryProviderError, shouldSendRepairContinuation).
ActedIsSettled == Has("acted") => outcome.next \in {"watching", "settle"}

\* A turn that has done nothing is always taken up again: continued, retried,
\* or given back for a redelivery.  Only of a stream that ended before its turn
\* did the monitor says nothing and settles (classifyStatus, classifyFailure,
\* shouldReleaseForRetry).
IdleIsTakenUp ==
  outcome.next = "settle" /\ outcome.status # "running" => Has("acted")

\* No turn is started while the one before is still going on: a session is
\* continued, or another is started in its place, only after its turn was seen
\* to end.  A stream that ends early after an output limit is the exception
\* (classifyFailure says length, and a waiting session is continued).
NoTurnBesideAnother ==
  outcome.next \in {"continue", "retry"} =>
    ReadEnding \/ ("stream_ends" \in Faults /\ Has("length"))

TurnActed == \E i \in DOMAIN stream : stream[i] = "acted"

Verdict == INSTANCE TurnVerdict WITH
  canContinue <- continuations < MaxContinuations,
  canRetry <- retries < MaxRetries,
  live <- ~ReadEnding,
  acted <- TurnActed,
  verdict <- outcome.next

\* Whatever the monitor reads, its verdict is one that RepairService allows for
\* (monitorRepairLoop, startRepairSession).
ImplementsTurnVerdict == Verdict!Spec

=============================================================================
