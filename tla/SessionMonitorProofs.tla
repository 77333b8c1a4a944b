------------------------- MODULE SessionMonitorProofs -------------------------
(***************************************************************************)
(* Proofs about SessionMonitor, for turns of any length and any limits,    *)
(* counts and faults.                                                      *)
(***************************************************************************)
EXTENDS SessionMonitor, TLAPS

\* What the monitor's state says of the events it has read.  Before the verdict
\* no boundary was read and the only failure is a question; after it the
\* outcome is that of the state the observation ended with.
ReadState ==
  /\ obs.acted <=> Has("acted")
  /\ obs.length => Has("length")

StillWatching ==
  /\ outcome = Watching
  /\ obs.boundary = "none"
  /\ ~ReadEnding
  /\ obs.failedEdits < MaxFailedEdits
  /\ obs.failure.kind \in {"none", "human_input_requested"}
  /\ obs.failure.kind = "human_input_requested" => obs.asked

HasConcluded ==
  /\ outcome = finalizeObservation(obs)
  /\ obs.boundary = "none" => "stream_ends" \in Faults
  /\ obs.boundary \in {"waiting", "completed"} => ReadEnding
  /\ obs.boundary # "failed" =>
       /\ obs.failure.kind \in {"none", "human_input_requested"}
       /\ obs.failure.kind = "human_input_requested" => obs.asked
  /\ obs.failure.kind = "provider_error" => ReadEnding

MonitorInv ==
  /\ TypeOK
  /\ ReadState
  /\ IF IsWatching THEN StillWatching ELSE HasConcluded

-----------------------------------------------------------------------------

\* An observation always concludes: its outcome is no longer "watching".
LEMMA Concludes ==
  ASSUME NEW o \in ObservationState
  PROVE  /\ finalizeObservation(o) \in Outcome
         /\ finalizeObservation(o).next # "watching"
<1>1. classifyFailure(o) \in FailureKind
  BY DEF classifyFailure, ObservationState, Failure, FailureKind
<1>2. classifyStatus(o) \in
        {"running", "completed", "waiting", "failed", "abandoned"}
  BY DEF classifyStatus
<1>3. FollowUp(o) \in {"settle", "continue", "retry", "give_up"}
  BY DEF FollowUp
<1> QED
  BY <1>1, <1>2, <1>3 DEF finalizeObservation, Outcome

\* One event keeps the state well typed while the edits are below their limit.
LEMMA EventType ==
  ASSUME MonitorAssumption, NEW o \in ObservationState, NEW e \in Event,
         o.failedEdits < MaxFailedEdits
  PROVE  observeStreamEvent(o, e) \in ObservationState
<1>1. o.failedEdits + 1 \in 0 .. MaxFailedEdits
  BY DEF MonitorAssumption, ObservationState
<1>2. CASE e = "edit_failed"
  BY <1>1, <1>2
  DEF observeStreamEvent, FailedEdit, Failed, ObservationState, Failure,
      FailureKind
<1>3. CASE e \in {"acted", "length", "stop", "edited", "waiting", "completed"}
  BY <1>3 DEF observeStreamEvent, ObservationState
<1>4. CASE e \in {"asked", "failed_transient", "failed_fatal"}
  BY <1>4
  DEF observeStreamEvent, Asked, Failed, ObservationState, Failure, FailureKind
<1> QED
  BY <1>2, <1>3, <1>4 DEF Event, Endings

\* What one event changes of the fields the invariant speaks of.
LEMMA EventEffect ==
  ASSUME MonitorAssumption, NEW o \in ObservationState, NEW e \in Event,
         o.failedEdits < MaxFailedEdits, o.boundary = "none",
         o.failure.kind \in {"none", "human_input_requested"},
         o.failure.kind = "human_input_requested" => o.asked,
         NEW n, n = observeStreamEvent(o, e)
  PROVE  /\ n.acted <=> o.acted \/ e = "acted"
         /\ n.length => o.length \/ e = "length"
         /\ e \in Endings => n.boundary # "none"
         /\ n.boundary \in {"waiting", "completed"} => e \in Endings
         /\ n.boundary = "none" => n.failedEdits < MaxFailedEdits
         /\ n.boundary # "failed" =>
              /\ n.failure.kind \in {"none", "human_input_requested"}
              /\ n.failure.kind = "human_input_requested" => n.asked
         /\ n.failure.kind = "provider_error" => e \in Endings
<1>1. CASE e = "edit_failed"
  <2>1. \E c \in ObservationState :
          /\ n = IF c.failedEdits >= MaxFailedEdits
                   THEN Failed(c, "no_terminal_action", FALSE) ELSE c
          /\ c.acted = o.acted /\ c.length = o.length /\ c.asked = o.asked
          /\ c.boundary = o.boundary /\ c.failure = o.failure
    <3>1. [o EXCEPT !.failedEdits = @ + 1] \in ObservationState
      BY DEF MonitorAssumption, ObservationState
    <3>2. n = IF [o EXCEPT !.failedEdits = @ + 1].failedEdits >= MaxFailedEdits
                THEN Failed([o EXCEPT !.failedEdits = @ + 1],
                            "no_terminal_action", FALSE)
                ELSE [o EXCEPT !.failedEdits = @ + 1]
      BY <1>1 DEF observeStreamEvent, FailedEdit
    <3> WITNESS [o EXCEPT !.failedEdits = @ + 1] \in ObservationState
    <3> QED
      BY <3>2 DEF ObservationState
  <2>2. PICK c \in ObservationState :
          /\ n = IF c.failedEdits >= MaxFailedEdits
                   THEN Failed(c, "no_terminal_action", FALSE) ELSE c
          /\ c.acted = o.acted /\ c.length = o.length /\ c.asked = o.asked
          /\ c.boundary = o.boundary /\ c.failure = o.failure
    BY <2>1
  <2>3. CASE c.failedEdits >= MaxFailedEdits
    <3>1. n = Failed(c, "no_terminal_action", FALSE)
      BY <2>2, <2>3
    <3>2. /\ n.boundary = "failed" /\ n.failure.kind = "no_terminal_action"
          /\ n.acted = c.acted /\ n.length = c.length
      BY <3>1 DEF Failed, ObservationState
    <3> QED
      BY <1>1, <2>2, <3>2 DEF Endings
  <2>4. CASE ~(c.failedEdits >= MaxFailedEdits)
    <3>1. n = c
      BY <2>2, <2>4
    <3>2. c.failedEdits < MaxFailedEdits
      BY <2>4 DEF MonitorAssumption, ObservationState
    <3> QED
      BY <1>1, <2>2, <3>1, <3>2 DEF Endings
  <2> QED
    BY <2>3, <2>4
<1>2. CASE e \in {"acted", "length", "stop", "edited", "waiting", "completed"}
  BY <1>2 DEF observeStreamEvent, ObservationState, Endings
<1>3. CASE e \in {"asked", "failed_transient", "failed_fatal"}
  BY <1>3 DEF observeStreamEvent, Asked, Failed, ObservationState, Endings
<1> QED
  BY <1>1, <1>2, <1>3 DEF Event, Endings

\* Emitting an event leaves what was read as it is.
LEMMA EmitKeeps ==
  ASSUME TypeOK, Emit
  PROVE  /\ TypeOK'
         /\ \A i \in 1 .. read : stream'[i] = stream[i]
<1>1. PICK e \in Event : stream' = Append(stream, e)
  BY DEF Emit
<1>2. /\ stream' \in Seq(Event) /\ Len(stream') = Len(stream) + 1
      /\ \A i \in 1 .. Len(stream) : stream'[i] = stream[i]
  BY <1>1 DEF TypeOK
<1>3. Len(stream) \in Nat /\ read \in 0 .. Len(stream)
  BY DEF TypeOK
<1> QED
  BY <1>2, <1>3, MonitorAssumption DEF Emit, TypeOK, MonitorAssumption

\* The state an observation is broken off with.
LEMMA BrokenOff ==
  ASSUME MonitorInv, NEW o, StopReading(o),
         \/ o = obs /\ "stream_ends" \in Faults
         \/ \E kind \in {"timeout", "stream_error"}, transient \in BOOLEAN :
              o = Failed(obs, kind, transient)
  PROVE  MonitorInv'
<1>1. /\ TypeOK /\ ReadState /\ StillWatching
      /\ obs' = o /\ outcome' = finalizeObservation(o)
      /\ UNCHANGED <<stream, read, continuations, retries>>
  BY DEF MonitorInv, StopReading
<1>2. /\ o \in ObservationState
      /\ o.acted = obs.acted /\ o.length = obs.length /\ o.asked = obs.asked
      /\ \/ o = obs /\ "stream_ends" \in Faults
         \/ o.boundary = "failed" /\ o.failure.kind # "provider_error"
  <2>1. obs \in ObservationState
    BY <1>1 DEF TypeOK
  <2>2. CASE o = obs /\ "stream_ends" \in Faults
    BY <2>1, <2>2
  <2>3. ASSUME NEW kind \in {"timeout", "stream_error"},
               NEW transient \in BOOLEAN, o = Failed(obs, kind, transient)
        PROVE  /\ o \in ObservationState
               /\ o.acted = obs.acted /\ o.length = obs.length
               /\ o.asked = obs.asked /\ o.boundary = "failed"
               /\ o.failure.kind # "provider_error"
    BY <2>1, <2>3 DEF Failed, ObservationState, Failure, FailureKind
  <2> QED
    BY <2>2, <2>3
<1>3. finalizeObservation(o) \in Outcome /\ ~IsWatching'
  BY <1>1, <1>2, Concludes DEF IsWatching
<1>4. (Has("acted"))' = Has("acted") /\ (Has("length"))' = Has("length")
      /\ ReadEnding' = ReadEnding
  BY <1>1 DEF Has, ReadEnding
<1>5. finalizeObservation(obs)' = finalizeObservation(o)
  BY <1>1
  DEF finalizeObservation, FollowUp, shouldSendRepairContinuation,
      shouldRetryProviderError, shouldReleaseForRetry, classifyStatus,
      classifyFailure
<1>6. TypeOK'
  BY <1>1, <1>2, <1>3 DEF TypeOK
<1>7. ReadState'
  BY <1>1, <1>2, <1>4 DEF ReadState
<1>8. HasConcluded'
  BY <1>1, <1>2, <1>4, <1>5 DEF HasConcluded, StillWatching
<1> QED
  BY <1>3, <1>6, <1>7, <1>8 DEF MonitorInv

\* Reading one event, and concluding if it was a boundary.
LEMMA ReadStep ==
  ASSUME MonitorInv, ReadEvent
  PROVE  MonitorInv'
<1> DEFINE e == stream[read + 1]
           n == observeStreamEvent(obs, e)
<1>1. /\ TypeOK /\ ReadState /\ StillWatching
      /\ read' = read + 1 /\ obs' = n
      /\ UNCHANGED <<stream, continuations, retries>>
  BY DEF MonitorInv, ReadEvent
<1>2. /\ obs \in ObservationState /\ read \in Nat /\ Len(stream) \in Nat
      /\ read + 1 \in 1 .. Len(stream) /\ e \in Event
  BY <1>1 DEF TypeOK, ReadEvent
<1>3. n \in ObservationState
  BY <1>1, <1>2, MonitorAssumption, EventType DEF StillWatching
<1>4. /\ n.acted <=> obs.acted \/ e = "acted"
      /\ n.length => obs.length \/ e = "length"
      /\ e \in Endings => n.boundary # "none"
      /\ n.boundary \in {"waiting", "completed"} => e \in Endings
      /\ n.boundary = "none" => n.failedEdits < MaxFailedEdits
      /\ n.boundary # "failed" =>
           /\ n.failure.kind \in {"none", "human_input_requested"}
           /\ n.failure.kind = "human_input_requested" => n.asked
      /\ n.failure.kind = "provider_error" => e \in Endings
  BY <1>1, <1>2, MonitorAssumption, EventEffect DEF StillWatching
<1>5. 1 .. read' = (1 .. read) \cup {read + 1}
  BY <1>1, <1>2
<1>6. /\ (Has("acted"))' <=> Has("acted") \/ e = "acted"
      /\ (Has("length"))' <=> Has("length") \/ e = "length"
      /\ ReadEnding' <=> ReadEnding \/ e \in Endings
  BY <1>1, <1>5 DEF Has, ReadEnding
<1>7. ReadState'
  BY <1>1, <1>4, <1>6 DEF ReadState
<1>8. read' \in 0 .. Len(stream')
  BY <1>1, <1>2
<1>9. CASE n.boundary = "none"
  <2>1. outcome' = outcome
    BY <1>1, <1>9 DEF ReadEvent
  <2>2. TypeOK'
    BY <1>1, <1>3, <1>8, <2>1 DEF TypeOK
  <2>3. StillWatching'
    BY <1>1, <1>4, <1>6, <1>9, <2>1 DEF StillWatching
  <2> QED
    BY <1>7, <2>2, <2>3 DEF MonitorInv, IsWatching, StillWatching, Watching
<1>10. CASE n.boundary # "none"
  <2>1. outcome' = finalizeObservation(n)
    <3>1. outcome' = finalizeObservation(obs')
      BY <1>1, <1>10 DEF ReadEvent
    <3> QED
      BY <1>1, <3>1
  <2>2. finalizeObservation(obs)' = finalizeObservation(n)
    BY <1>1
    DEF finalizeObservation, FollowUp, shouldSendRepairContinuation,
        shouldRetryProviderError, shouldReleaseForRetry, classifyStatus,
        classifyFailure
  <2>3. outcome' \in Outcome /\ ~IsWatching'
    BY <1>3, <2>1, Concludes DEF IsWatching
  <2>4. TypeOK'
    BY <1>1, <1>3, <1>8, <2>3 DEF TypeOK
  <2>5. HasConcluded'
    BY <1>1, <1>4, <1>6, <1>10, <2>1, <2>2 DEF HasConcluded
  <2> QED
    BY <1>7, <2>3, <2>4, <2>5 DEF MonitorInv
<1> QED
  BY <1>9, <1>10

\* A monitor that has read nothing satisfies the invariant (createObservationState).
LEMMA MonitorInit == Init => MonitorInv
<1> SUFFICES ASSUME Init PROVE MonitorInv
  OBVIOUS
<1>1. /\ obs \in ObservationState /\ obs.failedEdits < MaxFailedEdits
      /\ obs.boundary = "none" /\ obs.failure.kind = "none"
      /\ ~obs.acted /\ ~obs.length
  BY MonitorAssumption
  DEF Init, MonitorAssumption, createObservationState, ObservationState,
      NoFailure, Failure, FailureKind
<1>2. TypeOK
  BY <1>1, MonitorAssumption
  DEF Init, TypeOK, MonitorAssumption, Watching, Outcome, FailureKind
<1>3. ~Has("acted") /\ ~Has("length") /\ ~ReadEnding
  BY DEF Init, Has, ReadEnding
<1> QED
  BY <1>1, <1>2, <1>3
  DEF MonitorInv, ReadState, StillWatching, IsWatching, Init, Watching

\* Every step of the session and of the monitor keeps the invariant.
LEMMA MonitorStep == MonitorInv /\ [Next]_vars => MonitorInv'
<1> SUFFICES ASSUME MonitorInv, [Next]_vars PROVE MonitorInv'
  OBVIOUS
<1>1. CASE Emit
  <2>1. /\ TypeOK' /\ UNCHANGED <<read, obs, outcome, continuations, retries>>
        /\ \A i \in 1 .. read : stream'[i] = stream[i]
    BY <1>1, EmitKeeps DEF MonitorInv, Emit
  <2>2. /\ (Has("acted"))' = Has("acted") /\ (Has("length"))' = Has("length")
        /\ ReadEnding' = ReadEnding
    BY <2>1 DEF Has, ReadEnding
  <2>3. finalizeObservation(obs)' = finalizeObservation(obs)
    BY <2>1
    DEF finalizeObservation, FollowUp, shouldSendRepairContinuation,
        shouldRetryProviderError, shouldReleaseForRetry, classifyStatus,
        classifyFailure
  <2> QED
    BY <2>1, <2>2, <2>3
    DEF MonitorInv, ReadState, StillWatching, HasConcluded, IsWatching
<1>2. CASE ReadEvent
  BY <1>2, ReadStep
<1>3. CASE TimeOut
  BY <1>3, BrokenOff DEF TimeOut
<1>4. CASE StreamBreaks
  BY <1>4, BrokenOff DEF StreamBreaks
<1>5. CASE StreamEnds
  BY <1>5, BrokenOff DEF StreamEnds
<1>6. CASE UNCHANGED vars
  BY <1>6
  DEF vars, MonitorInv, TypeOK, ReadState, StillWatching, HasConcluded,
      IsWatching, Has, ReadEnding, finalizeObservation, FollowUp,
      shouldSendRepairContinuation, shouldRetryProviderError,
      shouldReleaseForRetry, classifyStatus, classifyFailure
<1> QED
  BY <1>1, <1>2, <1>3, <1>4, <1>5, <1>6 DEF Next

\* So the invariant holds in every state of every turn.
LEMMA MonitorAlways == Spec => []MonitorInv
  BY MonitorInit, MonitorStep, PTL DEF Spec

-----------------------------------------------------------------------------

\* Every variable of the monitor keeps its type; the failed edits never exceed
\* the limit at which the monitor stops (observeActionResult).
THEOREM TypeInvariant == Spec => []TypeOK
<1>1. MonitorInv => TypeOK
  BY DEF MonitorInv
<1> QED
  BY <1>1, MonitorAlways, PTL

\* Work that was seen done is not repeated, in a turn of any length and
\* whatever ends the observation (shouldReleaseForRetry).
THEOREM DoneIsNotRepeated == Spec => []ActedIsSettled
<1>1. MonitorInv => ActedIsSettled
  <2> SUFFICES ASSUME MonitorInv, Has("acted"), ~IsWatching
               PROVE  outcome.next = "settle"
    BY DEF ActedIsSettled, IsWatching
  <2>1. obs.acted /\ outcome.next = FollowUp(obs)
    BY DEF MonitorInv, ReadState, HasConcluded, finalizeObservation
  <2> QED
    BY <2>1
    DEF FollowUp, shouldSendRepairContinuation, shouldRetryProviderError,
        shouldReleaseForRetry
<1> QED
  BY <1>1, MonitorAlways, PTL

\* A turn that has done nothing is taken up again, unless its stream ended before
\* the monitor could tell (classifyStatus, classifyFailure).
THEOREM IdleIsNotDropped == Spec => []IdleIsTakenUp
<1>1. MonitorInv => IdleIsTakenUp
  <2> SUFFICES ASSUME MonitorInv, outcome.status # "running",
                      outcome.next = "settle", ~Has("acted")
               PROVE  FALSE
    BY DEF IdleIsTakenUp
  <2>1. HasConcluded /\ ~obs.acted /\ obs \in ObservationState
    BY DEF MonitorInv, ReadState, IsWatching, TypeOK
  <2>2. FollowUp(obs) = "settle" /\ classifyStatus(obs) # "running"
    BY <2>1 DEF HasConcluded, finalizeObservation
  <2>3. classifyStatus(obs) \notin {"failed", "waiting", "abandoned"}
    BY <2>1, <2>2 DEF FollowUp, shouldReleaseForRetry
  <2>4. obs.boundary \in {"waiting", "completed"}
    BY <2>1, <2>2, <2>3 DEF classifyStatus, ObservationState
  <2>5. classifyFailure(obs) # "none"
    BY <2>1, <2>4 DEF classifyFailure
  <2> QED
    BY <2>1, <2>3, <2>4, <2>5 DEF classifyStatus
<1> QED
  BY <1>1, MonitorAlways, PTL

-----------------------------------------------------------------------------

\* What each conclusion says of the state it was drawn from.
LEMMA FollowUpSays ==
  ASSUME NEW o \in ObservationState
  PROVE  /\ FollowUp(o) \in {"settle", "continue", "retry", "give_up"}
         /\ o.acted => FollowUp(o) = "settle"
         /\ FollowUp(o) = "continue" =>
              /\ continuations < MaxContinuations
              /\ o.boundary \in {"none", "waiting"}
              /\ ~o.asked /\ ~o.acted
              /\ classifyFailure(o) # "none"
         /\ FollowUp(o) = "retry" =>
              /\ retries < MaxRetries
              /\ o.boundary = "failed"
              /\ o.failure.kind = "provider_error"
         /\ FollowUp(o) = "settle" /\ ~o.acted => o.boundary = "none"
<1>1. FollowUp(o) \in {"settle", "continue", "retry", "give_up"}
  BY DEF FollowUp
<1>2. o.acted => FollowUp(o) = "settle"
  BY DEF FollowUp, shouldSendRepairContinuation, shouldRetryProviderError,
         shouldReleaseForRetry
<1>3. ASSUME FollowUp(o) = "continue"
      PROVE  /\ continuations < MaxContinuations
             /\ o.boundary \in {"none", "waiting"}
             /\ ~o.asked /\ ~o.acted
             /\ classifyFailure(o) # "none"
  <2>1. shouldSendRepairContinuation(o)
    BY <1>3 DEF FollowUp
  <2> QED
    BY <2>1 DEF shouldSendRepairContinuation, classifyStatus, ObservationState
<1>4. ASSUME FollowUp(o) = "retry"
      PROVE  /\ retries < MaxRetries
             /\ o.boundary = "failed"
             /\ o.failure.kind = "provider_error"
  <2>1. shouldRetryProviderError(o)
    BY <1>4 DEF FollowUp
  <2> QED
    BY <2>1
    DEF shouldRetryProviderError, classifyStatus, classifyFailure,
        ObservationState
<1>5. ASSUME FollowUp(o) = "settle", ~o.acted
      PROVE  o.boundary = "none"
  <2>1. classifyStatus(o) \notin {"failed", "waiting", "abandoned"}
    BY <1>5 DEF FollowUp, shouldReleaseForRetry
  <2>2. o.boundary \in {"waiting", "completed"} => classifyFailure(o) # "none"
    BY <1>5 DEF classifyFailure
  <2> QED
    BY <1>5, <2>1, <2>2 DEF classifyStatus, ObservationState
<1> QED
  BY <1>1, <1>2, <1>3, <1>4, <1>5

\* A session is continued, or replaced, only when its turn was seen to end, or
\* its stream ended early after an output limit (shouldSendRepairContinuation,
\* shouldRetryProviderError).
THEOREM OneTurnAtATime == Spec => []NoTurnBesideAnother
<1>1. MonitorInv => NoTurnBesideAnother
  <2> SUFFICES ASSUME MonitorInv, outcome.next \in {"continue", "retry"}
               PROVE  ReadEnding \/ ("stream_ends" \in Faults /\ Has("length"))
    BY DEF NoTurnBesideAnother
  <2>1. HasConcluded /\ ReadState /\ obs \in ObservationState
    BY DEF MonitorInv, IsWatching, TypeOK
  <2>2. outcome.next = FollowUp(obs)
    BY <2>1 DEF HasConcluded, finalizeObservation
  <2>3. CASE outcome.next = "retry"
    BY <2>1, <2>2, <2>3, FollowUpSays DEF HasConcluded
  <2>4. CASE outcome.next = "continue" /\ obs.boundary = "none"
    <3>1. ~obs.asked /\ ~obs.acted /\ classifyFailure(obs) # "none"
      BY <2>1, <2>2, <2>4, FollowUpSays
    <3>2. obs.failure.kind = "none"
      BY <2>1, <2>4, <3>1 DEF HasConcluded
    <3>3. obs.length
      BY <2>4, <3>1, <3>2 DEF classifyFailure
    <3> QED
      BY <2>1, <2>4, <3>3 DEF HasConcluded, ReadState
  <2>5. CASE outcome.next = "continue" /\ obs.boundary # "none"
    BY <2>1, <2>2, <2>5, FollowUpSays DEF HasConcluded
  <2> QED
    BY <2>3, <2>4, <2>5
<1> QED
  BY <1>1, MonitorAlways, PTL

-----------------------------------------------------------------------------
\* SessionMonitor implements TurnVerdict.

\* A turn ends with its last event.
EndIsLast ==
  \A i \in DOMAIN stream : stream[i] \in Endings => i = Len(stream)

RefineInv == MonitorInv /\ EndIsLast

\* A turn that has ended emits nothing more, which the refinement needs besides.
LEMMA EndStep == RefineInv /\ [Next]_vars => RefineInv'
<1> SUFFICES ASSUME RefineInv, [Next]_vars PROVE EndIsLast'
  BY MonitorStep DEF RefineInv
<1>1. CASE Emit
  <2>1. PICK e \in Event : stream' = Append(stream, e)
    BY <1>1 DEF Emit
  <2>2. /\ stream \in Seq(Event) /\ Len(stream') = Len(stream) + 1
        /\ DOMAIN stream' = 1 .. Len(stream) + 1
        /\ \A i \in 1 .. Len(stream) : stream'[i] = stream[i]
        /\ DOMAIN stream = 1 .. Len(stream) /\ Len(stream) \in Nat
    BY <2>1 DEF RefineInv, MonitorInv, TypeOK
  <2>3. \A i \in 1 .. Len(stream) : stream'[i] \notin Endings
    BY <1>1, <2>2 DEF Emit, Over
  <2> QED
    BY <2>2, <2>3 DEF EndIsLast
<1>2. CASE UNCHANGED stream
  BY <1>2 DEF RefineInv, EndIsLast
<1> QED
  BY <1>1, <1>2
  DEF Next, vars, ReadEvent, TimeOut, StreamBreaks, StreamEnds, StopReading

\* So both hold in every state of every turn.
LEMMA RefineAlways == Spec => []RefineInv
<1>1. Init => RefineInv
  BY MonitorInit DEF Init, RefineInv, EndIsLast
<1> QED
  BY <1>1, EndStep, PTL DEF Spec

\* The session acts on its own.
LEMMA EmitRefines ==
  ASSUME RefineInv, Emit
  PROVE  [Verdict!Next]_(Verdict!vars)
<1>1. PICK e \in Event : stream' = Append(stream, e)
  BY DEF Emit
<1>2. /\ DOMAIN stream' = (DOMAIN stream) \cup {Len(stream) + 1}
      /\ stream'[Len(stream) + 1] = e
      /\ \A i \in DOMAIN stream : stream'[i] = stream[i]
      /\ 1 .. read \subseteq DOMAIN stream
  BY <1>1 DEF RefineInv, MonitorInv, TypeOK
<1>3. /\ TurnActed' <=> TurnActed \/ e = "acted"
      /\ ReadEnding' = ReadEnding
      /\ UNCHANGED <<outcome, continuations, retries>>
  BY <1>2 DEF TurnActed, ReadEnding, Emit
<1>4. ~ReadEnding
  BY <1>2 DEF Emit, Over, ReadEnding
<1>5. CASE e = "acted"
  <2>1. Verdict!Act
    BY <1>3, <1>4, <1>5 DEF Verdict!Act, Verdict!budget
  <2> QED
    BY <2>1 DEF Verdict!Next
<1>6. CASE e # "acted"
  <2>1. TurnActed' = TurnActed
    BY <1>3, <1>6 DEF TurnActed
  <2> QED
    BY <1>3, <2>1 DEF Verdict!vars, Verdict!budget
<1> QED
  BY <1>5, <1>6

\* A conclusion drawn from the state o, when nothing else of the abstract state
\* changes but the end of the turn.
LEMMA ConclusionRefines ==
  ASSUME IsWatching, NEW o \in ObservationState,
         outcome' = finalizeObservation(o),
         UNCHANGED <<stream, continuations, retries>>,
         NEW c \in {"settle", "continue", "retry", "give_up"},
         FollowUp(o) = c
  PROVE  Verdict!Conclude(c) /\ TurnActed' = TurnActed
  BY DEF Verdict!Conclude, Verdict!budget, IsWatching, finalizeObservation,
         TurnActed

\* Reading an event, and the conclusion at a boundary, is a step of the verdict.
LEMMA ReadRefines ==
  ASSUME RefineInv, ReadEvent
  PROVE  [Verdict!Next]_(Verdict!vars)
<1> DEFINE e == stream[read + 1]
           n == observeStreamEvent(obs, e)
<1>1. /\ TypeOK /\ ReadState /\ StillWatching /\ IsWatching /\ EndIsLast
      /\ read' = read + 1 /\ obs' = n
      /\ outcome' = IF n.boundary # "none" THEN finalizeObservation(n)
                                           ELSE outcome
      /\ UNCHANGED <<stream, continuations, retries>>
  BY DEF RefineInv, MonitorInv, ReadEvent
<1>2. /\ obs \in ObservationState /\ read \in Nat /\ Len(stream) \in Nat
      /\ read + 1 \in 1 .. Len(stream) /\ e \in Event
      /\ DOMAIN stream = 1 .. Len(stream)
  BY <1>1 DEF TypeOK, ReadEvent
<1>3. n \in ObservationState
  BY <1>1, <1>2, MonitorAssumption, EventType DEF StillWatching
<1>4. /\ n.acted <=> obs.acted \/ e = "acted"
      /\ e \in Endings => n.boundary # "none"
      /\ n.boundary \in {"waiting", "completed"} => e \in Endings
      /\ n.failure.kind = "provider_error" => e \in Endings
  BY <1>1, <1>2, MonitorAssumption, EventEffect DEF StillWatching
<1>5. 1 .. read' = (1 .. read) \cup {read + 1}
  BY <1>1, <1>2
<1>6. /\ ReadEnding' <=> e \in Endings
      /\ ~ReadEnding /\ ReadEnding \in BOOLEAN /\ ReadEnding' \in BOOLEAN
  BY <1>1, <1>5 DEF ReadEnding, StillWatching
<1>7. n.acted => TurnActed
  BY <1>1, <1>2, <1>4 DEF TurnActed, ReadState, Has
<1>8. CASE n.boundary = "none"
  <2>1. UNCHANGED <<outcome, continuations, retries>> /\ TurnActed' = TurnActed
    BY <1>1, <1>8 DEF TurnActed
  <2>2. ReadEnding' = ReadEnding
    BY <1>4, <1>6, <1>8
  <2> QED
    BY <2>1, <2>2 DEF Verdict!vars, Verdict!budget
<1>9. CASE n.boundary # "none"
  <2>1. PICK c \in {"settle", "continue", "retry", "give_up"} : FollowUp(n) = c
    BY <1>3, FollowUpSays
  <2>2. outcome' = finalizeObservation(n)
    BY <1>1, <1>9
  <2>3. Verdict!Conclude(c)
    BY <1>1, <1>3, <2>1, <2>2, ConclusionRefines
  <2>4. /\ n.acted => c = "settle"
        /\ c = "continue" => /\ continuations < MaxContinuations
                             /\ n.boundary = "waiting"
        /\ c = "retry" => /\ retries < MaxRetries /\ n.boundary = "failed"
                          /\ n.failure.kind = "provider_error"
        /\ c = "settle" => n.acted
    BY <1>3, <1>9, <2>1, FollowUpSays
  <2>5. CASE e \notin Endings
    <3>1. ReadEnding' = ReadEnding
      BY <1>6, <2>5
    <3>2. c = "give_up" \/ (TurnActed /\ c = "settle")
      BY <1>4, <1>7, <2>4, <2>5
    <3>3. Verdict!MonitorGivesUp
      BY <2>3, <3>1, <3>2 DEF Verdict!MonitorGivesUp
    <3> QED
      BY <3>3 DEF Verdict!Next
  <2>6. CASE e \in Endings
    <3>1. (~ReadEnding)' = FALSE /\ ~ReadEnding
      BY <1>6, <2>6
    <3>2. Verdict!TurnEnds
      BY <3>1 DEF Verdict!TurnEnds
    <3>3. read + 1 = Len(stream)
      BY <1>1, <1>2, <2>6 DEF EndIsLast
    <3>4. TurnActed => n.acted
      BY <1>1, <1>2, <1>4, <1>5, <3>3 DEF TurnActed, ReadState, Has
    <3>5. Verdict!ObserveStop \/ Verdict!ObserveFailure
      BY <1>7, <2>3, <2>4, <3>2, <3>4
      DEF Verdict!ObserveStop, Verdict!ObserveFailure, Verdict!Continue,
          Verdict!Retry
    <3> QED
      BY <3>5 DEF Verdict!Next
  <2> QED
    BY <2>5, <2>6
<1> QED
  BY <1>8, <1>9

\* Timing out or a broken stream is a step of the verdict.
LEMMA BreakRefines ==
  ASSUME RefineInv, TimeOut \/ StreamBreaks
  PROVE  [Verdict!Next]_(Verdict!vars)
<1>1. PICK kind \in {"timeout", "stream_error"}, transient \in BOOLEAN :
        StopReading(Failed(obs, kind, transient))
  BY DEF TimeOut, StreamBreaks
<1>2. obs \in ObservationState /\ ReadState
  BY DEF RefineInv, MonitorInv, TypeOK
<1>3. PICK o \in ObservationState :
        /\ StopReading(o) /\ o.acted = obs.acted
        /\ o.boundary = "failed" /\ o.failure.kind = kind
  <2>1. /\ Failed(obs, kind, transient) \in ObservationState
        /\ Failed(obs, kind, transient).acted = obs.acted
        /\ Failed(obs, kind, transient).boundary = "failed"
        /\ Failed(obs, kind, transient).failure.kind = kind
    BY <1>2 DEF Failed, ObservationState, Failure, FailureKind
  <2> QED
    BY <1>1, <2>1
<1>4. PICK c \in {"settle", "continue", "retry", "give_up"} : FollowUp(o) = c
  BY FollowUpSays
<1>5. /\ IsWatching /\ outcome' = finalizeObservation(o)
      /\ UNCHANGED <<stream, read, continuations, retries>>
  BY <1>3 DEF StopReading
<1>6. Verdict!Conclude(c)
  BY <1>4, <1>5, ConclusionRefines
<1>7. o.acted => TurnActed
  <2>1. 1 .. read \subseteq DOMAIN stream
    BY DEF RefineInv, MonitorInv, TypeOK
  <2> QED
    BY <1>2, <1>3, <2>1 DEF ReadState, Has, TurnActed
<1>8. c = "give_up" \/ (TurnActed /\ c = "settle")
  BY <1>3, <1>4, <1>7, FollowUpSays
<1>9. ReadEnding' = ReadEnding
  BY <1>5 DEF ReadEnding
<1> QED
  BY <1>6, <1>8, <1>9 DEF Verdict!MonitorGivesUp, Verdict!Next

\* A stream that ends early is a step of the verdict.
LEMMA EndRefines ==
  ASSUME RefineInv, StreamEnds
  PROVE  [Verdict!Next]_(Verdict!vars)
<1>1. /\ obs \in ObservationState /\ IsWatching /\ obs.boundary = "none"
      /\ outcome' = finalizeObservation(obs)
      /\ UNCHANGED <<stream, read, continuations, retries>>
  BY DEF RefineInv, MonitorInv, TypeOK, StreamEnds, StopReading, StillWatching
<1>2. PICK c \in {"settle", "continue", "retry", "give_up"} : FollowUp(obs) = c
  BY <1>1, FollowUpSays
<1>3. Verdict!Conclude(c)
  BY <1>1, <1>2, ConclusionRefines
<1>4. /\ c # "retry"
      /\ c = "continue" => continuations < MaxContinuations
  BY <1>1, <1>2, FollowUpSays
<1>5. ReadEnding' = ReadEnding
  BY <1>1 DEF ReadEnding
<1> QED
  BY <1>3, <1>4, <1>5 DEF Verdict!StreamEnds, Verdict!Continue, Verdict!Next

\* The monitor implements the promise that RepairService is written against:
\* its verdict on a turn of any length is one of TurnVerdict's, whatever the
\* faults (observeRepairSession and its callers).
THEOREM Refinement == Spec => ImplementsTurnVerdict
<1>1. Init => Verdict!Init
  BY DEF Init, Verdict!Init, ReadEnding, TurnActed, Watching
<1>2. RefineInv /\ [Next]_vars => [Verdict!Next]_(Verdict!vars)
  <2> SUFFICES ASSUME RefineInv, [Next]_vars
               PROVE  [Verdict!Next]_(Verdict!vars)
    OBVIOUS
  <2>1. CASE UNCHANGED vars
    BY <2>1 DEF vars, Verdict!vars, Verdict!budget, ReadEnding, TurnActed
  <2> QED
    BY <2>1, EmitRefines, ReadRefines, BreakRefines, EndRefines DEF Next
<1> QED
  BY <1>1, <1>2, RefineAlways, PTL DEF Spec, ImplementsTurnVerdict, Verdict!Spec

=============================================================================
