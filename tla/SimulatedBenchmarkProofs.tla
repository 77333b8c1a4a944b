----------------------- MODULE SimulatedBenchmarkProofs -----------------------
(***************************************************************************)
(* The benchmark with its service, for any number of jobs and workers and  *)
(* any limits: what the runner relies on when it delivers, and what its    *)
(* rows say.  The inductive invariant says whose update each process is    *)
(* in, and what everybody who keeps a change number knows of it.           *)
(***************************************************************************)
EXTENDS SimulatedBenchmark, SimulatorStoreProofs

-----------------------------------------------------------------------------
\* What requests leave in a state.

\* Numbers are given once.
Numbered(s) ==
  /\ \A c, d \in s.changes : c.number = d.number => c = d
  /\ s.next # 0
  /\ \A c \in s.changes : c.number # 0 /\ c.number < s.next

\* n is the number of a change made for j, with the verdict v.
Made(s, n, j, v) ==
  \E c \in s.changes : c.number = n /\ c.job = j /\ c.verdict = v

Names(s, n, j) == \E v \in Verdicts : Made(s, n, j, v)

LEMMA EffectGrows ==
  ASSUME NEW s \in Db, NEW r \in Request
  PROVE  s.samples \subseteq Effect(s, r).samples
BY DEF Effect, WithSample, WithChange, WithMerge, Db

LEMMA SampleAdded ==
  ASSUME NEW s \in Db, NEW r \in Request, r.kind = "sample"
  PROVE  r.job \in Effect(s, r).samples
BY DEF Effect, WithSample, Db

LEMMA EffectKeepsMade ==
  ASSUME NEW s \in Db, NEW r \in Request, NEW n, NEW j, NEW v, Made(s, n, j, v)
  PROVE  Made(Effect(s, r), n, j, v)
<1>1. PICK c \in s.changes : c.number = n /\ c.job = j /\ c.verdict = v
  BY DEF Made
<1>2. c \in Change
  BY DEF Db
<1>3. CASE r.kind = "sample"
  BY <1>1, <1>3 DEF Effect, WithSample, Db, Made
<1>4. CASE r.kind = "publish"
  BY <1>1, <1>4 DEF Effect, WithChange, Db, Made
<1>5. CASE r.kind = "merge"
  <2>1. Effect(s, r).changes
          = (s.changes \ ChangesNumbered(s, r.number))
              \cup {[d EXCEPT !.merged = TRUE] :
                      d \in ChangesNumbered(s, r.number)}
    BY <1>5 DEF Effect, WithMerge, Db
  <2>2. CASE c \in ChangesNumbered(s, r.number)
    <3>1. [c EXCEPT !.merged = TRUE] \in Effect(s, r).changes
      BY <2>1, <2>2
    <3>2. /\ [c EXCEPT !.merged = TRUE].number = n
          /\ [c EXCEPT !.merged = TRUE].job = j
          /\ [c EXCEPT !.merged = TRUE].verdict = v
      BY <1>1, <1>2 DEF Change
    <3> QED
      BY <3>1, <3>2 DEF Made
  <2>3. CASE c \notin ChangesNumbered(s, r.number)
    BY <1>1, <2>1, <2>3 DEF Made
  <2> QED
    BY <2>2, <2>3
<1>6. CASE r.kind \notin {"sample", "publish", "merge"}
  BY <1>1, <1>6 DEF Effect, Made
<1> QED
  BY <1>3, <1>4, <1>5, <1>6

LEMMA EffectKeepsNames ==
  ASSUME NEW s \in Db, NEW r \in Request, NEW n, NEW j, Names(s, n, j)
  PROVE  Names(Effect(s, r), n, j)
BY EffectKeepsMade DEF Names

LEMMA PublishNames ==
  ASSUME NEW s \in Db, NEW r \in Request, r.kind = "publish"
  PROVE  Names(Effect(s, r), s.next, r.job)
<1>1. r.verdict \in Verdicts
  BY DEF Request
<1>2. [number |-> s.next, job |-> r.job, verdict |-> r.verdict,
       merged |-> FALSE] \in Effect(s, r).changes
  BY DEF Effect, WithChange, Db
<1> QED
  BY <1>1, <1>2 DEF Names, Made

LEMMA EffectKeepsNumbered ==
  ASSUME NEW s \in Db, NEW r \in Request, Numbered(s)
  PROVE  Numbered(Effect(s, r))
<1>1. s.changes \subseteq Change /\ s.next \in Nat
  BY DEF Db
<1>2. CASE r.kind = "sample"
  BY <1>2 DEF Effect, WithSample, Db, Numbered
<1>3. CASE r.kind = "publish"
  <2> DEFINE new == [number |-> s.next, job |-> r.job, verdict |-> r.verdict,
                     merged |-> FALSE]
  <2>1. /\ Effect(s, r).changes = s.changes \cup {new}
        /\ Effect(s, r).next = s.next + 1
    BY <1>3 DEF Effect, WithChange, Db
  <2>2. new.number = s.next
    OBVIOUS
  <2>3. \A c \in s.changes : c.number \in Nat /\ c.number < s.next
    BY <1>1 DEF Change, Numbered
  <2> HIDE DEF new
  <2>4. /\ s.next + 1 # 0
        /\ \A c \in Effect(s, r).changes : c.number # 0 /\ c.number < s.next + 1
    BY <1>1, <2>1, <2>2, <2>3 DEF Numbered
  <2>5. \A c, d \in Effect(s, r).changes : c.number = d.number => c = d
    BY <1>1, <2>1, <2>2, <2>3 DEF Numbered
  <2> QED
    BY <2>1, <2>4, <2>5 DEF Numbered
<1>4. CASE r.kind = "merge"
  <2> DEFINE chosen == ChangesNumbered(s, r.number)
             done1 == {[d EXCEPT !.merged = TRUE] : d \in chosen}
  <2>1. /\ Effect(s, r).changes = (s.changes \ chosen) \cup done1
        /\ Effect(s, r).next = s.next
    BY <1>4 DEF Effect, WithMerge, Db
  <2>2. \A c \in done1 :
          c.number = r.number /\ c.number # 0 /\ c.number < s.next
    BY <1>1 DEF ChangesNumbered, Change, Numbered
  <2>3. \A c, d \in done1 : c = d
    BY <1>1 DEF ChangesNumbered, Numbered
  <2>4. \A c \in s.changes \ chosen : c.number # r.number
    BY DEF ChangesNumbered
  <2> HIDE DEF chosen, done1
  <2> QED
    BY <2>1, <2>2, <2>3, <2>4 DEF Numbered
<1>5. CASE r.kind \notin {"sample", "publish", "merge"}
  BY <1>5 DEF Effect
<1> QED
  BY <1>2, <1>3, <1>4, <1>5

-----------------------------------------------------------------------------
\* The inductive invariant.

\* A handler works on an attempt.
HandlerHasAttempt ==
  \A j \in Jobs : handler[j].stage # "idle" => attempt[j].attempts # 0

\* The update the service is in was asked for by its tool.
ToolFits ==
  pc[Server] \notin {"idle", "stopped"} =>
    /\ tool \in [session : Session, name : Tools]
    /\ request[Server] \in Request
    /\ request[Server].job = tool.session.job
    /\ request[Server].kind = "publish" <=> tool.name = "publish_fix"

\* The update the runner is in is for the sample of the job that waits for it.
AppendFits ==
  \A j \in Jobs :
    work[j].stage = "appending" =>
      pc[Runner] # "idle" /\ request[Runner] = [kind |-> "sample", job |-> j]

\* A job that has been delivered has its sample.
SampleThere ==
  /\ \A j \in Jobs :
       /\ work[j].stage \in {"delivering", "polling"} => j \in db.samples
       /\ post[j] # "none" => work[j].stage = "delivering"
  /\ \A j \in Jobs :
       done[Runner] /\ request[Runner] = [kind |-> "sample", job |-> j]
         => j \in db.samples

\* Whoever keeps a number for a job keeps one of a change made for it.
NumbersFit ==
  /\ \A j \in Jobs :
       /\ attempt[j].change # 0 => Names(db, attempt[j].change, j)
       /\ work[j].last.change # 0 => Names(db, work[j].last.change, j)
  /\ pc[Server] # "stopped" /\ done[Server] /\ request[Server].kind = "publish"
       => Names(db, number[Server], request[Server].job)

\* A job that has not been delivered has no attempt, and one that is delivered
\* once more has one left.
CapKept ==
  \A j \in Jobs :
    /\ work[j].stage \in {"todo", "appending"} => attempt[j].attempts = 0
    /\ post[j] = "sent" => attempt[j].attempts < MaxAttempts

\* An attempt that has acted, that is still under way or that was left running.
Engaged(j) ==
  \/ handler[j].stage # "idle"
  \/ attempt[j].terminal # "none" \/ attempt[j].change # 0
  \/ attempt[j].status = "running"

\* A delivery is marked for as long as its attempt is engaged, and the status of
\* a record nobody works on says how it ended.
MarkFits ==
  pc[Server] # "stopped" =>
    \A j \in Jobs :
      /\ j \in marked => Engaged(j)
      /\ attempt[j].status = "completed" => attempt[j].terminal # "none"
      /\ attempt[j].status = "none" /\ attempt[j].attempts # 0
           => handler[j].stage = "sending"
      /\ attempt[j].status = "waiting"
           => handler[j].stage = "observed" /\ attempt[j].terminal = "none"

\* A row that names a change says what that change amounts to.
RowFits ==
  \A j \in Jobs :
    work[j].row.change # 0 =>
      \E v \in Verdicts :
        /\ Made(db, work[j].row.change, j, v)
        /\ work[j].row.status = CheckStatus(v)

BenchmarkInv ==
  /\ TypeOK /\ StoreInv
  /\ HandlerHasAttempt /\ ToolFits /\ AppendFits /\ SampleThere
  /\ Numbered(db) /\ NumbersFit /\ CapKept /\ MarkFits /\ RowFits

-----------------------------------------------------------------------------
\* Records of attempts and handlers.

\* b is a, but for what is given.
Like(b, a, status, terminal, n) ==
  /\ b \in Attempt
  /\ b.attempts = a.attempts
  /\ b.status = status /\ b.terminal = terminal /\ b.change = n

LEMMA AttemptOps ==
  ASSUME NEW a \in Attempt, NEW status \in Statuses, NEW terminal \in Terminals,
         NEW n \in Nat
  PROVE  /\ Like(WithStatus(a, status), a, status, a.terminal, a.change)
         /\ Like(Cleared(a, status), a, status, "none", a.change)
         /\ Like(Observed(a, status, terminal), a, status, terminal, a.change)
         /\ Like(WithChangeNumber(a, n), a, a.status, a.terminal, n)
         /\ Like(WithRerun(a), a, a.status, a.terminal, a.change)
         /\ Like(WithChangeNumber(Acted(a, terminal), n), a, "completed",
                 terminal, n)
<1> USE DEF Like, Attempt
<1>n. "none" \in Terminals /\ "completed" \in Statuses
  BY DEF Terminals, Statuses
<1>1. Like(WithStatus(a, status), a, status, a.terminal, a.change)
  BY DEF WithStatus
<1>2. ASSUME NEW st \in Statuses
      PROVE  Like(Cleared(a, st), a, st, "none", a.change)
  BY <1>n DEF Cleared
<1>3. Like(Observed(a, status, terminal), a, status, terminal, a.change)
  BY DEF Observed
<1>4. ASSUME NEW b \in Attempt
      PROVE  Like(WithChangeNumber(b, n), b, b.status, b.terminal, n)
  BY DEF WithChangeNumber
<1>5. Like(WithRerun(a), a, a.status, a.terminal, a.change)
  BY DEF WithRerun
<1>6. Like(Acted(a, terminal), a, "completed", terminal, a.change)
  <2>1. Like(Cleared(a, "completed"), a, "completed", "none", a.change)
    BY <1>n, <1>2
  <2> QED
    BY <2>1 DEF Acted
<1>7. Like(WithChangeNumber(Acted(a, terminal), n), a, "completed", terminal, n)
  BY <1>4, <1>6
<1> QED
  BY <1>n, <1>1, <1>2, <1>3, <1>4, <1>5, <1>7

LEMMA NextAttemptIs ==
  ASSUME NEW a \in Attempt, a.attempts < MaxAttempts
  PROVE  /\ NextAttempt(a) \in Attempt
         /\ NextAttempt(a).attempts = a.attempts + 1
         /\ NextAttempt(a).change = 0
<1>1. a.attempts + 1 \in 0 .. MaxAttempts
  BY ServiceAssumption DEF Attempt
<1> QED
  BY <1>1 DEF NextAttempt, NoAttempt, Attempt, Statuses, Terminals

LEMMA HandlerOps ==
  ASSUME NEW h \in Handler, NEW stage \in HandlerStages, NEW terminal \in Terminals
  PROVE  /\ At(h, stage) \in Handler /\ At(h, stage).stage = stage
         /\ WatchAnew(h) \in Handler /\ WatchAnew(h).stage = "watching"
         /\ FirstWatch(h) \in Handler /\ FirstWatch(h).stage = "watching"
         /\ Having(h, terminal) \in Handler /\ Having(h, terminal).stage = h.stage
         /\ h.retries < ProviderErrorRetries =>
              Resending(h) \in Handler /\ Resending(h).stage = "sending"
         /\ h.continuations < MaxContinuations =>
              Continuing(h) \in Handler /\ Continuing(h).stage = "continuing"
         /\ IdleHandler \in Handler /\ IdleHandler.stage = "idle"
         /\ At(IdleHandler, stage) \in Handler
<1> USE ServiceAssumption DEF Handler, HandlerStages
<1>1. At(h, stage) \in Handler /\ At(h, stage).stage = stage
  BY DEF At
<1>2. WatchAnew(h) \in Handler /\ WatchAnew(h).stage = "watching"
  BY DEF WatchAnew, Terminals
<1>3. FirstWatch(h) \in Handler /\ FirstWatch(h).stage = "watching"
  BY <1>2 DEF FirstWatch
<1>4. Having(h, terminal) \in Handler /\ Having(h, terminal).stage = h.stage
  BY DEF Having
<1>5. ASSUME h.retries < ProviderErrorRetries
      PROVE  Resending(h) \in Handler /\ Resending(h).stage = "sending"
  <2>1. h.retries + 1 \in 0 .. ProviderErrorRetries
    BY <1>5
  <2> QED
    BY <2>1 DEF Resending
<1>6. ASSUME h.continuations < MaxContinuations
      PROVE  Continuing(h) \in Handler /\ Continuing(h).stage = "continuing"
  <2>1. h.continuations + 1 \in 0 .. MaxContinuations
    BY <1>6
  <2> QED
    BY <2>1 DEF Continuing
<1>7. IdleHandler \in Handler /\ IdleHandler.stage = "idle"
  BY DEF IdleHandler, Terminals
<1>8. At(IdleHandler, stage) \in Handler
  BY <1>7 DEF At
<1> QED
  BY <1>1, <1>2, <1>3, <1>4, <1>5, <1>6, <1>7, <1>8

\* What the marks ask of one job.
JobFits(j, marks, b, h) ==
  /\ j \in marks =>
       \/ h.stage # "idle" \/ b.terminal # "none" \/ b.change # 0
       \/ b.status = "running"
  /\ b.status = "completed" => b.terminal # "none"
  /\ b.status = "none" /\ b.attempts # 0 => h.stage = "sending"
  /\ b.status = "waiting" => h.stage = "observed" /\ b.terminal = "none"

LEMMA MarkFitsIs ==
  MarkFits <=> (pc[Server] # "stopped" =>
                  \A j \in Jobs : JobFits(j, marked, attempt[j], handler[j]))
BY DEF MarkFits, JobFits, Engaged

\* A step that changes the record and the handler of one job.
LEMMA AttemptFrame ==
  ASSUME BenchmarkInv, NEW j \in Jobs, NEW b \in Attempt, NEW h \in Handler,
         attempt' = [attempt EXCEPT ![j] = b],
         handler' = [handler EXCEPT ![j] = h],
         b.attempts = attempt[j].attempts, marked' \subseteq marked,
         UNCHANGED <<work, post>>,
         pc'[Server] # "stopped" => pc[Server] # "stopped",
         h.stage # "idle" => b.attempts # 0,
         pc[Server] # "stopped" => JobFits(j, marked', b, h)
  PROVE  /\ attempt' \in [Jobs -> Attempt] /\ handler' \in [Jobs -> Handler]
         /\ HandlerHasAttempt' /\ CapKept' /\ MarkFits'
<1>1. attempt \in [Jobs -> Attempt] /\ handler \in [Jobs -> Handler]
  BY DEF BenchmarkInv, TypeOK, ServiceTypeOK
<1>2. attempt' \in [Jobs -> Attempt] /\ handler' \in [Jobs -> Handler]
  BY <1>1
<1>3. HandlerHasAttempt'
  BY <1>1 DEF BenchmarkInv, HandlerHasAttempt
<1>4. CapKept'
  BY <1>1 DEF BenchmarkInv, CapKept
<1>5. ASSUME pc'[Server] # "stopped", NEW k \in Jobs
      PROVE  JobFits(k, marked', attempt'[k], handler'[k])
  <2>1. CASE k = j
    BY <1>1, <1>5, <2>1
  <2>2. CASE k # j
    <3>1. JobFits(k, marked, attempt[k], handler[k])
      BY <1>5, MarkFitsIs DEF BenchmarkInv
    <3> QED
      BY <1>1, <2>2, <3>1 DEF JobFits
  <2> QED
    BY <2>1, <2>2
<1>6. MarkFits'
  BY <1>5 DEF MarkFits, JobFits, Engaged
<1> QED
  BY <1>2, <1>3, <1>4, <1>6

\* What a step of a handler leaves as it is.
LEMMA HandlerFrame ==
  ASSUME BenchmarkInv, NEW j \in Jobs, NEW b \in Attempt, NEW h \in Handler,
         attempt' = [attempt EXCEPT ![j] = b],
         handler' = [handler EXCEPT ![j] = h],
         b.attempts = attempt[j].attempts, b.change = attempt[j].change,
         marked' \subseteq marked, live' \subseteq Session,
         UNCHANGED <<storeVars, runnerVars, tool, mayHappen>>,
         h.stage # "idle" => b.attempts # 0,
         pc[Server] # "stopped" => JobFits(j, marked', b, h)
  PROVE  BenchmarkInv'
<1>1. /\ attempt' \in [Jobs -> Attempt] /\ handler' \in [Jobs -> Handler]
      /\ HandlerHasAttempt' /\ CapKept' /\ MarkFits'
  BY AttemptFrame DEF storeVars, runnerVars
<1>2. StoreInv'
  BY StoreStepInv DEF BenchmarkInv
<1>3. TypeOK'
  BY <1>1, <1>2 DEF BenchmarkInv, TypeOK, ServiceTypeOK, StoreInv, runnerVars
<1>4. ToolFits' /\ AppendFits' /\ SampleThere' /\ Numbered(db)' /\ RowFits'
  BY DEF BenchmarkInv, storeVars, runnerVars, ToolFits, AppendFits, SampleThere,
         Numbered, RowFits
<1>5. NumbersFit'
  <2>1. \A k \in Jobs : attempt'[k].change = attempt[k].change
    BY DEF BenchmarkInv, TypeOK, ServiceTypeOK
  <2> QED
    BY <2>1 DEF BenchmarkInv, storeVars, runnerVars, NumbersFit
<1> QED
  BY <1>1, <1>2, <1>3, <1>4, <1>5 DEF BenchmarkInv

-----------------------------------------------------------------------------
\* Steps of the handlers.

LEMMA HandlerKeepsInv ==
  ASSUME BenchmarkInv, NEW j \in Jobs, ServiceStep(j)
  PROVE  BenchmarkInv'
<1> DEFINE a == attempt[j]
           h == handler[j]
<1>0. /\ a \in Attempt /\ h \in Handler /\ live \subseteq Session
      /\ a.status \in Statuses /\ a.terminal \in Terminals /\ a.change \in Nat
      /\ h.seen \in Terminals
      /\ a.attempts \in 0 .. MaxAttempts
  BY DEF BenchmarkInv, TypeOK, ServiceTypeOK, Attempt, Handler
<1>1. h.stage # "idle" => a.attempts # 0 /\ SessionOf(j) \in Session
  BY <1>0, ServiceAssumption DEF BenchmarkInv, HandlerHasAttempt, SessionOf, Session
<1>2. pc[Server] # "stopped" => JobFits(j, marked, a, h)
  BY MarkFitsIs DEF BenchmarkInv
<1>3. UNCHANGED <<runnerVars, mayHappen>>
  BY DEF ServiceStep
<1>s. /\ {"running", "failed", "abandoned", "waiting", "completed"} \subseteq Statuses
      /\ "none" \in Terminals
      /\ {"observed", "dropped", "idle"} \subseteq HandlerStages
  BY DEF Statuses, Terminals, HandlerStages
<1>4. CASE SendSucceeds(j)
  <2>1. Like(Cleared(a, "running"), a, "running", "none", a.change)
    BY <1>0, <1>s, AttemptOps
  <2>2. FirstWatch(h) \in Handler /\ FirstWatch(h).stage = "watching"
    BY <1>0, <1>s, HandlerOps
  <2>3. JobFits(j, marked', Cleared(a, "running"), FirstWatch(h))
    BY <2>1, <2>2 DEF JobFits, Like
  <2> QED
    BY <1>0, <1>1, <1>3, <1>4, <2>1, <2>2, <2>3, HandlerFrame
       DEF SendSucceeds, Like
<1>5. CASE SendFails(j)
  <2>1. Like(WithStatus(a, "failed"), a, "failed", a.terminal, a.change)
    BY <1>0, <1>s, AttemptOps
  <2>2. IdleHandler \in Handler /\ IdleHandler.stage = "idle"
    BY <1>0, <1>s, HandlerOps
  <2>3. JobFits(j, marked', WithStatus(a, "failed"), IdleHandler)
    BY <1>5, <2>1, <2>2 DEF JobFits, Like, SendFails
  <2> QED
    BY <1>0, <1>3, <1>5, <2>1, <2>2, <2>3, HandlerFrame DEF SendFails, Like
<1>6. ASSUME NEW status \in Statuses, NEW terminal \in Terminals,
             NEW stage \in {"observed", "dropped"},
             RecordObservation(j, status, terminal, stage),
             live' \subseteq Session,
             status = "completed" => terminal # "none",
             status = "waiting" => stage = "observed" /\ terminal = "none",
             status # "none"
      PROVE  BenchmarkInv'
  <2>1. Like(Observed(a, status, terminal), a, status, terminal, a.change)
    BY <1>0, <1>s, AttemptOps
  <2>2. At(h, stage) \in Handler /\ At(h, stage).stage = stage
    <3>1. stage \in HandlerStages
      BY <1>s
    <3> QED
      BY <1>0, <3>1, HandlerOps
  <2>3. JobFits(j, marked', Observed(a, status, terminal), At(h, stage))
    BY <1>6, <2>1, <2>2 DEF JobFits, Like
  <2>4. a.attempts # 0
    BY <1>1, <1>6 DEF RecordObservation
  <2> QED
    BY <1>3, <1>6, <2>1, <2>2, <2>3, <2>4, HandlerFrame
       DEF RecordObservation, Like
<1>7. CASE TurnEnds(j)
  <2>1. PICK status \in (TurnEndings \cap mayHappen[j]) \cup {"completed"} :
          /\ status = "completed" => h.seen # "none"
          /\ status \in {"waiting", "abandoned"} => h.seen = "none"
          /\ RecordObservation(j, status, h.seen, "observed")
    BY <1>7 DEF TurnEnds
  <2>2. status \in Statuses /\ status # "none"
    BY DEF TurnEndings, Statuses
  <2>3. live' \subseteq Session
    BY <1>0, <1>7 DEF TurnEnds
  <2> QED
    BY <1>0, <1>6, <2>1, <2>2, <2>3
<1>8. CASE MonitorGivesUp(j)
  <2>1. PICK terminal \in {h.seen, "none"} :
          RecordObservation(j, "failed", terminal, "dropped")
    BY <1>8 DEF MonitorGivesUp
  <2> QED
    BY <1>0, <1>s, <1>6, <1>8, <2>1 DEF MonitorGivesUp
<1>9. CASE StreamEnds(j)
  <2>1. PICK status \in {"waiting", "running"} :
          RecordObservation(j, status, "none", "observed")
    BY <1>9 DEF StreamEnds
  <2> QED
    BY <1>0, <1>s, <1>6, <1>9, <2>1 DEF StreamEnds
<1>10. ASSUME Retry(j), h.stage # "idle", UNCHANGED <<storeVars, live, tool>>
       PROVE  BenchmarkInv'
  <2>1. Like(Cleared(a, "running"), a, "running", "none", a.change)
    BY <1>0, <1>s, AttemptOps
  <2>2. Resending(h) \in Handler
    BY <1>0, <1>s, <1>10, HandlerOps DEF Retry
  <2>3. JobFits(j, marked', Cleared(a, "running"), Resending(h))
    BY <2>1 DEF JobFits, Like
  <2> QED
    BY <1>0, <1>1, <1>3, <1>10, <2>1, <2>2, <2>3, HandlerFrame DEF Retry, Like
<1>11. CASE SendFailsRetryably(j)
  BY <1>10, <1>11 DEF SendFailsRetryably
<1>12. CASE RetrySession(j)
  BY <1>10, <1>12 DEF RetrySession
<1>13. CASE ContinueSession(j)
  <2>1. Like(Cleared(a, "running"), a, "running", "none", a.change)
    BY <1>0, <1>s, AttemptOps
  <2>2. Continuing(h) \in Handler
    BY <1>0, <1>s, <1>13, HandlerOps DEF ContinueSession
  <2>3. JobFits(j, marked', Cleared(a, "running"), Continuing(h))
    BY <2>1 DEF JobFits, Like
  <2> QED
    BY <1>0, <1>1, <1>3, <1>13, <2>1, <2>2, <2>3, HandlerFrame
       DEF ContinueSession, Like
<1>14. CASE ReleaseSession(j)
  <2> DEFINE st == IF a.status = "failed" THEN "failed" ELSE "abandoned"
  <2>1. Like(WithStatus(a, st), a, st, a.terminal, a.change)
    BY <1>0, <1>s, AttemptOps
  <2>2. IdleHandler \in Handler /\ IdleHandler.stage = "idle"
    BY <1>0, <1>s, HandlerOps
  <2>3. JobFits(j, marked', WithStatus(a, st), IdleHandler)
    BY <1>14, <2>1, <2>2 DEF JobFits, Like, ReleaseSession
  <2> QED
    BY <1>0, <1>3, <1>14, <2>1, <2>2, <2>3, HandlerFrame DEF ReleaseSession, Like
<1>15. CASE SettleSession(j)
  <2>1. IdleHandler \in Handler /\ IdleHandler.stage = "idle"
    BY <1>0, <1>s, HandlerOps
  <2>2. pc[Server] # "stopped" => JobFits(j, marked', a, IdleHandler)
    BY <1>0, <1>1, <1>2, <1>15, <2>1
       DEF JobFits, SettleSession, Unsettled, Statuses
  <2>3. attempt' = [attempt EXCEPT ![j] = a]
    BY <1>15 DEF SettleSession, BenchmarkInv, TypeOK, ServiceTypeOK
  <2> QED
    BY <1>0, <1>3, <1>15, <2>1, <2>2, <2>3, HandlerFrame DEF SettleSession
<1>16. CASE ContinuationSucceeds(j)
  <2>1. Like(Cleared(a, "running"), a, "running", "none", a.change)
    BY <1>0, <1>s, AttemptOps
  <2>2. WatchAnew(h) \in Handler /\ WatchAnew(h).stage = "watching"
    BY <1>0, <1>s, HandlerOps
  <2>3. JobFits(j, marked', Cleared(a, "running"), WatchAnew(h))
    BY <2>1, <2>2 DEF JobFits, Like
  <2> QED
    BY <1>0, <1>1, <1>3, <1>16, <2>1, <2>2, <2>3, HandlerFrame
       DEF ContinuationSucceeds, Like
<1>17. CASE ContinuationFails(j)
  <2>1. IdleHandler \in Handler /\ IdleHandler.stage = "idle"
    BY <1>0, <1>s, HandlerOps
  <2>2. pc[Server] # "stopped" => JobFits(j, marked', a, IdleHandler)
    BY <1>0, <1>1, <1>2, <1>17, <2>1 DEF JobFits, ContinuationFails
  <2>3. attempt' = [attempt EXCEPT ![j] = a]
    BY <1>17 DEF ContinuationFails, BenchmarkInv, TypeOK, ServiceTypeOK
  <2> QED
    BY <1>0, <1>3, <1>17, <2>1, <2>2, <2>3, HandlerFrame DEF ContinuationFails
<1> QED
  BY <1>4, <1>5, <1>7, <1>8, <1>9, <1>11, <1>12, <1>13, <1>14, <1>15, <1>16, <1>17
     DEF ServiceStep, HandlerStep

-----------------------------------------------------------------------------
\* Steps of the tools.

\* A tool asks for an update, or goes on with its answer.
LEMMA ToolFrame ==
  ASSUME BenchmarkInv, NEW k \in Jobs, NEW b \in Attempt, NEW h \in Handler,
         (\E r \in Request : Begin(Server, r)) \/ Return(Server),
         attempt' = [attempt EXCEPT ![k] = b],
         handler' = [handler EXCEPT ![k] = h],
         b.attempts = attempt[k].attempts,
         b.change # 0 => Names(db, b.change, k),
         h.stage = handler[k].stage,
         tool' \in ToolCall,
         UNCHANGED <<marked, live, runnerVars, mayHappen>>,
         JobFits(k, marked, b, h),
         ToolFits'
  PROVE  BenchmarkInv'
<1>0. Server \in Processes /\ Runner \in Processes /\ Runner # Server
  BY BenchmarkAssumption
<1>1. StoreNext
  BY <1>0 DEF StoreNext
<1>2. StoreInv'
  BY <1>1, StoreStepInv DEF BenchmarkInv
<1>t. /\ pc \in [Processes -> Stages] /\ done \in [Processes -> BOOLEAN]
      /\ request \in [Processes -> Request \cup {NoRequest}]
      /\ attempt \in [Jobs -> Attempt]
  BY DEF BenchmarkInv, TypeOK, ServiceTypeOK, StoreTypeOK
<1>3. /\ db' = db /\ pc[Server] # "stopped"
      /\ done'[Server] = FALSE
      /\ pc'[Runner] = pc[Runner] /\ request'[Runner] = request[Runner]
      /\ done'[Runner] = done[Runner]
  BY <1>0, <1>t DEF Begin, Return
<1>4. h.stage # "idle" => b.attempts # 0
  BY DEF BenchmarkInv, HandlerHasAttempt
<1>5. /\ attempt' \in [Jobs -> Attempt] /\ handler' \in [Jobs -> Handler]
      /\ HandlerHasAttempt' /\ CapKept' /\ MarkFits'
  BY <1>3, <1>4, AttemptFrame DEF runnerVars
<1>6. TypeOK'
  BY <1>2, <1>5 DEF BenchmarkInv, TypeOK, ServiceTypeOK, StoreInv, runnerVars
<1>7. AppendFits' /\ SampleThere' /\ Numbered(db)' /\ RowFits'
  BY <1>3 DEF BenchmarkInv, runnerVars, AppendFits, SampleThere, Numbered, RowFits
<1>8. NumbersFit'
  <2>1. ASSUME NEW j \in Jobs
        PROVE  attempt'[j].change # 0 => Names(db, attempt'[j].change, j)
    BY <1>t DEF BenchmarkInv, NumbersFit
  <2> QED
    BY <1>3, <2>1 DEF BenchmarkInv, NumbersFit, runnerVars
<1> QED
  BY <1>2, <1>5, <1>6, <1>7, <1>8 DEF BenchmarkInv

LEMMA ToolCallKeepsInv ==
  ASSUME BenchmarkInv, NEW s \in live, ToolCalled(s)
  PROVE  BenchmarkInv'
<1> DEFINE k == s.job
           a == attempt[k]
           h == handler[k]
<1>0. /\ s \in Session /\ k \in Jobs /\ a \in Attempt /\ h \in Handler
      /\ a.status \in Statuses /\ a.terminal \in Terminals /\ a.change \in Nat
      /\ attempt \in [Jobs -> Attempt] /\ handler \in [Jobs -> Handler]
  BY DEF BenchmarkInv, TypeOK, ServiceTypeOK, Attempt, Session
<1>1. /\ a.change # 0 => Names(db, a.change, k)
      /\ pc[Server] # "stopped" => JobFits(k, marked, a, h)
  BY <1>0, MarkFitsIs DEF BenchmarkInv, NumbersFit
<1>t. /\ pc \in [Processes -> Stages] /\ Server \in Processes
      /\ request \in [Processes -> Request \cup {NoRequest}]
  BY BenchmarkAssumption DEF BenchmarkInv, TypeOK, StoreTypeOK
<1>2. ASSUME NEW name \in ModelTools, NEW r \in Request, NEW b \in Attempt,
             BeginTool(s, name, r), r.job = k,
             r.kind = "publish" <=> name = "publish_fix",
             Like(b, a, a.status, a.terminal, a.change),
             attempt' = [attempt EXCEPT ![k] = b]
      PROVE  BenchmarkInv'
  <2>1. /\ Begin(Server, r)
        /\ tool' = [session |-> s, name |-> name]
        /\ UNCHANGED <<marked, handler, live, runnerVars, mayHappen>>
        /\ pc[Server] = "idle"
    BY <1>2 DEF BeginTool, ToolCalled, ServerFree
  <2>2. tool' \in [session : Session, name : Tools]
    BY <1>0, <2>1 DEF Tools
  <2>3. ToolFits'
    BY <1>2, <1>t, <2>1, <2>2 DEF ToolFits, Begin
  <2>4. handler' = [handler EXCEPT ![k] = h]
    BY <1>0, <2>1
  <2>5. JobFits(k, marked, b, h)
    BY <1>1, <1>2, <2>1 DEF JobFits, Like
  <2> QED
    BY <1>0, <1>1, <1>2, <2>1, <2>2, <2>3, <2>4, <2>5, ToolFrame
       DEF Like, ToolCall
<1>3. /\ Like(a, a, a.status, a.terminal, a.change)
      /\ attempt = [attempt EXCEPT ![k] = a]
  BY <1>0 DEF Like
<1>4. CASE PublishFix(s)
  <2>1. PICK v \in TriedVerdicts[k] :
          BeginTool(s, "publish_fix", [kind |-> "publish", job |-> k, verdict |-> v])
    BY <1>4 DEF PublishFix
  <2>2. v \in Verdicts
    BY <1>0, ServiceAssumption
  <2>3. [kind |-> "publish", job |-> k, verdict |-> v] \in Request
    BY <1>0, <2>2 DEF Request
  <2> QED
    BY <1>0, <1>2, <1>3, <1>4, <2>1, <2>3 DEF PublishFix, ModelTools
<1>5. CASE PostProviderComment(s)
  <2>1. [kind |-> "comment", job |-> k] \in Request
    BY <1>0 DEF Request
  <2> QED
    BY <1>0, <1>2, <1>3, <1>5, <2>1 DEF PostProviderComment, ModelTools
<1>6. CASE RerunPipeline(s)
  <2>1. [kind |-> "rerun", job |-> k] \in Request
    BY <1>0 DEF Request
  <2>2. Like(WithRerun(a), a, a.status, a.terminal, a.change)
    BY <1>0, AttemptOps
  <2> QED
    BY <1>0, <1>2, <1>6, <2>1, <2>2 DEF RerunPipeline, ModelTools, Like
<1>7. CASE MergeChange(s)
  <2>1. MergeRequest(k, a.change) \in Request
    BY <1>0 DEF Request, MergeRequest
  <2>2. /\ MergeRequest(k, a.change).job = k
        /\ MergeRequest(k, a.change).kind # "publish"
    BY DEF MergeRequest
  <2> QED
    BY <1>0, <1>2, <1>3, <1>7, <2>1, <2>2 DEF MergeChange, ModelTools
<1> QED
  BY <1>4, <1>5, <1>6, <1>7 DEF ToolCalled, SessionStep

LEMMA ToolKeepsInv ==
  ASSUME BenchmarkInv, Tool
  PROVE  BenchmarkInv'
<1> DEFINE s == tool.session
           k == s.job
           a == attempt[k]
           h == handler[k]
<1>0. pc[Server] = "answered" /\ UNCHANGED <<marked, live, runnerVars, mayHappen>>
  BY DEF Tool, ToolStep, FinishTool, MergeAtOnce, ToolFails
<1>1. /\ tool \in [session : Session, name : Tools]
      /\ request[Server].job = k
      /\ request[Server].kind = "publish" <=> tool.name = "publish_fix"
  BY <1>0 DEF BenchmarkInv, ToolFits
<1>2. /\ s \in Session /\ k \in Jobs /\ a \in Attempt /\ h \in Handler
      /\ a.status \in Statuses /\ a.terminal \in Terminals /\ a.change \in Nat
      /\ attempt \in [Jobs -> Attempt] /\ handler \in [Jobs -> Handler]
      /\ number[Server] \in Nat
  BY <1>1, BenchmarkAssumption
     DEF BenchmarkInv, TypeOK, ServiceTypeOK, StoreTypeOK, Attempt, Session
<1>3. /\ a.change # 0 => Names(db, a.change, k)
      /\ JobFits(k, marked, a, h)
  BY <1>0, <1>2, MarkFitsIs DEF BenchmarkInv, NumbersFit
<1>4. done[Server] /\ tool.name = "publish_fix" => Names(db, number[Server], k)
  BY <1>0, <1>1 DEF BenchmarkInv, NumbersFit
<1>t. /\ pc \in [Processes -> Stages] /\ Server \in Processes
      /\ request \in [Processes -> Request \cup {NoRequest}]
  BY BenchmarkAssumption DEF BenchmarkInv, TypeOK, StoreTypeOK
<1>5. ASSUME NEW terminal \in Terminals \ {"none"}, NEW n \in Nat,
             Record(s, terminal, n), n # 0 => Names(db, n, k)
      PROVE  BenchmarkInv'
  <2> DEFINE b == WithChangeNumber(Acted(a, terminal), n)
  <2>1. Like(b, a, "completed", terminal, n)
    BY <1>2, AttemptOps DEF Statuses
  <2>2. PICK g \in Handler :
          g.stage = h.stage /\ handler' = [handler EXCEPT ![k] = g]
    <3>1. Having(h, terminal) \in Handler /\ Having(h, terminal).stage = h.stage
      BY <1>2 DEF Having, Handler
    <3>2. CASE Watched(s)
      BY <1>5, <3>1, <3>2 DEF Record, Report
    <3>3. CASE ~Watched(s)
      BY <1>2, <1>5, <3>3 DEF Record, Report
    <3> QED
      BY <3>2, <3>3
  <2>3. JobFits(k, marked, b, g)
    BY <2>1 DEF JobFits, Like
  <2>4. Return(Server) /\ tool' = NoTool /\ attempt' = [attempt EXCEPT ![k] = b]
    BY <1>5 DEF Record
  <2>5. ToolFits'
    BY <1>t, <2>4 DEF ToolFits, Return
  <2> QED
    BY <1>0, <1>2, <1>5, <2>1, <2>2, <2>3, <2>4, <2>5, ToolFrame
       DEF Like, ToolCall
<1>6. CASE FinishTool
  <2>1. Outcome(tool.name) \in Terminals \ {"none"}
    BY DEF Outcome, Terminals
  <2> QED
    BY <1>2, <1>3, <1>4, <1>5, <1>6, <2>1 DEF FinishTool
<1>7. CASE MergeAtOnce
  <2>1. Like(WithChangeNumber(a, number[Server]), a, a.status, a.terminal,
             number[Server])
    BY <1>2, AttemptOps
  <2>2. number[Server] # 0 /\ Names(db, number[Server], k)
    <3>1. Names(db, number[Server], k)
      BY <1>4, <1>7 DEF MergeAtOnce
    <3> QED
      BY <3>1 DEF Names, Made, BenchmarkInv, Numbered
  <2>3. /\ MergeRequest(k, number[Server]) \in Request
        /\ MergeRequest(k, number[Server]).job = k
        /\ MergeRequest(k, number[Server]).kind # "publish"
    BY <1>2 DEF MergeRequest, Request
  <2>4. /\ Begin(Server, MergeRequest(k, number[Server]))
        /\ tool' = [session |-> s, name |-> "immediate_merge"]
        /\ handler' = [handler EXCEPT ![k] = h]
        /\ attempt' = [attempt EXCEPT ![k] = WithChangeNumber(a, number[Server])]
    BY <1>2, <1>7 DEF MergeAtOnce
  <2>5. tool' \in [session : Session, name : Tools]
    BY <1>2, <2>4 DEF Tools
  <2>6. ToolFits'
    BY <1>t, <2>3, <2>4, <2>5 DEF ToolFits, Begin
  <2>7. JobFits(k, marked, WithChangeNumber(a, number[Server]), h)
    BY <1>3, <2>1, <2>2 DEF JobFits, Like
  <2> QED
    BY <1>0, <1>2, <2>1, <2>2, <2>3, <2>4, <2>5, <2>6, <2>7, ToolFrame
       DEF Like, ToolCall
<1>8. CASE ToolFails
  <2>1. CASE tool.name = "immediate_merge"
    BY <1>2, <1>3, <1>5, <1>8, <2>1 DEF ToolFails, Terminals
  <2>2. CASE tool.name # "immediate_merge"
    <3>1. /\ Return(Server) /\ tool' = NoTool
          /\ handler' = [handler EXCEPT ![k] = h]
          /\ attempt' = [attempt EXCEPT ![k] = a]
      BY <1>2, <1>8, <2>2 DEF ToolFails
    <3>2. ToolFits'
      BY <1>t, <3>1 DEF ToolFits, Return
    <3> QED
      BY <1>0, <1>2, <1>3, <3>1, <3>2, ToolFrame DEF ToolCall
  <2> QED
    BY <2>1, <2>2
<1> QED
  BY <1>6, <1>7, <1>8 DEF Tool, ToolStep

-----------------------------------------------------------------------------
\* Steps of an update.

LEMMA UpdateKeepsInv ==
  ASSUME BenchmarkInv, NEW p \in Processes, Update(p)
  PROVE  BenchmarkInv'
<1>0. /\ Server \in Processes /\ Runner \in Processes /\ Runner # Server
      /\ UNCHANGED <<serviceVars, runnerVars, mayHappen>> /\ UpdateStep(p)
  BY BenchmarkAssumption DEF Update
<1>t. /\ db \in Db /\ pc \in [Processes -> Stages]
      /\ done \in [Processes -> BOOLEAN] /\ number \in [Processes -> Nat]
      /\ request \in [Processes -> Request \cup {NoRequest}]
  BY DEF BenchmarkInv, TypeOK, StoreTypeOK
<1>1. StoreInv'
  BY <1>0, StoreStepInv DEF BenchmarkInv, StoreNext
<1>2. /\ request' = request
      /\ pc[p] \notin {"idle", "stopped"} /\ pc'[p] \notin {"idle", "stopped"}
      /\ \A q \in Processes : q # p =>
           pc'[q] = pc[q] /\ done'[q] = done[q] /\ number'[q] = number[q]
  BY <1>0, <1>t
     DEF UpdateStep, TakeLock, MkdirThrows, MutateCopy, Save, UpdateThrows,
         ReleaseLock
<1>3. CASE Save(p)
  <2>1. /\ request[p] \in Request
        /\ db' = Effect(db, request[p]) /\ number' = number
        /\ number[p] = db.next
    BY <1>3 DEF Save, BenchmarkInv, StoreInv, AskedAndUndone, CopyIsCurrent
  <2>2. /\ db.samples \subseteq db'.samples
        /\ Numbered(db')
        /\ \A n, j : Names(db, n, j) => Names(db', n, j)
        /\ \A n, j, v : Made(db, n, j, v) => Made(db', n, j, v)
    BY <1>t, <2>1, EffectGrows, EffectKeepsNumbered, EffectKeepsNames,
       EffectKeepsMade DEF BenchmarkInv
  <2>3. ToolFits' /\ AppendFits' /\ CapKept' /\ MarkFits' /\ HandlerHasAttempt'
    BY <1>0, <1>2 DEF BenchmarkInv, ToolFits, AppendFits, CapKept, MarkFits,
                     Engaged, HandlerHasAttempt, serviceVars, runnerVars
  <2>4. SampleThere'
    <3>1. ASSUME NEW j \in Jobs, done'[Runner],
                 request[Runner] = [kind |-> "sample", job |-> j]
          PROVE  j \in db'.samples
      <4>1. CASE p = Runner
        BY <1>t, <2>1, <3>1, <4>1, SampleAdded
      <4>2. CASE p # Runner
        BY <1>0, <1>2, <2>2, <3>1, <4>2 DEF BenchmarkInv, SampleThere
      <4> QED
        BY <4>1, <4>2
    <3> QED
      BY <1>0, <1>2, <2>2, <3>1 DEF BenchmarkInv, SampleThere, runnerVars
  <2>5. NumbersFit'
    <3>1. ASSUME done'[Server], request[Server].kind = "publish",
                 pc'[Server] # "stopped"
          PROVE  Names(db', number[Server], request[Server].job)
      <4>1. CASE p = Server
        BY <1>t, <2>1, <3>1, <4>1, PublishNames
      <4>2. CASE p # Server
        BY <1>0, <1>2, <2>2, <3>1, <4>2 DEF BenchmarkInv, NumbersFit
      <4> QED
        BY <4>1, <4>2
    <3> QED
      BY <1>0, <1>2, <2>1, <2>2, <3>1
         DEF BenchmarkInv, NumbersFit, serviceVars, runnerVars
  <2>6. RowFits'
    BY <1>0, <2>2 DEF BenchmarkInv, RowFits, runnerVars
  <2>7. TypeOK'
    BY <1>0, <1>1
       DEF BenchmarkInv, TypeOK, ServiceTypeOK, StoreInv, serviceVars, runnerVars
  <2> QED
    BY <1>1, <2>2, <2>3, <2>4, <2>5, <2>6, <2>7 DEF BenchmarkInv
<1>4. CASE ~Save(p)
  <2>1. db' = db /\ done' = done
    BY <1>0, <1>4 DEF UpdateStep, TakeLock, MkdirThrows, MutateCopy,
                      UpdateThrows, ReleaseLock
  <2>2. done[p] => number'[p] = number[p]
    BY <1>0, <1>4, <1>t
       DEF UpdateStep, TakeLock, MkdirThrows, MutateCopy, UpdateThrows,
           ReleaseLock, BenchmarkInv, StoreInv, AskedAndUndone
  <2>3. ToolFits' /\ AppendFits' /\ CapKept' /\ MarkFits' /\ HandlerHasAttempt'
    BY <1>0, <1>2 DEF BenchmarkInv, ToolFits, AppendFits, CapKept, MarkFits,
                     Engaged, HandlerHasAttempt, serviceVars, runnerVars
  <2>4. SampleThere' /\ Numbered(db)' /\ RowFits'
    BY <1>0, <1>2, <2>1
       DEF BenchmarkInv, SampleThere, Numbered, RowFits, runnerVars
  <2>5. NumbersFit'
    BY <1>0, <1>2, <2>1, <2>2
       DEF BenchmarkInv, NumbersFit, serviceVars, runnerVars
  <2>6. TypeOK'
    BY <1>0, <1>1
       DEF BenchmarkInv, TypeOK, ServiceTypeOK, StoreInv, serviceVars, runnerVars
  <2> QED
    BY <1>1, <2>3, <2>4, <2>5, <2>6 DEF BenchmarkInv
<1> QED
  BY <1>3, <1>4

-----------------------------------------------------------------------------
\* Steps of main and the end of the service.

LEMMA MainFrame ==
  ASSUME BenchmarkInv, UNCHANGED <<storeVars, serviceVars, work, post, mayHappen>>,
         run' \in {"running", "stopping", "aborting", "finished", "aborted"}
  PROVE  BenchmarkInv'
<1>1. StoreInv'
  BY StoreStepInv DEF BenchmarkInv
<1>2. TypeOK'
  BY <1>1 DEF BenchmarkInv, TypeOK, ServiceTypeOK, StoreInv, serviceVars
<1>3. /\ HandlerHasAttempt' /\ ToolFits' /\ AppendFits' /\ SampleThere'
      /\ Numbered(db)' /\ NumbersFit' /\ CapKept' /\ MarkFits' /\ RowFits'
  BY DEF BenchmarkInv, storeVars, serviceVars, HandlerHasAttempt, ToolFits,
         AppendFits, SampleThere, Numbered, NumbersFit, CapKept, MarkFits,
         Engaged, RowFits
<1> QED
  BY <1>1, <1>2, <1>3 DEF BenchmarkInv

LEMMA ExitKeepsInv ==
  ASSUME BenchmarkInv, ServerExits, UNCHANGED <<runnerVars, mayHappen>>
  PROVE  BenchmarkInv'
<1>0. /\ Server \in Processes /\ Runner \in Processes /\ Runner # Server
      /\ pc \in [Processes -> Stages] /\ done \in [Processes -> BOOLEAN]
      /\ request \in [Processes -> Request \cup {NoRequest}]
  BY BenchmarkAssumption DEF BenchmarkInv, TypeOK, StoreTypeOK
<1>1. StoreInv'
  BY <1>0, StoreStepInv DEF BenchmarkInv, StoreNext, ServerExits
<1>2. /\ pc'[Server] = "stopped" /\ db' = db
      /\ pc'[Runner] = pc[Runner] /\ request'[Runner] = request[Runner]
      /\ done'[Runner] = done[Runner]
  BY <1>0 DEF ServerExits, StopProcess
<1>3. IdleHandler \in Handler
  BY ServiceAssumption DEF IdleHandler, Handler, HandlerStages, Terminals
<1>4. TypeOK'
  BY <1>1, <1>3 DEF BenchmarkInv, TypeOK, ServiceTypeOK, StoreInv, ServerExits,
                   ToolCall, runnerVars
<1>5. HandlerHasAttempt' /\ ToolFits' /\ NumbersFit' /\ MarkFits' /\ CapKept'
  BY <1>2 DEF BenchmarkInv, ServerExits, HandlerHasAttempt, ToolFits, NumbersFit,
              MarkFits, CapKept, IdleHandler, runnerVars
<1>6. AppendFits' /\ SampleThere' /\ Numbered(db)' /\ RowFits'
  BY <1>2 DEF BenchmarkInv, AppendFits, SampleThere, Numbered, RowFits, runnerVars
<1> QED
  BY <1>1, <1>4, <1>5, <1>6 DEF BenchmarkInv

LEMMA MainKeepsInv ==
  ASSUME BenchmarkInv, MainStep \/ Crash
  PROVE  BenchmarkInv'
<1>1. CASE StopServer \/ ServerCrashes
  BY <1>1, ExitKeepsInv DEF MainStep, Crash, StopServer, ServerCrashes, StartServer,
                            AllRowsMade, RunnerExits
<1>2. CASE StartServer \/ AllRowsMade \/ RunnerExits
  BY <1>2, MainFrame DEF MainStep, Crash, StartServer, AllRowsMade, RunnerExits,
                         ServerCrashes, StopServer
<1> QED
  BY <1>1, <1>2 DEF MainStep, Crash

-----------------------------------------------------------------------------
\* Steps of the workers.

SampleOf(j) == [kind |-> "sample", job |-> j]

\* What is asked of what a worker knows of its job, with the request it has out.
WorkFits(j, w, p) ==
  /\ w.stage \in {"delivering", "polling"} => j \in db.samples
  /\ p # "none" => w.stage = "delivering"
  /\ w.last.change # 0 => Names(db, w.last.change, j)
  /\ w.stage \in {"todo", "appending"} => attempt[j].attempts = 0
  /\ p = "sent" => attempt[j].attempts < MaxAttempts
  /\ w.row.change # 0 =>
       \E v \in Verdicts :
         Made(db, w.row.change, j, v) /\ w.row.status = CheckStatus(v)

LEMMA WorkFitsHere ==
  ASSUME BenchmarkInv, NEW j \in Jobs
  PROVE  WorkFits(j, work[j], post[j])
BY DEF BenchmarkInv, WorkFits, SampleThere, NumbersFit, CapKept, RowFits

LEMMA WorkFrame ==
  ASSUME BenchmarkInv, NEW j \in Jobs, NEW w \in Work,
         NEW p \in {"none", "sent", "accepted", "refused"},
         \/ UNCHANGED storeVars
         \/ Begin(Runner, SampleOf(j)) \/ Return(Runner),
         work' = [work EXCEPT ![j] = w], post' = [post EXCEPT ![j] = p],
         run' = run \/ run' = "aborting",
         UNCHANGED <<serviceVars, mayHappen>>,
         WorkFits(j, w, p), AppendFits'
  PROVE  BenchmarkInv'
<1>0. Server \in Processes /\ Runner \in Processes /\ Runner # Server
  BY BenchmarkAssumption
<1>1. SampleOf(j) \in Request
  BY DEF Request, SampleOf
<1>2. StoreInv'
  BY <1>0, <1>1, StoreStepInv DEF BenchmarkInv, StoreNext
<1>3. /\ db' = db /\ pc'[Server] = pc[Server]
      /\ request'[Server] = request[Server]
      /\ done'[Server] = done[Server] /\ number'[Server] = number[Server]
      /\ done'[Runner] => UNCHANGED <<request, done>>
  BY <1>0 DEF BenchmarkInv, TypeOK, StoreTypeOK, storeVars, Begin, Return
<1>4. TypeOK'
  BY <1>2 DEF BenchmarkInv, TypeOK, ServiceTypeOK, StoreInv, serviceVars
<1>5. \A k \in Jobs : WorkFits(k, work'[k], post'[k])
  BY WorkFitsHere DEF BenchmarkInv, TypeOK
<1>6. SampleThere' /\ CapKept' /\ RowFits' /\ NumbersFit'
  BY <1>3, <1>5
     DEF BenchmarkInv, serviceVars, SampleThere, CapKept, RowFits, NumbersFit,
         WorkFits
<1>7. HandlerHasAttempt' /\ ToolFits' /\ Numbered(db)' /\ MarkFits'
  BY <1>3 DEF BenchmarkInv, serviceVars, HandlerHasAttempt, ToolFits, Numbered,
              MarkFits, Engaged
<1> QED
  BY <1>2, <1>4, <1>6, <1>7 DEF BenchmarkInv

LEMMA StageIs ==
  ASSUME NEW w \in Work, NEW stage \in WorkStages
  PROVE  /\ Stage(w, stage) \in Work /\ Stage(w, stage).stage = stage
         /\ Stage(w, stage).last = w.last /\ Stage(w, stage).row = w.row
BY DEF Stage, Work

LEMMA AcceptedIs ==
  ASSUME NEW w \in Work
  PROVE  /\ Accepted(w) \in Work /\ Accepted(w).stage = "polling"
         /\ Accepted(w).last = w.last /\ Accepted(w).row = w.row
<1>1. w.redeliveries + 1 \in Nat
  BY DEF Work
<1> QED
  BY <1>1 DEF Accepted, Work, WorkStages

LEMMA NotingIs ==
  ASSUME NEW w \in Work, NEW a \in Attempt, NEW stage \in WorkStages
  PROVE  /\ Noting(w, a, stage) \in Work /\ Noting(w, a, stage).stage = stage
         /\ Noting(w, a, stage).last.change = a.change
         /\ Noting(w, a, stage).row = w.row
<1>1. Seen(a) \in Sight /\ Seen(a).change = a.change
  BY DEF Seen, Sight, Attempt
<1> QED
  BY <1>1 DEF Noting, Work

LEMMA WithRowIs ==
  ASSUME NEW w \in Work, NEW row \in Row
  PROVE  /\ WithRow(w, row) \in Work /\ WithRow(w, row).stage = "done"
         /\ WithRow(w, row).last.change = 0 /\ WithRow(w, row).row = row
<1>1. Unseen \in Sight /\ Unseen.change = 0
  BY DEF Unseen, Sight, Statuses, Terminals
<1> QED
  BY <1>1 DEF WithRow, Work, WorkStages

\* A row made from a record whose change was made for the job.
LEMMA RowIsRight ==
  ASSUME Numbered(db), NEW j \in Jobs, NEW a, a.change \in Nat,
         a.status \in Statuses, a.terminal \in Terminals,
         a.change # 0 => Names(db, a.change, j)
  PROVE  /\ RowOf(a) \in Row
         /\ RowOf(a).change # 0 =>
              \E v \in Verdicts :
                /\ Made(db, RowOf(a).change, j, v)
                /\ RowOf(a).status = CheckStatus(v)
<1>0. RowOf(a).change = a.change /\ RowOf(a).status = RowStatus(a)
  BY DEF RowOf
<1>1. CASE a.change # 0
  <2>1. PICK c \in db.changes :
          c.number = a.change /\ c.job = j /\ c.verdict \in Verdicts
    BY <1>1 DEF Names, Made
  <2>2. ChangesNumbered(db, a.change) = {c}
    BY <2>1 DEF ChangesNumbered, Numbered
  <2>3. RowStatus(a) = CheckStatus(c.verdict)
    BY <1>1, <2>2 DEF RowStatus
  <2>4. CheckStatus(c.verdict) \in RowStatuses
    BY <2>1 DEF CheckStatus, RowStatuses, Verdicts
  <2> QED
    BY <1>0, <2>1, <2>3, <2>4 DEF RowOf, Row, Made
<1>2. CASE a.change = 0
  <2>1. RowStatus(a) \in RowStatuses
    BY <1>2 DEF RowStatus, RowStatuses, Statuses, Terminals
  <2> QED
    BY <1>0, <1>2, <2>1 DEF RowOf, Row
<1> QED
  BY <1>1, <1>2

LEMMA WorkerKeepsInv ==
  ASSUME BenchmarkInv, NEW j \in Jobs, WorkerStep(j)
  PROVE  BenchmarkInv'
<1> DEFINE w == work[j]
           a == attempt[j]
<1>0. /\ w \in Work /\ a \in Attempt /\ work \in [Jobs -> Work]
      /\ post \in [Jobs -> {"none", "sent", "accepted", "refused"}]
      /\ Runner \in Processes /\ pc \in [Processes -> Stages]
      /\ request \in [Processes -> Request \cup {NoRequest}]
      /\ Numbered(db)
  BY BenchmarkAssumption
     DEF BenchmarkInv, TypeOK, ServiceTypeOK, StoreTypeOK
<1>1. WorkFits(j, w, post[j]) /\ UNCHANGED mayHappen
  BY WorkFitsHere DEF WorkerStep
<1>2. /\ w.last \in Sight /\ w.row \in Row /\ NoRow \in Row
      /\ a.change \in Nat /\ a.status \in Statuses /\ a.terminal \in Terminals
      /\ a.change # 0 => Names(db, a.change, j)
  BY <1>0 DEF BenchmarkInv, NumbersFit, Work, Attempt, NoRow, Row, RowStatuses
<1>3. \A stage \in WorkStages :
        /\ Stage(w, stage) \in Work /\ Stage(w, stage).stage = stage
        /\ Stage(w, stage).last = w.last /\ Stage(w, stage).row = w.row
  BY <1>0, StageIs
<1>s. {"todo", "appending", "delivering", "polling", "done", "failed"}
        = WorkStages
  BY DEF WorkStages
\* Only the job that appends has an update, and only while it appends.
<1>4. ASSUME pc[Runner] = "idle"
      PROVE  \A k \in Jobs : work[k].stage # "appending"
  BY <1>4 DEF BenchmarkInv, AppendFits
<1>5. ASSUME w.stage = "appending", Return(Runner)
      PROVE  \A k \in Jobs : work[k].stage = "appending" => k = j
  <2>1. ASSUME NEW k \in Jobs, work[k].stage = "appending"
        PROVE  request[Runner].job = k
    <3>1. request[Runner] = [kind |-> "sample", job |-> k]
      BY <2>1 DEF BenchmarkInv, AppendFits
    <3> QED
      BY <3>1
  <2> QED
    BY <1>5, <2>1
<1>6. ASSUME NEW v \in Work, NEW p \in {"none", "sent", "accepted", "refused"},
             v.stage # "appending",
             UNCHANGED storeVars, UNCHANGED serviceVars,
             work' = [work EXCEPT ![j] = v], post' = [post EXCEPT ![j] = p],
             run' = run \/ run' = "aborting", WorkFits(j, v, p)
      PROVE  BenchmarkInv'
  <2>1. AppendFits'
    BY <1>0, <1>6 DEF BenchmarkInv, AppendFits, storeVars
  <2> QED
    BY <1>1, <1>6, <2>1, WorkFrame
<1>7. ASSUME NEW row \in Row, MakeRow(j, row), Polling(j), UNCHANGED post,
             row.change # 0 =>
               \E v \in Verdicts :
                 Made(db, row.change, j, v) /\ row.status = CheckStatus(v)
      PROVE  BenchmarkInv'
  <2>1. /\ WithRow(w, row) \in Work /\ WithRow(w, row).stage = "done"
        /\ WithRow(w, row).last.change = 0 /\ WithRow(w, row).row = row
    BY <1>0, <1>7, WithRowIs
  <2>2. post[j] = "none" /\ post' = [post EXCEPT ![j] = "none"]
    BY <1>0, <1>1, <1>7 DEF WorkFits, Polling
  <2>3. WorkFits(j, WithRow(w, row), "none")
    BY <1>7, <2>1 DEF WorkFits
  <2> QED
    BY <1>6, <1>7, <2>1, <2>2, <2>3 DEF MakeRow, Polling
<1>8. CASE StartJob(j)
  <2>1. /\ Begin(Runner, SampleOf(j))
        /\ w.stage = "todo" /\ pc[Runner] = "idle"
        /\ work' = [work EXCEPT ![j] = Stage(w, "appending")]
        /\ post' = [post EXCEPT ![j] = post[j]]
        /\ UNCHANGED <<serviceVars, run>>
    BY <1>0, <1>8 DEF StartJob, SampleOf, NextJob, RunnerFree
  <2>2. Stage(w, "appending") \in Work /\ Stage(w, "appending").stage = "appending"
    BY <1>3, <1>s
  <2>3. AppendFits'
    BY <1>0, <1>4, <2>1, <2>2 DEF AppendFits, Begin, SampleOf
  <2>4. WorkFits(j, Stage(w, "appending"), post[j])
    BY <1>1, <1>3, <1>s, <2>1 DEF WorkFits
  <2> QED
    BY <1>0, <1>1, <2>1, <2>2, <2>3, <2>4, WorkFrame
<1>9. CASE BrokenFixture(j)
  <2>1. /\ Stage(w, "failed") \in Work /\ Stage(w, "failed").stage = "failed"
        /\ post' = [post EXCEPT ![j] = post[j]] /\ w.stage = "todo"
    BY <1>0, <1>3, <1>s, <1>9 DEF BrokenFixture, NextJob
  <2>2. WorkFits(j, Stage(w, "failed"), post[j])
    BY <1>1, <1>3, <1>s, <2>1 DEF WorkFits
  <2> QED
    BY <1>0, <1>6, <1>9, <2>1, <2>2 DEF BrokenFixture, Abandon
<1>10. CASE SampleAppended(j)
  <2>1. /\ Return(Runner) /\ w.stage = "appending" /\ done[Runner]
        /\ work' = [work EXCEPT ![j] = Stage(w, "delivering")]
        /\ post' = [post EXCEPT ![j] = "sent"]
        /\ UNCHANGED <<serviceVars, run>>
    BY <1>10 DEF SampleAppended
  <2>2. Stage(w, "delivering") \in Work /\ Stage(w, "delivering").stage = "delivering"
    BY <1>3, <1>s
  <2>3. AppendFits'
    BY <1>0, <1>5, <2>1, <2>2 DEF AppendFits
  <2>4. j \in db.samples
    BY <2>1 DEF BenchmarkInv, AppendFits, SampleThere
  <2>5. 0 < MaxAttempts
    BY ServiceAssumption
  <2>6. WorkFits(j, Stage(w, "delivering"), "sent")
    BY <1>1, <1>3, <1>s, <2>1, <2>4, <2>5 DEF WorkFits
  <2> QED
    BY <1>1, <2>1, <2>2, <2>3, <2>6, WorkFrame
<1>11. CASE AppendFails(j)
  <2>1. /\ Return(Runner) /\ w.stage = "appending"
        /\ work' = [work EXCEPT ![j] = Stage(w, "failed")]
        /\ post' = [post EXCEPT ![j] = post[j]]
        /\ run' = "aborting" /\ UNCHANGED serviceVars
    BY <1>0, <1>11 DEF AppendFails, Abandon
  <2>2. Stage(w, "failed") \in Work /\ Stage(w, "failed").stage = "failed"
    BY <1>3, <1>s
  <2>3. AppendFits'
    BY <1>0, <1>5, <2>1, <2>2 DEF AppendFits
  <2>4. WorkFits(j, Stage(w, "failed"), post[j])
    BY <1>1, <1>3, <1>s, <2>1 DEF WorkFits
  <2> QED
    BY <1>0, <1>1, <2>1, <2>2, <2>3, <2>4, WorkFrame
<1>12. CASE DeliveryAccepted(j)
  <2>1. /\ Accepted(w) \in Work /\ Accepted(w).stage = "polling"
        /\ Accepted(w).last = w.last /\ Accepted(w).row = w.row
    BY <1>0, AcceptedIs
  <2>2. w.stage = "delivering"
    BY <1>1, <1>12 DEF WorkFits, DeliveryAccepted
  <2>3. WorkFits(j, Accepted(w), "none")
    BY <1>1, <2>1, <2>2 DEF WorkFits
  <2> QED
    BY <1>6, <1>12, <2>1, <2>3 DEF DeliveryAccepted
<1>13. CASE DeliveryFails(j)
  <2>1. Stage(w, "failed") \in Work /\ Stage(w, "failed").stage = "failed"
    BY <1>3, <1>s
  <2>2. WorkFits(j, Stage(w, "failed"), "none")
    BY <1>1, <1>3, <1>s, <2>1 DEF WorkFits
  <2> QED
    BY <1>6, <1>13, <2>1, <2>2 DEF DeliveryFails, Abandon
<1>14. CASE PollPublished(j) \/ PollExhausted(j)
  <2>1. /\ RowOf(a) \in Row
        /\ RowOf(a).change # 0 =>
             \E v \in Verdicts :
               Made(db, RowOf(a).change, j, v) /\ RowOf(a).status = CheckStatus(v)
    BY <1>0, <1>2, RowIsRight
  <2> QED
    BY <1>7, <1>14, <2>1 DEF PollPublished, PollExhausted
<1>15. CASE PollUnobserved(j) \/ PollRedelivers(j)
  <2>1. PICK stage \in WorkStages, p \in {"none", "sent"} :
          /\ stage \in {"polling", "delivering"}
          /\ p = "sent" => stage = "delivering" /\ a.attempts < MaxAttempts
          /\ work' = [work EXCEPT ![j] = Noting(w, a, stage)]
          /\ post' = [post EXCEPT ![j] = p]
    <3>1. CASE PollUnobserved(j)
      <4>1. post[j] = "none"
        BY <1>1, <3>1 DEF WorkFits, PollUnobserved, Polling
      <4> QED
        BY <1>0, <1>s, <3>1, <4>1 DEF PollUnobserved
    <3>2. CASE PollRedelivers(j)
      <4>1. w.redeliveries \in Nat /\ a.attempts \in Nat /\ MaxAttempts \in Nat
        BY <1>0, ServiceAssumption DEF Work, Attempt
      <4>2. a.attempts < MaxAttempts
        BY <3>2, <4>1 DEF PollRedelivers
      <4> QED
        BY <1>0, <1>s, <3>2, <4>2 DEF PollRedelivers
    <3> QED
      BY <1>15, <3>1, <3>2
  <2>2. /\ Noting(w, a, stage) \in Work /\ Noting(w, a, stage).stage = stage
        /\ Noting(w, a, stage).last.change = a.change
        /\ Noting(w, a, stage).row = w.row
    BY <1>0, NotingIs
  <2>3. j \in db.samples
    BY <1>1, <1>15 DEF WorkFits, PollUnobserved, PollRedelivers, Polling
  <2>4. WorkFits(j, Noting(w, a, stage), p)
    BY <1>1, <1>2, <2>1, <2>2, <2>3 DEF WorkFits
  <2> QED
    BY <1>6, <1>15, <2>1, <2>2, <2>4 DEF PollUnobserved, PollRedelivers, Polling
<1>16. CASE DeadlinePasses(j)
  <2>1. CASE w.last = Unseen
    <3>1. /\ [NoRow EXCEPT !.status = "no_webhook_attempt"] \in Row
          /\ [NoRow EXCEPT !.status = "no_webhook_attempt"].change = 0
      BY DEF NoRow, Row, RowStatuses
    <3> QED
      BY <1>7, <1>16, <2>1, <3>1 DEF DeadlinePasses
  <2>2. CASE w.last # Unseen
    <3>1. /\ w.last.change \in Nat /\ w.last.status \in Statuses
          /\ w.last.terminal \in Terminals
          /\ w.last.change # 0 => Names(db, w.last.change, j)
      BY <1>1, <1>2 DEF Sight, WorkFits
    <3>2. /\ RowOf(w.last) \in Row
          /\ RowOf(w.last).change # 0 =>
               \E v \in Verdicts :
                 /\ Made(db, RowOf(w.last).change, j, v)
                 /\ RowOf(w.last).status = CheckStatus(v)
      BY <1>0, <3>1, RowIsRight
    <3> QED
      BY <1>7, <1>16, <2>2, <3>2 DEF DeadlinePasses
  <2> QED
    BY <2>1, <2>2
<1> QED
  BY <1>8, <1>9, <1>10, <1>11, <1>12, <1>13, <1>14, <1>15, <1>16 DEF WorkerStep

-----------------------------------------------------------------------------
\* The webhook.

\* A refusal finds the attempt engaged.
LEMMA RefusalIsJustified ==
  ASSUME BenchmarkInv, NEW j \in Jobs, post[j] = "sent", RefuseDelivery(j)
  PROVE  /\ Engaged(j)
         /\ j \in db.samples
<1>1. j \in db.samples
  BY DEF BenchmarkInv, SampleThere
<1>2. pc[Server] # "stopped" /\ handler[j].stage \notin {"observed", "dropped"}
  BY DEF RefuseDelivery, ServerFree
<1>3. attempt[j].attempts \in Nat /\ attempt[j].attempts + 1 <= MaxAttempts
  BY ServiceAssumption
     DEF BenchmarkInv, TypeOK, ServiceTypeOK, Attempt, CapKept
<1>m. JobFits(j, marked, attempt[j], handler[j])
  BY <1>2, MarkFitsIs DEF BenchmarkInv
<1>4. CASE j \in marked
  BY <1>1, <1>4, <1>m DEF JobFits, Engaged
<1>5. CASE SlotTaken(attempt[j])
  <2>1. attempt[j].attempts # 0
    BY <1>3, <1>5 DEF SlotTaken
  <2>2. attempt[j].change # 0 \/ attempt[j].status \in
          {"none", "running", "waiting", "completed"}
    BY <1>5 DEF SlotTaken, BenchmarkInv, TypeOK, ServiceTypeOK, Attempt, Statuses
  <2> QED
    BY <1>1, <1>2, <1>m, <2>1, <2>2 DEF JobFits, Engaged
<1> QED
  BY <1>1, <1>3, <1>4, <1>5 DEF RefuseDelivery, AttemptsLeft

LEMMA WebhookKeepsInv ==
  ASSUME BenchmarkInv, NEW j \in Jobs, Webhook(j)
  PROVE  BenchmarkInv'
<1>0. /\ attempt \in [Jobs -> Attempt] /\ handler \in [Jobs -> Handler]
      /\ post \in [Jobs -> {"none", "sent", "accepted", "refused"}]
      /\ marked \subseteq Jobs
      /\ post[j] = "sent" /\ UNCHANGED <<storeVars, live, tool, work, run, mayHappen>>
  BY DEF BenchmarkInv, TypeOK, ServiceTypeOK, Webhook, Receive, AcceptDelivery,
         RefuseDelivery
<1>1. /\ work[j].stage = "delivering"
      /\ attempt[j].attempts < MaxAttempts
  BY <1>0 DEF BenchmarkInv, SampleThere, CapKept
<1>2. StoreInv'
  BY <1>0, StoreStepInv DEF BenchmarkInv
<1>3. /\ ToolFits' /\ AppendFits' /\ Numbered(db)' /\ RowFits'
  BY <1>0 DEF BenchmarkInv, storeVars, ToolFits, AppendFits, Numbered, RowFits
<1>4. CASE RefuseDelivery(j) /\ post' = [post EXCEPT ![j] = "refused"]
  <2>1. Engaged(j) /\ j \in db.samples
    BY <1>0, <1>4, RefusalIsJustified
  <2>2. marked' = marked \cup {j} /\ UNCHANGED <<attempt, handler>>
    BY <1>4, <2>1 DEF RefuseDelivery
  <2>3. TypeOK'
    BY <1>0, <1>2, <1>4, <2>2
       DEF BenchmarkInv, TypeOK, ServiceTypeOK, StoreInv
  <2>4. HandlerHasAttempt' /\ SampleThere' /\ NumbersFit' /\ CapKept' /\ MarkFits'
    BY <1>0, <1>1, <1>4, <2>1, <2>2
       DEF BenchmarkInv, storeVars, HandlerHasAttempt, SampleThere, NumbersFit,
           CapKept, MarkFits, Engaged
  <2> QED
    BY <1>2, <1>3, <2>3, <2>4 DEF BenchmarkInv
<1>5. CASE AcceptDelivery(j) /\ post' = [post EXCEPT ![j] = "accepted"]
  <2> DEFINE b == NextAttempt(attempt[j])
             h == [IdleHandler EXCEPT !.stage = "sending"]
  <2>1. /\ b \in Attempt /\ b.attempts = attempt[j].attempts + 1 /\ b.change = 0
        /\ b.status = "none"
    BY <1>0, <1>1, NextAttemptIs
       DEF NextAttempt, NoAttempt
  <2>2. h \in Handler /\ h.stage = "sending"
    BY ServiceAssumption DEF IdleHandler, Handler, HandlerStages, Terminals
  <2>3. /\ marked' = marked \cup {j}
        /\ attempt' = [attempt EXCEPT ![j] = b]
        /\ handler' = [handler EXCEPT ![j] = h]
    BY <1>5 DEF AcceptDelivery
  <2>4. b.attempts # 0
    BY <1>0, <2>1 DEF Attempt
  <2> HIDE DEF b, h
  <2>5. TypeOK'
    BY <1>0, <1>2, <1>5, <2>1, <2>2, <2>3
       DEF BenchmarkInv, TypeOK, ServiceTypeOK, StoreInv
  <2>6. HandlerHasAttempt' /\ SampleThere' /\ CapKept'
    BY <1>0, <1>1, <1>5, <2>2, <2>3, <2>4
       DEF BenchmarkInv, storeVars, HandlerHasAttempt, SampleThere, CapKept
  <2>7. NumbersFit'
    BY <1>0, <2>1, <2>3 DEF BenchmarkInv, storeVars, NumbersFit
  <2>8. MarkFits'
    BY <1>0, <2>1, <2>2, <2>3
       DEF BenchmarkInv, storeVars, MarkFits, Engaged
  <2> QED
    BY <1>2, <1>3, <2>5, <2>6, <2>7, <2>8 DEF BenchmarkInv
<1> QED
  BY <1>4, <1>5 DEF Webhook, Receive

-----------------------------------------------------------------------------
\* The invariant and what follows from it.

LEMMA InitEstablishesInv == Init => BenchmarkInv
<1> SUFFICES ASSUME Init PROVE BenchmarkInv
  OBVIOUS
<1>1. StoreInv
  BY StoreInitInv DEF Init
<1>2. /\ NoAttempt \in Attempt /\ NoAttempt.attempts = 0
      /\ NoAttempt.status = "none" /\ NoAttempt.change = 0
  BY ServiceAssumption DEF NoAttempt, Attempt, Statuses, Terminals
<1>3. IdleHandler \in Handler /\ IdleHandler.stage = "idle"
  BY ServiceAssumption DEF IdleHandler, Handler, HandlerStages, Terminals
<1>4. /\ NewWork \in Work /\ NewWork.stage = "todo"
      /\ NewWork.last.change = 0 /\ NewWork.row.change = 0
  BY DEF NewWork, Work, WorkStages, Unseen, Sight, Statuses, Terminals, NoRow,
         Row, RowStatuses
<1>5. Server \in Processes /\ Runner \in Processes
  BY BenchmarkAssumption
<1>6. TypeOK
  BY <1>1, <1>2, <1>3, <1>4
     DEF Init, ServiceInit, TypeOK, ServiceTypeOK, StoreInv, ToolCall
<1>7. HandlerHasAttempt /\ ToolFits /\ CapKept /\ MarkFits
  BY <1>2, <1>3, <1>4, <1>5
     DEF Init, ServiceInit, StoreInit, HandlerHasAttempt, ToolFits, CapKept,
         MarkFits
<1>8. AppendFits /\ SampleThere /\ NumbersFit /\ RowFits
  BY <1>2, <1>4, <1>5
     DEF Init, ServiceInit, StoreInit, AppendFits, SampleThere, NumbersFit,
         RowFits
<1>9. Numbered(db)
  BY DEF Init, StoreInit, EmptyDb, Numbered
<1> QED
  BY <1>1, <1>6, <1>7, <1>8, <1>9 DEF BenchmarkInv

LEMMA NextKeepsInv == BenchmarkInv /\ [Next]_vars => BenchmarkInv'
<1> SUFFICES ASSUME BenchmarkInv, [Next]_vars PROVE BenchmarkInv'
  OBVIOUS
<1>1. CASE UNCHANGED vars
  <2>1. run' \in {"running", "stopping", "aborting", "finished", "aborted"}
        \/ run' = "starting"
    BY <1>1 DEF vars, runnerVars, BenchmarkInv, TypeOK
  <2>2. StoreInv'
    BY <1>1, StoreStepInv DEF BenchmarkInv, vars
  <2>3. TypeOK'
    BY <1>1, <2>2 DEF BenchmarkInv, TypeOK, ServiceTypeOK, StoreInv, vars,
                      serviceVars, runnerVars
  <2> QED
    BY <1>1, <2>2, <2>3
       DEF vars, storeVars, serviceVars, runnerVars, BenchmarkInv,
           HandlerHasAttempt, ToolFits, AppendFits, SampleThere, Numbered,
           NumbersFit, CapKept, MarkFits, Engaged, RowFits
<1>2. CASE MainStep \/ Crash
  BY <1>2, MainKeepsInv
<1>3. CASE Tool
  BY <1>3, ToolKeepsInv
<1>4. CASE \E j \in Jobs : WorkerStep(j) \/ Webhook(j) \/ ServiceStep(j)
  BY <1>4, WorkerKeepsInv, WebhookKeepsInv, HandlerKeepsInv
<1>5. CASE \E p \in Processes : Update(p)
  BY <1>5, UpdateKeepsInv
<1>6. CASE \E s \in live : ToolCalled(s)
  BY <1>6, ToolCallKeepsInv
<1> QED
  BY <1>1, <1>2, <1>3, <1>4, <1>5, <1>6 DEF Next

LEMMA BenchmarkInvariant == Spec => []BenchmarkInv
BY InitEstablishesInv, NextKeepsInv, PTL DEF Spec

\* The two state files, the requests and the workers stay well-formed.
THEOREM BenchmarkTypeInvariant == Spec => []TypeOK
BY BenchmarkInvariant, PTL DEF BenchmarkInv

\* A webhook is sent only for a commit whose sample is in the file, whatever
\* else is written to it (appendSimulatorSample, readSample).
THEOREM PostsHaveSamples == Spec => []EveryPostHasItsSample
<1>1. BenchmarkInv => EveryPostHasItsSample
  BY DEF BenchmarkInv, SampleThere, EveryPostHasItsSample
<1> QED
  BY <1>1, BenchmarkInvariant, PTL

\* A row names a change of its own job and what its checks came to, for any
\* number of jobs and workers (classifyBenchmarkStatus).
THEOREM RowsNameTheirChange == Spec => []RowNamesItsOwnChange
<1>1. ASSUME BenchmarkInv PROVE RowNamesItsOwnChange
  <2>1. SUFFICES ASSUME NEW j \in Jobs, work[j].row.change # 0
                 PROVE  \E c \in db.changes :
                          /\ ChangesNumbered(db, work[j].row.change) = {c}
                          /\ c.job = j
                          /\ work[j].row.status = CheckStatus(c.verdict)
    BY DEF RowNamesItsOwnChange
  <2>2. PICK v \in Verdicts : /\ Made(db, work[j].row.change, j, v)
                              /\ work[j].row.status = CheckStatus(v)
    BY <1>1, <2>1 DEF BenchmarkInv, RowFits
  <2>3. PICK c \in db.changes :
          c.number = work[j].row.change /\ c.job = j /\ c.verdict = v
    BY <2>2 DEF Made
  <2>4. ChangesNumbered(db, work[j].row.change) = {c}
    BY <1>1, <2>3 DEF BenchmarkInv, Numbered, ChangesNumbered
  <2> QED
    BY <2>2, <2>3, <2>4
<1> QED
  BY <1>1, BenchmarkInvariant, PTL

\* A refused webhook never ends the benchmark for an attempt that has not acted
\* and is not under way (waitForRepairResult against claimRepairSlot).
THEOREM RefusalsAreJustified == Spec => RefusedOnlyIfActed
<1> DEFINE Justified ==
      \A j \in Jobs :
        post[j] = "sent" /\ post'[j] = "refused" =>
          \/ handler[j].stage # "idle"
          \/ attempt[j].terminal # "none" \/ attempt[j].change # 0
          \/ attempt[j].status = "running"
<1>1. BenchmarkInv /\ [Next]_vars => [Justified]_vars
  <2> SUFFICES ASSUME BenchmarkInv, Next, NEW j \in Jobs,
                      post[j] = "sent", post'[j] = "refused"
               PROVE  Engaged(j)
    BY DEF Engaged
  <2>1. post \in [Jobs -> {"none", "sent", "accepted", "refused"}]
    BY DEF BenchmarkInv, TypeOK
  <2>2. post' # post
    OBVIOUS
  <2>3. PICK k \in Jobs : WorkerStep(k) \/ Webhook(k)
    BY <2>2 DEF Next, MainStep, StartServer, AllRowsMade, StopServer, RunnerExits,
                Crash, ServerCrashes, Tool, ServiceStep, Update, ToolCalled,
                runnerVars
  <2>4. CASE WorkerStep(k)
    BY <2>1, <2>4
       DEF WorkerStep, StartJob, BrokenFixture, SampleAppended, AppendFails,
           DeliveryAccepted, DeliveryFails, PollPublished, PollUnobserved,
           PollExhausted, PollRedelivers, DeadlinePasses, Polling
  <2>5. CASE Webhook(k)
    <3>1. k = j /\ RefuseDelivery(k)
      BY <2>1, <2>5 DEF Webhook, Receive
    <3> QED
      BY <3>1, RefusalIsJustified
  <2> QED
    BY <2>3, <2>4, <2>5
<1> QED
  BY <1>1, BenchmarkInvariant, PTL DEF Spec, RefusedOnlyIfActed

\* What the two processes do to the file is what StoreNext allows.
LEMMA StoreSteps == BenchmarkInv /\ [Next]_vars => [StoreNext]_storeVars
<1> SUFFICES ASSUME BenchmarkInv, Next PROVE [StoreNext]_storeVars
  BY DEF vars
<1>0. /\ Server \in Processes /\ Runner \in Processes
      /\ \A j \in Jobs : [kind |-> "sample", job |-> j] \in Request
  BY BenchmarkAssumption DEF Request
<1>1. CASE MainStep \/ Crash
  BY <1>0, <1>1 DEF MainStep, StartServer, AllRowsMade, StopServer, RunnerExits,
                    Crash, ServerCrashes, ServerExits, StoreNext
<1>2. ASSUME NEW j \in Jobs, WorkerStep(j) PROVE [StoreNext]_storeVars
  BY <1>0, <1>2
     DEF WorkerStep, StartJob, BrokenFixture, SampleAppended, AppendFails,
         DeliveryAccepted, DeliveryFails, PollPublished, PollUnobserved,
         PollExhausted, PollRedelivers, DeadlinePasses, Polling, StoreNext
<1>3. ASSUME NEW j \in Jobs, Webhook(j) \/ ServiceStep(j)
      PROVE  UNCHANGED storeVars
  BY <1>3
     DEF Webhook, Receive, AcceptDelivery, RefuseDelivery, ServiceStep,
         HandlerStep, SendSucceeds, SendFailsRetryably, SendFails, TurnEnds,
         MonitorGivesUp, StreamEnds, RecordObservation, ContinueSession,
         RetrySession, ReleaseSession, SettleSession, ContinuationSucceeds,
         ContinuationFails
<1>4. ASSUME NEW p \in Processes, Update(p) PROVE StoreNext
  BY <1>4 DEF Update, StoreNext
<1>5. ASSUME NEW s \in live, ToolCalled(s) PROVE StoreNext
  <2>1. s \in Session /\ s.job \in Jobs /\ attempt[s.job].change \in Nat
    BY DEF BenchmarkInv, TypeOK, ServiceTypeOK, Session, Attempt
  <2>2. /\ \A v \in TriedVerdicts[s.job] :
             [kind |-> "publish", job |-> s.job, verdict |-> v] \in Request
        /\ [kind |-> "comment", job |-> s.job] \in Request
        /\ [kind |-> "rerun", job |-> s.job] \in Request
        /\ MergeRequest(s.job, attempt[s.job].change) \in Request
    BY <2>1, ServiceAssumption DEF Request, MergeRequest
  <2>3. \E r \in Request : Begin(Server, r)
    BY <1>5, <2>2 DEF ToolCalled, SessionStep, PublishFix, PostProviderComment,
                      RerunPipeline, MergeChange, BeginTool
  <2> QED
    BY <1>0, <2>3 DEF StoreNext
<1>6. CASE Tool
  <2>1. pc[Server] = "answered"
    BY <1>6 DEF Tool, ToolStep, FinishTool, MergeAtOnce, ToolFails
  <2>2. MergeRequest(tool.session.job, number[Server]) \in Request
    <3>1. tool.session.job \in Jobs
      BY <2>1 DEF BenchmarkInv, ToolFits, Session
    <3>2. number[Server] \in Nat
      BY <1>0 DEF BenchmarkInv, TypeOK, StoreTypeOK
    <3> QED
      BY <3>1, <3>2 DEF Request, MergeRequest
  <2> QED
    BY <1>0, <1>6, <2>2
       DEF Tool, ToolStep, FinishTool, MergeAtOnce, ToolFails, Record, StoreNext
<1> QED
  BY <1>1, <1>2, <1>3, <1>4, <1>5, <1>6 DEF Next

\* The benchmark and its service use the file as the provider promises, for any
\* number of jobs and however either of them ends.
THEOREM BenchmarkRefinesProvider == Spec => ImplementsSimulatedGitHub
<1>1. Init => Provider!Init
  BY InitRefined DEF Init
<1>2. BenchmarkInv /\ [Next]_vars => [Provider!Next]_Provider!vars
  BY StoreSteps, StoreStepRefined DEF BenchmarkInv
<1> QED
  BY <1>1, <1>2, BenchmarkInvariant, PTL
     DEF Spec, ImplementsSimulatedGitHub, Provider!Spec
=============================================================================
