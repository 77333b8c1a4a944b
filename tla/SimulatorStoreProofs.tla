------------------------- MODULE SimulatorStoreProofs -------------------------
(***************************************************************************)
(* The lock makes the read, the change and the replacement of the state    *)
(* file one step for everybody else, for any number of processes and any   *)
(* requests.                                                               *)
(***************************************************************************)
EXTENDS SimulatorStore, TLAPS

-----------------------------------------------------------------------------
\* What requests do to a state.

LEMMA ChangeMerged ==
  ASSUME NEW c \in Change
  PROVE  [c EXCEPT !.merged = TRUE] \in Change
BY DEF Change

LEMMA EffectType ==
  ASSUME NEW s \in Db, NEW r \in Request
  PROVE  Effect(s, r) \in Db
<1>1. /\ s.samples \subseteq Jobs /\ s.changes \subseteq Change /\ s.next \in Nat
      /\ r.job \in Jobs
  BY DEF Db, Request
<1>2. CASE r.kind = "sample"
  BY <1>1, <1>2 DEF Effect, WithSample, Db
<1>3. CASE r.kind = "publish"
  <2>1. r.verdict \in Verdicts
    BY <1>3 DEF Request
  <2>2. [number |-> s.next, job |-> r.job, verdict |-> r.verdict,
         merged |-> FALSE] \in Change
    BY <1>1, <2>1 DEF Change
  <2>3. Effect(s, r) = WithChange(s, r)
    BY <1>3 DEF Effect
  <2>4. ASSUME NEW n \in SUBSET Change, NEW k \in Nat
        PROVE  [s EXCEPT !.changes = n, !.next = k] \in Db
    BY DEF Db
  <2>5. s.changes \cup {[number |-> s.next, job |-> r.job, verdict |-> r.verdict,
                         merged |-> FALSE]} \in SUBSET Change
    BY <1>1, <2>2
  <2>6. s.next + 1 \in Nat
    BY <1>1
  <2> QED
    BY <2>3, <2>4, <2>5, <2>6 DEF WithChange
<1>4. CASE r.kind = "merge"
  <2>1. Effect(s, r) = WithMerge(s, r)
    BY <1>4 DEF Effect
  <2>2. {[c EXCEPT !.merged = TRUE] : c \in ChangesNumbered(s, r.number)}
          \subseteq Change
    BY <1>1, ChangeMerged DEF ChangesNumbered
  <2> QED
    BY <1>1, <2>1, <2>2 DEF WithMerge, Db
<1>5. CASE r.kind \notin {"sample", "publish", "merge"}
  BY <1>5 DEF Effect
<1> QED
  BY <1>2, <1>3, <1>4, <1>5

-----------------------------------------------------------------------------
\* The inductive invariant.

\* One process has the lock, and a lock that somebody has is there.
OneHolder ==
  /\ \A p \in Processes : Holds(p) => locked
  /\ \A p, q \in Processes : Holds(p) /\ Holds(q) => p = q

\* What is under way has been asked for and is not done.
AskedAndUndone ==
  \A p \in Processes :
    pc[p] \in {"waiting", "holding", "saving"} =>
      request[p] \in Request /\ ~done[p]

\* The copy about to be put in place is the file as it is now, changed.
CopyIsCurrent ==
  \A p \in Processes :
    pc[p] = "saving" =>
      /\ Accepts(db, request[p])
      /\ copy[p] = Effect(db, request[p])
      /\ number[p] = db.next

StoreInv == StoreTypeOK /\ OneHolder /\ AskedAndUndone /\ CopyIsCurrent

LEMMA EmptyDbType == EmptyDb \in Db
BY DEF EmptyDb, Db

LEMMA StoreInitInv == StoreInit => StoreInv
<1> SUFFICES ASSUME StoreInit PROVE StoreInv
  OBVIOUS
<1>1. StoreTypeOK
  BY EmptyDbType DEF StoreInit, StoreTypeOK, Stages
<1>2. OneHolder /\ AskedAndUndone /\ CopyIsCurrent
  BY DEF StoreInit, OneHolder, AskedAndUndone, CopyIsCurrent, Holds
<1> QED
  BY <1>1, <1>2 DEF StoreInv

\* Steps of a process that leave the file as it is.
LEMMA QuietStepInv ==
  ASSUME StoreInv, NEW p \in Processes,
         \/ \E r \in Request : Begin(p, r)
         \/ TakeLock(p) \/ MkdirThrows(p) \/ MutateCopy(p) \/ UpdateThrows(p)
         \/ ReleaseLock(p) \/ Return(p) \/ StopProcess(p)
  PROVE  StoreInv'
<1> USE DEF StoreInv, StoreTypeOK, OneHolder, AskedAndUndone, CopyIsCurrent,
            Holds, Stages
<1>n. db.next \in Nat
  BY DEF Db
<1>1. ASSUME NEW r \in Request, Begin(p, r) PROVE StoreInv'
  BY <1>1 DEF Begin
<1>2. ASSUME TakeLock(p) PROVE StoreInv'
  BY <1>2 DEF TakeLock
<1>3. ASSUME MkdirThrows(p) PROVE StoreInv'
  BY <1>3 DEF MkdirThrows
<1>4. ASSUME MutateCopy(p) PROVE StoreInv'
  <2>1. request[p] \in Request
    BY <1>4 DEF MutateCopy
  <2>2. Effect(db, request[p]) \in Db
    BY <2>1, EffectType
  <2> QED
    BY <1>4, <1>n, <2>1, <2>2 DEF MutateCopy
<1>5. ASSUME UpdateThrows(p) PROVE StoreInv'
  BY <1>5, EmptyDbType DEF UpdateThrows
<1>6. ASSUME ReleaseLock(p) PROVE StoreInv'
  BY <1>6 DEF ReleaseLock
<1>7. ASSUME Return(p) PROVE StoreInv'
  BY <1>7, StoreAssumption DEF Return
<1>8. ASSUME StopProcess(p) PROVE StoreInv'
  BY <1>8, EmptyDbType, StoreAssumption DEF StopProcess
<1> QED
  BY <1>1, <1>2, <1>3, <1>4, <1>5, <1>6, <1>7, <1>8

\* Nobody else has a copy when the file is replaced.
LEMMA SaveInv ==
  ASSUME StoreInv, NEW p \in Processes, Save(p)
  PROVE  StoreInv'
<1> USE DEF StoreInv, StoreTypeOK, OneHolder, AskedAndUndone, CopyIsCurrent,
            Holds, Stages
<1>1. \A q \in Processes : q # p => pc[q] # "saving"
  BY DEF Save
<1> QED
  BY EmptyDbType, <1>1 DEF Save

LEMMA StoreStepInv == StoreInv /\ [StoreNext]_storeVars => StoreInv'
<1> SUFFICES ASSUME StoreInv, [StoreNext]_storeVars PROVE StoreInv'
  OBVIOUS
<1>1. CASE UNCHANGED storeVars
  BY <1>1 DEF storeVars, StoreInv, StoreTypeOK, OneHolder, AskedAndUndone,
              CopyIsCurrent, Holds
<1>2. CASE StoreNext
  BY <1>2, QuietStepInv, SaveInv DEF StoreNext, UpdateStep
<1> QED
  BY <1>1, <1>2

LEMMA StoreIsInvariant == StoreSpec => []StoreInv
BY StoreInitInv, StoreStepInv, PTL DEF StoreSpec

\* The state file and all updates of it stay well-formed.
THEOREM StoreTypeInvariant == StoreSpec => []StoreTypeOK
BY StoreIsInvariant, PTL DEF StoreInv

\* Never two processes between mkdir and rmSync of the lock directory
\* (withSimulatorStateLock).
THEOREM LockIsExclusive == StoreSpec => []OneHolder
BY StoreIsInvariant, PTL DEF StoreInv

-----------------------------------------------------------------------------
\* The refinement.

LEMMA InitRefined == StoreInit => Provider!Init
BY DEF StoreInit, Provider!Init, Phase, Provider!EmptyDb, EmptyDb

\* A process that is not in p's update keeps its phase.
LEMMA PhaseOf ==
  ASSUME StoreTypeOK, NEW p \in Processes, NEW v, Phase(p)' = v,
         \A q \in Processes : q # p => pc'[q] = pc[q] /\ done'[q] = done[q]
  PROVE  [q \in Processes |-> Phase(q)]'
           = [[q \in Processes |-> Phase(q)] EXCEPT ![p] = v]
BY DEF Phase

LEMMA SameOperators ==
  /\ Provider!Request = Request
  /\ \A s, r : Provider!Accepts(s, r) = Accepts(s, r)
  /\ \A s, r : Provider!Effect(s, r) = Effect(s, r)
BY DEF Provider!Request, Request, Provider!Verdicts, Verdicts,
       Provider!Accepts, Accepts, Provider!Effect, Effect,
       Provider!WithSample, WithSample, Provider!WithChange, WithChange,
       Provider!WithMerge, WithMerge, Provider!ChangesNumbered, ChangesNumbered

LEMMA StepRefined ==
  ASSUME StoreInv, NEW p \in Processes,
         \/ UpdateStep(p) \/ Return(p) \/ StopProcess(p)
         \/ \E r \in Request : Begin(p, r)
  PROVE  [Provider!Next]_Provider!vars
<1> USE DEF StoreInv, StoreTypeOK
<1> DEFINE phase == [q \in Processes |-> Phase(q)]
<1>u. ASSUME UNCHANGED <<db, request>>, Phase(p)' = Phase(p),
             \A q \in Processes : q # p => pc'[q] = pc[q] /\ done'[q] = done[q]
      PROVE  UNCHANGED Provider!vars
  BY <1>u DEF Phase, Provider!vars
<1>1. ASSUME NEW r \in Request, Begin(p, r) PROVE Provider!Ask(p)
  <2>1. Phase(p)' = "asked" /\ Phase(p) \in {"idle", "performed", "refused"}
    BY <1>1 DEF Begin, Phase
  <2>2. phase' = [phase EXCEPT ![p] = "asked"]
    BY <1>1, <2>1, PhaseOf DEF Begin
  <2> QED
    BY <1>1, <2>1, <2>2, SameOperators DEF Begin, Provider!Ask
<1>2. ASSUME TakeLock(p) \/ MutateCopy(p) \/ ReleaseLock(p)
      PROVE  UNCHANGED Provider!vars
  BY <1>2, <1>u DEF TakeLock, MutateCopy, ReleaseLock, Phase
<1>3. ASSUME MkdirThrows(p) \/ UpdateThrows(p) PROVE Provider!Refuse(p)
  <2>1. Phase(p)' = "refused" /\ Phase(p) = "asked"
    BY <1>3 DEF MkdirThrows, UpdateThrows, Phase, AskedAndUndone
  <2>2. phase' = [phase EXCEPT ![p] = "refused"]
    BY <1>3, <2>1, PhaseOf DEF MkdirThrows, UpdateThrows
  <2> QED
    BY <1>3, <2>1, <2>2 DEF MkdirThrows, UpdateThrows, Provider!Refuse
<1>4. ASSUME Save(p) PROVE Provider!Perform(p)
  <2>1. Phase(p)' = "performed" /\ Phase(p) = "asked"
    BY <1>4 DEF Save, Phase
  <2>2. phase' = [phase EXCEPT ![p] = "performed"]
    BY <1>4, <2>1, PhaseOf DEF Save
  <2>3. db' = Effect(db, request[p]) /\ Accepts(db, request[p])
    BY <1>4 DEF Save, CopyIsCurrent
  <2> QED
    BY <1>4, <2>1, <2>2, <2>3, SameOperators DEF Save, Provider!Perform
<1>5. ASSUME Return(p) PROVE Provider!Answer(p)
  <2>1. Phase(p)' = "idle" /\ Phase(p) \in {"performed", "refused"}
    BY <1>5 DEF Return, Phase
  <2>2. phase' = [phase EXCEPT ![p] = "idle"]
    BY <1>5, <2>1, PhaseOf DEF Return
  <2> QED
    BY <1>5, <2>1, <2>2 DEF Return, Provider!Answer
<1>6. ASSUME StopProcess(p) PROVE Provider!Stop(p)
  <2>1. Phase(p)' = "stopped"
    BY <1>6 DEF StopProcess, Phase
  <2>2. phase' = [phase EXCEPT ![p] = "stopped"]
    BY <1>6, <2>1, PhaseOf DEF StopProcess
  <2> QED
    BY <1>6, <2>1, <2>2 DEF StopProcess, Provider!Stop
<1> QED
  BY <1>1, <1>2, <1>3, <1>4, <1>5, <1>6 DEF UpdateStep, Provider!Next

\* A step of the store is a step of the provider, or none it can see.
LEMMA StoreStepRefined ==
  StoreInv /\ [StoreNext]_storeVars => [Provider!Next]_Provider!vars
<1> SUFFICES ASSUME StoreInv, [StoreNext]_storeVars
             PROVE  [Provider!Next]_Provider!vars
  OBVIOUS
<1>1. CASE UNCHANGED storeVars
  BY <1>1 DEF storeVars, Provider!vars, Phase
<1>2. CASE StoreNext
  BY <1>2, StepRefined DEF StoreNext
<1> QED
  BY <1>1, <1>2

\* No update is lost or half done, whichever processes share the file, whatever
\* they ask for and wherever they are stopped: the store implements
\* SimulatedGitHub.
THEOREM StoreRefinesProvider == StoreSpec => ImplementsSimulatedGitHub
BY StoreIsInvariant, InitRefined, StoreStepRefined, PTL
   DEF StoreSpec, ImplementsSimulatedGitHub, Provider!Spec

=============================================================================
