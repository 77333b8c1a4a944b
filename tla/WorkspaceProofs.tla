--------------------------- MODULE WorkspaceProofs ---------------------------
(***************************************************************************)
(* Proofs about Workspace, for any number of calls, any files and policy   *)
(* and any faults.                                                         *)
(***************************************************************************)
EXTENDS Workspace, TLAPS

\* What a write makes of a tree is a tree.
LEMMA WithType ==
  ASSUME NEW t \in Tree, NEW f \in Files, NEW x \in Content
  PROVE  With(t, f, x) \in Tree
BY DEF With, Tree

\* An edit makes content of content.
LEMMA EditedType ==
  ASSUME NEW x \in Content, NEW c \in Calls
  PROVE  Edited(x, c) \in Content
BY DEF Edited, Content

\* The trees that the module names are trees, and so is any tree a few files of
\* which are removed or written.
LEMMA TreeTypes ==
  ASSUME TypeOK, NEW c \in Calls
  PROVE  /\ Absent \in Content /\ Original \in Content
         /\ EmptyTree \in Tree
         /\ \A s \in SUBSET Files : Without(s) \in Tree /\ WrittenBy(c, s) \in Tree
<1>1. Absent \in Content /\ Original \in Content
  BY DEF Absent, Original, Content
<1>2. EmptyTree \in Tree
  BY <1>1 DEF EmptyTree, Tree
<1>3. ASSUME NEW s \in SUBSET Files
      PROVE  Without(s) \in Tree /\ WrittenBy(c, s) \in Tree
  <2>1. tree \in [Files -> Content]
    BY DEF TypeOK, Tree
  <2>2. \A f \in Files : Edited(tree[f], c) \in Content
    BY <2>1, EditedType
  <2> QED
    BY <2>1, <2>2, <1>1 DEF Without, WrittenBy, Tree
<1> QED
  BY <1>1, <1>2, <1>3

\* The initial state is well typed.
LEMMA InitType == WorkspaceAssumption /\ Init => TypeOK
<1> SUFFICES ASSUME WorkspaceAssumption, Init PROVE TypeOK
  OBVIOUS
<1>1. EmptyTree \in Tree /\ Absent \in Content
  BY DEF EmptyTree, Absent, Tree, Content
<1>2. (CHOOSE f \in Files : TRUE) \in Files
  BY DEF WorkspaceAssumption
<1>3. file \in [Calls -> Files]
  BY <1>2 DEF Init
<1> QED
  BY <1>1, <1>3 DEF Init, TypeOK, Tools

\* Where a call goes from a point in flight.
LEMMA GotoType ==
  ASSUME TypeOK, NEW c \in Calls, NEW point \in InFlight \cup Ended, Goto(c, point)
  PROVE  /\ at' \in [Calls -> {"idle"} \cup InFlight \cup Ended]
         /\ at'[c] = point
         /\ \A d \in Calls : d # c => at'[d] = at[d]
BY DEF TypeOK, Goto

\* A staging keeps the types, and copies while a file is left to copy.
LEMMA StageType ==
  ASSUME WorkspaceAssumption, TypeOK, NEW c \in Calls, StageStep(c)
  PROVE  TypeOK'
<1> USE DEF sandbox, edits, publishing, history, InFlight, Staging, Ended, Fails
<1>1. CASE RemoveTree(c)
  <2>1. EmptyTree \in Tree
    BY TreeTypes
  <2>2. todo' \in [Calls -> SUBSET Files] /\ todo'[c] = Files
        /\ \A d \in Calls : d # c => todo'[d] = todo[d]
    BY <1>1 DEF RemoveTree, TypeOK
  <2>3. \A d \in Calls : at'[d] \in {"copy", "collect"} => todo'[d] # {}
    BY <1>1, <2>2, GotoType DEF RemoveTree, TypeOK, WorkspaceAssumption, Goto
  <2> QED
    BY <1>1, <2>1, <2>2, <2>3, GotoType DEF RemoveTree, TypeOK, Goto
<1>2. CASE RemovalFails(c)
  <2>1. tree' \in Tree /\ git' \in {"none", "init", "baseline"}
    BY <1>2, TreeTypes DEF RemovalFails, TypeOK
  <2> QED
    BY <1>2, <2>1 DEF RemovalFails, TypeOK, Goto
<1>3. CASE CopyFile(c)
  <2>1. PICK f \in todo[c] :
          /\ tree' = With(tree, f, Original)
          /\ todo' = [todo EXCEPT ![c] = @ \ {f}]
          /\ Goto(c, IF todo[c] = {f} THEN "init" ELSE "copy")
    BY <1>3 DEF CopyFile
  <2>2. f \in Files
    BY <2>1 DEF TypeOK
  <2>3. tree' \in Tree
    BY <2>1, <2>2, TreeTypes, WithType DEF TypeOK
  <2>4. todo' \in [Calls -> SUBSET Files] /\ todo'[c] = todo[c] \ {f}
        /\ \A d \in Calls : d # c => todo'[d] = todo[d]
    BY <2>1 DEF TypeOK
  <2>5. \A d \in Calls : at'[d] \in {"copy", "collect"} => todo'[d] # {}
    BY <2>1, <2>4 DEF TypeOK, Goto
  <2> QED
    BY <1>3, <2>1, <2>3, <2>4, <2>5 DEF CopyFile, TypeOK, Goto
<1>4. CASE InitRepository(c)
  BY <1>4 DEF InitRepository, TypeOK, Goto
<1>5. CASE CommitBaseline(c)
  BY <1>5 DEF CommitBaseline, TypeOK, Goto
<1>6. CASE WriteSnapshotMarker(c)
  BY <1>6 DEF WriteSnapshotMarker, TypeOK, Goto
<1>7. CASE RecordStaged(c)
  BY <1>7 DEF RecordStaged, TypeOK, Goto
<1>8. CASE StagingFails(c)
  BY <1>8 DEF StagingFails, TypeOK, Goto
<1> QED
  BY <1>1, <1>2, <1>3, <1>4, <1>5, <1>6, <1>7, <1>8 DEF StageStep

\* A verification keeps the types.
LEMMA VerifyType ==
  ASSUME TypeOK, NEW c \in Calls, VerifyStep(c)
  PROVE  TypeOK'
<1> USE DEF sandbox, edits, publishing, history, InFlight, Verifying, Publishing,
            Ended, Fails, AfterVerification
<1>1. CASE ApplyNetworkPolicy(c)
  BY <1>1 DEF ApplyNetworkPolicy, TypeOK, Goto
<1>2. CASE FallBackToAllowAll(c)
  BY <1>2 DEF FallBackToAllowAll, TypeOK, Goto
<1>3. CASE SkipVerification(c)
  BY <1>3 DEF SkipVerification, TypeOK, Goto
<1>4. CASE RunCommands(c)
  <2>1. tree' \in Tree
    BY <1>4, TreeTypes DEF RunCommands
  <2>2. verified' \in [Calls -> Tree]
    BY <1>4, <2>1 DEF RunCommands, TypeOK
  <2> QED
    BY <1>4, <2>1, <2>2 DEF RunCommands, TypeOK, Goto
<1>5. CASE RunnerThrows(c)
  BY <1>5 DEF RunnerThrows, TypeOK, Goto
<1>6. CASE RestoreDenyAll(c)
  BY <1>6 DEF RestoreDenyAll, TypeOK, Goto
<1>7. CASE RestoreFails(c)
  BY <1>7 DEF RestoreFails, TypeOK, Goto
<1> QED
  BY <1>1, <1>2, <1>3, <1>4, <1>5, <1>6, <1>7 DEF VerifyStep

\* A publish keeps the types, and collects while a file is left to read.
LEMMA PublishType ==
  ASSUME TypeOK, NEW c \in Calls, PublishStep(c)
  PROVE  TypeOK'
<1> USE DEF sandbox, edits, publishing, history, InFlight, Publishing, Ended, Fails
<1>1. CASE CollectStatus(c)
  <2>1. collected' \in [Calls -> Tree]
    BY <1>1, TreeTypes DEF CollectStatus, TypeOK
  <2>2. /\ changed' \in [Calls -> SUBSET Files] /\ todo' \in [Calls -> SUBSET Files]
        /\ at' \in [Calls -> {"idle"} \cup InFlight \cup Ended]
        /\ \A d \in Calls : at'[d] \in {"copy", "collect"} => todo'[d] # {}
    <3>1. StatusEntries \in SUBSET Files /\ Present(StatusEntries) \in SUBSET Files
      BY DEF StatusEntries, Present
    <3>2. CASE git = "none"
      BY <1>1, <3>2 DEF CollectStatus, TypeOK, Goto
    <3>3. CASE git # "none"
      <4>1. Report(c, StatusEntries)
        BY <1>1, <3>3 DEF CollectStatus
      <4>2. CASE StatusEntries \subseteq AllowedFiles
        <5>1. /\ changed' = [changed EXCEPT ![c] = StatusEntries]
              /\ todo' = [todo EXCEPT ![c] = Present(StatusEntries)]
              /\ Goto(c, IF StatusEntries = {} THEN "done"
                         ELSE IF Present(StatusEntries) = {} THEN "publish"
                         ELSE "collect")
          BY <4>1, <4>2 DEF Report
        <5>2. Present({}) = {}
          BY DEF Present
        <5> HIDE DEF Present
        <5> QED
          BY <5>1, <5>2, <3>1 DEF TypeOK, Goto
      <4>3. CASE ~(StatusEntries \subseteq AllowedFiles)
        BY <4>1, <4>3 DEF Report, TypeOK, Goto
      <4> QED
        BY <4>2, <4>3
    <3> QED
      BY <3>2, <3>3
  <2> QED
    BY <1>1, <2>1, <2>2 DEF CollectStatus, TypeOK
<1>2. CASE CollectFile(c)
  <2>1. PICK f \in todo[c] :
          IF tree[f].present THEN Collects(c, f)
                             ELSE Fails(c) /\ UNCHANGED <<collected, todo>>
    BY <1>2 DEF CollectFile
  <2>2. f \in Files
    BY <2>1 DEF TypeOK
  <2>3. CASE tree[f].present
    <3>1. /\ collected' = [collected EXCEPT ![c] = With(@, f, tree[f])]
          /\ todo' = [todo EXCEPT ![c] = @ \ {f}]
          /\ Goto(c, IF todo[c] = {f} THEN "publish" ELSE "collect")
      BY <2>1, <2>3 DEF Collects
    <3>2. tree[f] \in Content /\ collected[c] \in Tree
      BY <2>2 DEF TypeOK, Tree
    <3>3. collected' \in [Calls -> Tree]
      BY <3>1, <3>2, <2>2, WithType DEF TypeOK
    <3>4. todo' \in [Calls -> SUBSET Files] /\ todo'[c] = todo[c] \ {f}
          /\ \A d \in Calls : d # c => todo'[d] = todo[d]
      BY <3>1 DEF TypeOK
    <3>5. \A d \in Calls : at'[d] \in {"copy", "collect"} => todo'[d] # {}
      BY <3>1, <3>4 DEF TypeOK, Goto
    <3> QED
      BY <1>2, <3>1, <3>3, <3>4, <3>5 DEF CollectFile, TypeOK, Goto
  <2>4. CASE ~tree[f].present
    BY <1>2, <2>1, <2>4 DEF CollectFile, TypeOK, Goto
  <2> QED
    BY <2>3, <2>4
<1>3. CASE PublishFix(c)
  BY <1>3 DEF PublishFix, TypeOK, Goto
<1> QED
  BY <1>1, <1>2, <1>3 DEF PublishStep

\* Every step keeps the types.
LEMMA StepType == WorkspaceAssumption /\ TypeOK /\ [Next]_vars => TypeOK'
<1> SUFFICES ASSUME WorkspaceAssumption, TypeOK, [Next]_vars PROVE TypeOK'
  OBVIOUS
<1> USE DEF sandbox, edits, publishing, history
<1>1. ASSUME NEW c \in Calls, Begin(c) PROVE TypeOK'
  <2>1. PICK t \in Tools :
          /\ tool' = [tool EXCEPT ![c] = t]
          /\ file' \in IF t = "edit" THEN {[file EXCEPT ![c] = f] : f \in AllowedFiles}
                                     ELSE {file}
          /\ Goto(c, IF t = "stage" THEN "remove"
                     ELSE IF stagedAt THEN "guard" ELSE "failed")
    BY <1>1 DEF Begin
  <2>2. tool' \in [Calls -> Tools]
    BY <2>1 DEF TypeOK
  <2>3. file' \in [Calls -> Files]
    BY <2>1 DEF TypeOK, WorkspaceAssumption
  <2>4. overlap' \in [Calls -> SUBSET Calls]
    BY <1>1 DEF Begin, OverlapWith, UnderWay, TypeOK
  <2> QED
    BY <1>1, <2>1, <2>2, <2>3, <2>4 DEF Begin, TypeOK, Goto, InFlight, Staging, Ended
<1>2. ASSUME NEW c \in Calls, AssertSnapshotReady(c) PROVE TypeOK'
  BY <1>2 DEF AssertSnapshotReady, TypeOK, Goto, InFlight, Ended
<1>3. ASSUME NEW c \in Calls, ReadFile(c) PROVE TypeOK'
  <2>1. tree[file[c]] \in Content
    BY DEF TypeOK, Tree
  <2> QED
    BY <1>3, <2>1 DEF ReadFile, Fails, TypeOK, Goto, InFlight, Ended
<1>4. ASSUME NEW c \in Calls, WriteFile(c) PROVE TypeOK'
  <2>1. Edited(text[c], c) \in Content /\ file[c] \in Files
    BY EditedType DEF TypeOK
  <2>2. tree' \in Tree
    BY <1>4, <2>1, WithType DEF WriteFile, TypeOK
  <2> QED
    BY <1>4, <2>2 DEF WriteFile, TypeOK, Goto, InFlight, Ended
<1>5. ASSUME OtherSessions PROVE TypeOK'
  BY <1>5 DEF OtherSessions, TypeOK
<1>6. ASSUME Crash PROVE TypeOK'
  BY <1>6 DEF Crash, TypeOK, Ended
<1>7. ASSUME UNCHANGED vars PROVE TypeOK'
  BY <1>7 DEF vars, TypeOK
<1> QED
  BY <1>1, <1>2, <1>3, <1>4, <1>5, <1>6, <1>7, StageType, VerifyType,
     PublishType DEF Next

\* Every variable keeps its type, and a call that copies or collects files
\* always has one left, so that none of them is stuck (extractTarGzToSandbox,
\* collectSandboxChanges).
THEOREM TypeInvariant == Spec => []TypeOK
<1>1. WorkspaceAssumption
  BY WorkspaceAssumption
<1> QED
  BY <1>1, InitType, StepType, PTL DEF Spec

-----------------------------------------------------------------------------

\* A step of one call leaves the other calls where they are.
LEMMA Frame ==
  ASSUME TypeOK, NEW c \in Calls, NEW d \in Calls, c # d,
         \/ Begin(d) \/ AssertSnapshotReady(d)
         \/ StageStep(d) \/ ReadFile(d) \/ WriteFile(d)
         \/ VerifyStep(d) \/ PublishStep(d)
  PROVE  /\ at'[c] = at[c] /\ tool'[c] = tool[c] /\ file'[c] = file[c]
         /\ text'[c] = text[c] /\ todo'[c] = todo[c]
         /\ verified'[c] = verified[c] /\ changed'[c] = changed[c]
         /\ collected'[c] = collected[c]
<1> USE DEF TypeOK, Goto, Fails, edits, publishing
<1>1. CASE Begin(d)
  <2>1. PICK t \in Tools :
          /\ tool' = [tool EXCEPT ![d] = t]
          /\ file' \in IF t = "edit" THEN {[file EXCEPT ![d] = f] : f \in AllowedFiles}
                                     ELSE {file}
          /\ Goto(d, IF t = "stage" THEN "remove"
                     ELSE IF stagedAt THEN "guard" ELSE "failed")
    BY <1>1 DEF Begin
  <2>2. file'[c] = file[c]
    BY <2>1
  <2> QED
    BY <1>1, <2>1, <2>2 DEF Begin
<1>2. CASE AssertSnapshotReady(d) \/ ReadFile(d) \/ WriteFile(d)
  BY <1>2 DEF AssertSnapshotReady, ReadFile, WriteFile
<1>3. CASE StageStep(d)
  BY <1>3 DEF StageStep, RemoveTree, RemovalFails, CopyFile, InitRepository,
              CommitBaseline, WriteSnapshotMarker, RecordStaged, StagingFails
<1>4. CASE VerifyStep(d)
  BY <1>4 DEF VerifyStep, ApplyNetworkPolicy, FallBackToAllowAll,
              SkipVerification, RunCommands, RunnerThrows, RestoreDenyAll,
              RestoreFails, AfterVerification
<1>5. CASE PublishStep(d)
  BY <1>5 DEF PublishStep, CollectStatus, Report, CollectFile, Collects, PublishFix
<1> QED
  BY <1>1, <1>2, <1>3, <1>4, <1>5

-----------------------------------------------------------------------------

\* Only a verification touches the network, and it ends closing it or in
\* leftOpen.
LEMMA NetworkStep == TypeOK /\ ClosedWhenIdle /\ [Next]_vars => ClosedWhenIdle'
<1> SUFFICES ASSUME TypeOK, ClosedWhenIdle, [Next]_vars PROVE ClosedWhenIdle'
  OBVIOUS
<1> USE DEF ClosedWhenIdle, TypeOK, Goto, Fails, sandbox, history
<1>1. ASSUME NEW c \in Calls,
             \/ Begin(c) \/ AssertSnapshotReady(c) \/ StageStep(c)
             \/ ReadFile(c) \/ WriteFile(c) \/ PublishStep(c)
      PROVE  ClosedWhenIdle'
  <2>1. network' = network /\ leftOpen' = leftOpen /\ at[c] \notin Verifying
    BY <1>1 DEF Begin, AssertSnapshotReady, ReadFile, WriteFile, StageStep,
                RemoveTree, RemovalFails, CopyFile, InitRepository,
                CommitBaseline, WriteSnapshotMarker, RecordStaged, StagingFails,
                PublishStep, CollectStatus, CollectFile, PublishFix, At, Verifying
  <2>2. \A d \in Calls : at[d] \in Verifying => at'[d] = at[d]
    BY <1>1, <2>1, Frame
  <2> QED
    BY <2>1, <2>2
<1>2. ASSUME NEW c \in Calls, VerifyStep(c) PROVE ClosedWhenIdle'
  <2>1. \A d \in Calls : d # c => at'[d] = at[d]
    BY <1>2, Frame
  <2>2. CASE ApplyNetworkPolicy(c) \/ FallBackToAllowAll(c) \/ RunCommands(c)
             \/ RunnerThrows(c)
    <3>1. at'[c] \in Verifying
      BY <2>2 DEF ApplyNetworkPolicy, FallBackToAllowAll, RunCommands,
                  RunnerThrows, Verifying
    <3> QED
      BY <3>1
  <2>3. CASE SkipVerification(c)
    BY <2>1, <2>3 DEF SkipVerification, At, Verifying
  <2>4. CASE RestoreDenyAll(c)
    BY <2>4 DEF RestoreDenyAll
  <2>5. CASE RestoreFails(c)
    BY <2>5 DEF RestoreFails
  <2> QED
    BY <1>2, <2>2, <2>3, <2>4, <2>5 DEF VerifyStep
<1>3. CASE OtherSessions
  BY <1>3 DEF OtherSessions
<1>4. CASE Crash
  BY <1>4 DEF Crash
<1>5. CASE UNCHANGED vars
  BY <1>5 DEF vars
<1> QED
  BY <1>1, <1>2, <1>3, <1>4, <1>5 DEF Next

\* However many verifications overlap, the network is open only while one of
\* them is under way, or after one that ended without closing it
\* (runVerificationCommandsWithPolicy).
THEOREM NetworkIsClosed == Spec => []ClosedWhenIdle
<1>1. Init => ClosedWhenIdle
  BY DEF Init, ClosedWhenIdle
<1> QED
  BY <1>1, NetworkStep, TypeInvariant, PTL DEF Spec

-----------------------------------------------------------------------------
\* Calls that overlap.

CallStep(c) ==
  \/ Begin(c) \/ AssertSnapshotReady(c)
  \/ StageStep(c) \/ ReadFile(c) \/ WriteFile(c)
  \/ VerifyStep(c) \/ PublishStep(c)

\* Calls begin in order, and of two that are under way each has the other
\* beside it.
OverlapFits ==
  /\ \A c, d \in Calls : d < c /\ at[c] # "idle" =>
       /\ at[d] # "idle"
       /\ at[d] \in InFlight => c \in overlap[d] /\ d \in overlap[c]
  /\ \A c \in Calls, d \in Calls : d \in overlap[c] =>
       at[c] # "idle" /\ at[d] # "idle" /\ c \in overlap[d]

\* Files are removed as a whole, and each point belongs to the tools that
\* reach it.
PointsFit ==
  /\ \A f \in Files : tree[f].present \/ tree[f] = Absent
  /\ \A c \in Calls :
       /\ at[c] \in Staging => tool[c] = "stage"
       /\ at[c] \in {"read", "write"} => tool[c] = "edit"
       /\ at[c] \in {"apply"} \cup Verifying \cup Publishing => tool[c] # "edit"

Unwritten == {"idle", "guard", "read", "write", "apply", "run"}

\* Nobody has seen the write of a call that has not written.
WritesFit ==
  \A c \in Calls : at[c] \in Unwritten =>
    /\ \A f \in Files : c \notin tree[f].edits
    /\ \A d \in Calls : c \notin text[d].edits
    /\ \A d \in Calls, f \in Files : c \notin verified[d][f].edits

\* A call that is under way goes on, with the same calls beside it.
LEMMA UnderWayStep ==
  ASSUME NEW d \in Calls, CallStep(d), ~Begin(d)
  PROVE  at[d] \in InFlight /\ overlap' = overlap
BY DEF CallStep, AssertSnapshotReady, ReadFile, WriteFile, StageStep,
       RemoveTree, RemovalFails, CopyFile, InitRepository, CommitBaseline,
       WriteSnapshotMarker, RecordStaged, StagingFails, VerifyStep,
       ApplyNetworkPolicy, FallBackToAllowAll, SkipVerification, RunCommands,
       RunnerThrows, RestoreDenyAll, RestoreFails, PublishStep, CollectStatus,
       CollectFile, PublishFix, At, InFlight, Staging, Verifying, Publishing,
       history

\* A call that begins has those beside it that are under way.
LEMMA BeginStep ==
  ASSUME TypeOK, NEW d \in Calls, Begin(d)
  PROVE  /\ at[d] = "idle" /\ at'[d] \in {"remove", "guard", "failed"}
         /\ at'[d] = "remove" => tool'[d] = "stage"
         /\ at'[d] = "guard" => tool'[d] # "stage"
         /\ tree' = tree /\ text' = text /\ verified' = verified
         /\ overlap'[d] = UnderWay
         /\ \A c \in Calls : c # d =>
              overlap'[c] = IF at[c] \in InFlight THEN overlap[c] \cup {d}
                                                  ELSE overlap[c]
         /\ \A c \in Calls : c < d => at[c] # "idle"
BY DEF Begin, OverlapWith, UnderWay, At, Goto, TypeOK, sandbox, publishing

\* A call that is not idle never is again, and one that ended stays.
LEMMA Onward ==
  ASSUME TypeOK, NEW d \in Calls, CallStep(d)
  PROVE  /\ at'[d] # "idle" /\ at[d] \notin Ended
         /\ at[d] # "idle" => tool'[d] = tool[d] /\ file'[d] = file[d]
BY DEF CallStep, Begin, AssertSnapshotReady, ReadFile, WriteFile, StageStep,
       RemoveTree, RemovalFails, CopyFile, InitRepository, CommitBaseline,
       WriteSnapshotMarker, RecordStaged, StagingFails, VerifyStep,
       ApplyNetworkPolicy, FallBackToAllowAll, SkipVerification, RunCommands,
       RunnerThrows, RestoreDenyAll, RestoreFails, AfterVerification,
       PublishStep, CollectStatus, Report, CollectFile, Collects, PublishFix,
       At, Goto, Fails, TypeOK, Ended, Verifying, edits

\* Of two calls that are under way each has the other beside it.
LEMMA Together ==
  ASSUME WorkspaceAssumption, OverlapFits, NEW c \in Calls, NEW d \in Calls,
         c # d, at[c] \in InFlight, at[d] \in InFlight
  PROVE  c \in overlap[d] /\ d \in overlap[c]
<1>1. at[c] # "idle" /\ at[d] # "idle"
  BY DEF InFlight, Staging, Verifying, Publishing
<1>2. c < d \/ d < c
  BY DEF Calls, WorkspaceAssumption
<1> QED
  BY <1>1, <1>2 DEF OverlapFits

\* What is beside a call stays beside it, and goes on being of its tool.
LEMMA OverlapGrows ==
  ASSUME TypeOK, OverlapFits, NEW d \in Calls, CallStep(d), NEW c \in Calls
  PROVE  /\ overlap[c] \subseteq overlap'[c]
         /\ \A e \in overlap[c] : tool'[e] = tool[e] /\ file'[e] = file[e]
         /\ at[c] # "idle" => tool'[c] = tool[c] /\ at'[c] # "idle"
<1>1. overlap[c] \subseteq overlap'[c]
  <2>1. CASE Begin(d)
    <3>1. at[d] = "idle" /\ overlap[d] \subseteq Calls
      BY <2>1, BeginStep DEF TypeOK
    <3>2. overlap[d] = {}
      BY <3>1 DEF OverlapFits
    <3>3. ASSUME c # d PROVE overlap[c] \subseteq overlap'[c]
      <4>1. overlap'[c] = IF at[c] \in InFlight THEN overlap[c] \cup {d}
                                                ELSE overlap[c]
        BY <2>1, <3>3, BeginStep
      <4> QED
        BY <4>1
    <3> QED
      BY <3>2, <3>3
  <2>2. CASE ~Begin(d)
    BY <2>2, UnderWayStep
  <2> QED
    BY <2>1, <2>2
<1>2. ASSUME NEW e \in Calls, at[e] # "idle"
      PROVE  tool'[e] = tool[e] /\ file'[e] = file[e] /\ at'[e] # "idle"
  <2>1. CASE e = d
    BY <1>2, <2>1, Onward
  <2>2. CASE e # d
    BY <1>2, <2>2, Frame DEF CallStep
  <2> QED
    BY <2>1, <2>2
<1>3. overlap[c] \subseteq Calls /\ \A e \in overlap[c] : at[e] # "idle"
  BY DEF TypeOK, OverlapFits
<1> QED
  BY <1>1, <1>2, <1>3

\* Every step of a call keeps its neighbours right.
LEMMA OverlapStep ==
  ASSUME WorkspaceAssumption, TypeOK, OverlapFits, NEW d \in Calls, CallStep(d)
  PROVE  OverlapFits'
<1>1. \A c \in Calls : c # d => at'[c] = at[c]
  BY Frame DEF CallStep
<1>2. CASE Begin(d)
  <2>1. /\ at[d] = "idle" /\ at'[d] # "idle"
        /\ overlap'[d] = UnderWay
        /\ \A c \in Calls : c # d =>
             overlap'[c] = IF at[c] \in InFlight THEN overlap[c] \cup {d}
                                                 ELSE overlap[c]
        /\ \A c \in Calls : c < d => at[c] # "idle"
    BY <1>2, BeginStep
  <2>2. "idle" \notin InFlight
    BY DEF InFlight, Staging, Verifying, Publishing
  <2>3. ASSUME NEW b \in Calls, NEW c \in Calls, b < c, at'[c] # "idle"
        PROVE  /\ at'[b] # "idle"
               /\ at'[b] \in InFlight => c \in overlap'[b] /\ b \in overlap'[c]
    <3>0. b # c
      BY <2>3 DEF Calls, WorkspaceAssumption
    <3>1. CASE c = d
      BY <1>1, <2>1, <2>3, <3>0, <3>1 DEF UnderWay
    <3>2. CASE c # d
      <4>1. at[c] # "idle" /\ at[b] # "idle"
        BY <1>1, <2>3, <3>2 DEF OverlapFits
      <4>2. b # d
        BY <2>1, <4>1
      <4>3. at[b] \in InFlight => c \in overlap[b] /\ b \in overlap[c]
        BY <2>3, <4>1 DEF OverlapFits
      <4> QED
        BY <1>1, <2>1, <3>2, <4>1, <4>2, <4>3
    <3> QED
      BY <3>1, <3>2
  <2>4. ASSUME NEW c \in Calls, NEW b \in Calls, b \in overlap'[c]
        PROVE  at'[c] # "idle" /\ at'[b] # "idle" /\ c \in overlap'[b]
    <3>1. CASE c = d
      BY <1>1, <2>1, <2>2, <2>4, <3>1 DEF UnderWay
    <3>2. CASE c # d /\ b = d
      <4>1. b \notin overlap[c]
        BY <2>1, <3>2 DEF OverlapFits
      <4>2. at[c] \in InFlight
        BY <2>1, <2>4, <3>2, <4>1
      <4> QED
        BY <1>1, <2>1, <2>2, <3>2, <4>2 DEF UnderWay
    <3>3. CASE c # d /\ b # d
      <4>1. /\ overlap'[c] = overlap[c] \/ overlap'[c] = overlap[c] \cup {d}
            /\ overlap'[b] = overlap[b] \/ overlap'[b] = overlap[b] \cup {d}
        BY <2>1, <3>3
      <4>2. b \in overlap[c]
        BY <2>4, <3>3, <4>1
      <4>3. at[c] # "idle" /\ at[b] # "idle" /\ c \in overlap[b]
        BY <4>2 DEF OverlapFits
      <4> QED
        BY <1>1, <3>3, <4>1, <4>3
    <3> QED
      BY <3>1, <3>2, <3>3
  <2> QED
    BY <2>3, <2>4 DEF OverlapFits
<1>3. CASE ~Begin(d)
  <2>1. at[d] \in InFlight /\ overlap' = overlap /\ at'[d] # "idle"
    BY <1>3, UnderWayStep, Onward
  <2>2. at[d] # "idle"
    BY <2>1 DEF InFlight, Staging, Verifying, Publishing
  <2> QED
    BY <1>1, <2>1, <2>2 DEF OverlapFits
<1> QED
  BY <1>2, <1>3

\* What a step makes of a file: a staging's work, a write of the call, or nothing.
LEMMA FileStep ==
  ASSUME TypeOK, NEW d \in Calls, CallStep(d), NEW f \in Files
  PROVE  \/ tree'[f] = tree[f]
         \/ /\ StageStep(d) /\ at[d] \in Staging
            /\ tree'[f] \in {Absent, Original}
         \/ /\ WriteFile(d) /\ at[d] = "write" /\ f = file[d]
            /\ tree'[f] = Edited(text[d], d)
         \/ RunCommands(d) /\ at[d] = "run" /\ tree'[f] = Edited(tree[f], d)
<1> USE DEF sandbox, At
<1>1. tree \in [Files -> Content]
  BY DEF TypeOK, Tree
<1>2. CASE UNCHANGED tree
  BY <1>2
<1>3. CASE RemoveTree(d)
  BY <1>3 DEF RemoveTree, EmptyTree, StageStep, Staging
<1>4. CASE RemovalFails(d)
  BY <1>4 DEF RemovalFails, Without, StageStep, Staging
<1>5. CASE CopyFile(d)
  BY <1>1, <1>5 DEF CopyFile, With, StageStep, Staging
<1>6. CASE WriteFile(d)
  BY <1>1, <1>6 DEF WriteFile, With
<1>7. CASE RunCommands(d)
  <2>1. PICK written \in SUBSET Files : tree' = WrittenBy(d, written)
    BY <1>7 DEF RunCommands
  <2> QED
    BY <1>7, <2>1 DEF WrittenBy, RunCommands
<1>8. CASE \/ Begin(d) \/ AssertSnapshotReady(d) \/ ReadFile(d)
           \/ InitRepository(d) \/ CommitBaseline(d) \/ WriteSnapshotMarker(d)
           \/ RecordStaged(d) \/ StagingFails(d)
           \/ ApplyNetworkPolicy(d) \/ FallBackToAllowAll(d)
           \/ SkipVerification(d) \/ RunnerThrows(d) \/ RestoreDenyAll(d)
           \/ RestoreFails(d) \/ PublishStep(d)
  <2>1. UNCHANGED tree
    BY <1>8 DEF Begin, AssertSnapshotReady, ReadFile, InitRepository,
                CommitBaseline, WriteSnapshotMarker, RecordStaged, StagingFails,
                ApplyNetworkPolicy, FallBackToAllowAll, SkipVerification,
                RunnerThrows, RestoreDenyAll, RestoreFails, PublishStep,
                CollectStatus, CollectFile, PublishFix
  <2> QED
    BY <1>2, <2>1
<1> QED
  BY <1>3, <1>4, <1>5, <1>6, <1>7, <1>8 DEF CallStep, StageStep, VerifyStep

\* A step of a call keeps the points fitting.
LEMMA PointsStep ==
  ASSUME WorkspaceAssumption, TypeOK, PointsFit, NEW d \in Calls, CallStep(d)
  PROVE  PointsFit'
<1>0. ASSUME NEW f \in Files PROVE tree'[f].present \/ tree'[f] = Absent
  <2>1. tree[f].present \/ tree[f] = Absent
    BY DEF PointsFit
  <2>2. Original.present /\ Edited(text[d], d).present /\ Edited(tree[f], d).present
    BY DEF Original, Edited
  <2>3. \/ tree'[f] = tree[f] \/ tree'[f] \in {Absent, Original}
        \/ tree'[f] = Edited(text[d], d) \/ tree'[f] = Edited(tree[f], d)
    BY FileStep
  <2> QED
    BY <2>1, <2>2, <2>3
<1>1. ASSUME NEW c \in Calls, c # d
      PROVE  /\ at'[c] \in Staging => tool'[c] = "stage"
             /\ at'[c] \in {"read", "write"} => tool'[c] = "edit"
             /\ at'[c] \in {"apply"} \cup Verifying \cup Publishing
                  => tool'[c] # "edit"
  BY <1>1, Frame DEF CallStep, PointsFit
<1>2. /\ at'[d] \in Staging => tool'[d] = "stage"
      /\ at'[d] \in {"read", "write"} => tool'[d] = "edit"
      /\ at'[d] \in {"apply"} \cup Verifying \cup Publishing => tool'[d] # "edit"
  <2> USE DEF At, Goto, Fails, TypeOK, PointsFit, Staging, Verifying,
             Publishing, sandbox, edits
  <2>1. CASE Begin(d)
    BY <2>1 DEF Begin
  <2>2. CASE AssertSnapshotReady(d)
    BY <2>2 DEF AssertSnapshotReady
  <2>3. CASE ReadFile(d) \/ WriteFile(d)
    BY <2>3 DEF ReadFile, WriteFile
  <2>4. CASE StageStep(d)
    BY <2>4 DEF StageStep, RemoveTree, RemovalFails, CopyFile, InitRepository,
                CommitBaseline, WriteSnapshotMarker, RecordStaged, StagingFails
  <2>5. CASE VerifyStep(d)
    BY <2>5 DEF VerifyStep, ApplyNetworkPolicy, FallBackToAllowAll,
                SkipVerification, RunCommands, RunnerThrows, RestoreDenyAll,
                RestoreFails, AfterVerification
  <2>6. CASE PublishStep(d)
    BY <2>6 DEF PublishStep, CollectStatus, Report, CollectFile, Collects,
                PublishFix
  <2> QED
    BY <2>1, <2>2, <2>3, <2>4, <2>5, <2>6 DEF CallStep
<1> QED
  BY <1>0, <1>1, <1>2 DEF PointsFit

\* What a step makes of the texts that were read and the trees that were
\* verified: what it finds in the tree.
LEMMA SeenStep ==
  ASSUME TypeOK, NEW d \in Calls, CallStep(d)
  PROVE  /\ \A c \in Calls :
              text'[c] = text[c] \/ (c = d /\ text'[c] = tree[file[c]])
         /\ \A c \in Calls : verified'[c] = verified[c] \/ verified'[c] = tree'
         /\ at'[d] \in Unwritten \ {"idle"} => at[d] \in Unwritten
<1> USE DEF At, Goto, Fails, TypeOK, edits, publishing, Unwritten, Staging,
            Verifying
<1>1. CASE Begin(d) \/ AssertSnapshotReady(d)
  BY <1>1 DEF Begin, AssertSnapshotReady
<1>2. CASE ReadFile(d) \/ WriteFile(d)
  BY <1>2 DEF ReadFile, WriteFile
<1>3. CASE StageStep(d)
  BY <1>3 DEF StageStep, RemoveTree, RemovalFails, CopyFile, InitRepository,
              CommitBaseline, WriteSnapshotMarker, RecordStaged, StagingFails
<1>4. CASE VerifyStep(d)
  BY <1>4 DEF VerifyStep, ApplyNetworkPolicy, FallBackToAllowAll,
              SkipVerification, RunCommands, RunnerThrows, RestoreDenyAll,
              RestoreFails, AfterVerification
<1>5. CASE PublishStep(d)
  BY <1>5 DEF PublishStep, CollectStatus, Report, CollectFile, Collects,
              PublishFix
<1> QED
  BY <1>1, <1>2, <1>3, <1>4, <1>5 DEF CallStep

\* What nobody has written nobody sees.
LEMMA WritesStep ==
  ASSUME WorkspaceAssumption, TypeOK, WritesFit, NEW d \in Calls, CallStep(d)
  PROVE  WritesFit'
<1> SUFFICES ASSUME NEW c \in Calls, at'[c] \in Unwritten
             PROVE  /\ \A f \in Files : c \notin tree'[f].edits
                    /\ \A e \in Calls : c \notin text'[e].edits
                    /\ \A e \in Calls, f \in Files : c \notin verified'[e][f].edits
  BY DEF WritesFit
<1>1. at[c] \in Unwritten
  <2>1. CASE c = d
    BY <2>1, SeenStep, Onward
  <2>2. CASE c # d
    BY <2>2, Frame DEF CallStep
  <2> QED
    BY <2>1, <2>2
<1>2. /\ \A f \in Files : c \notin tree[f].edits
      /\ \A e \in Calls : c \notin text[e].edits
      /\ \A e \in Calls, f \in Files : c \notin verified[e][f].edits
  BY <1>1 DEF WritesFit
<1>3. WriteFile(d) \/ RunCommands(d) => c # d
  BY DEF WriteFile, RunCommands, Goto, TypeOK, Unwritten
<1>4. ASSUME NEW f \in Files PROVE c \notin tree'[f].edits
  <2>1. c \notin Absent.edits /\ c \notin Original.edits
    BY DEF Absent, Original
  <2>2. c # d => c \notin Edited(text[d], d).edits /\ c \notin Edited(tree[f], d).edits
    BY <1>2 DEF Edited
  <2> QED
    BY <1>2, <1>3, <2>1, <2>2, FileStep
<1>5. ASSUME NEW e \in Calls PROVE c \notin text'[e].edits
  <2>1. file[e] \in Files
    BY DEF TypeOK
  <2> QED
    BY <1>2, <2>1, SeenStep
<1>6. ASSUME NEW e \in Calls, NEW f \in Files PROVE c \notin verified'[e][f].edits
  BY <1>2, <1>4, SeenStep
<1> QED
  BY <1>4, <1>5, <1>6

-----------------------------------------------------------------------------
\* What a publish knows of the tree that was verified.

\* A content is what was verified, or a call beside the publish has changed it.
Explained(c, f, content) ==
  \/ content = verified[c][f]
  \/ \E d \in overlap[c] :
       tool[d] = "stage" \/ d \in content.edits \ verified[c][f].edits

TreeExplained(c) == \A f \in Files : Explained(c, f, tree[f])

CollectedExplained(c, paths) == \A f \in paths : Explained(c, f, collected[c][f])

VerifiedFits(c) ==
  /\ at[c] \in {"passed", "status", "collect"} => TreeExplained(c)
  /\ at[c] = "collect" => CollectedExplained(c, changed[c] \ todo[c])
  /\ at[c] \in {"publish", "published"} => CollectedExplained(c, changed[c])
  /\ c \in leftOpen => at[c] \in {"done", "failed"}

\* An explanation stays one.
LEMMA ExplainedStays ==
  ASSUME TypeOK, OverlapFits, NEW d \in Calls, CallStep(d), NEW c \in Calls,
         NEW f \in Files, NEW content, Explained(c, f, content),
         verified'[c] = verified[c]
  PROVE  Explained(c, f, content)'
<1>1. CASE content = verified[c][f]
  BY <1>1 DEF Explained
<1>2. ASSUME NEW e \in overlap[c],
             tool[e] = "stage" \/ e \in content.edits \ verified[c][f].edits
      PROVE  Explained(c, f, content)'
  <2>1. e \in overlap'[c] /\ tool'[e] = tool[e]
    BY OverlapGrows
  <2> QED
    BY <1>2, <2>1 DEF Explained
<1> QED
  BY <1>1, <1>2 DEF Explained

\* Whatever a call does to the tree is explained to those beside it.
LEMMA TreeExplainedStep ==
  ASSUME WorkspaceAssumption, TypeOK, OverlapFits, PointsFit, WritesFit,
         NEW d \in Calls, CallStep(d), NEW c \in Calls, c # d,
         at[c] \in InFlight, TreeExplained(c)
  PROVE  TreeExplained(c)'
<1> SUFFICES ASSUME NEW f \in Files PROVE Explained(c, f, tree[f])'
  BY DEF TreeExplained
<1>1. verified'[c] = verified[c] /\ Explained(c, f, tree[f])
  BY Frame DEF CallStep, TreeExplained
<1>2. CASE tree'[f] = tree[f]
  <2>1. Explained(c, f, tree[f])'
    BY <1>1, <1>2, ExplainedStays DEF Explained
  <2> QED
    BY <2>1
<1>3. ASSUME at[d] \in InFlight, tool[d] = "stage" \/ d \in tree'[f].edits,
             tool[d] = "stage" \/ d \notin verified[c][f].edits
      PROVE  Explained(c, f, tree[f])'
  <2>1. d \in overlap[c]
    BY <1>3, Together
  <2>2. d \in overlap'[c] /\ tool'[d] = tool[d]
    BY <2>1, OverlapGrows
  <2> QED
    BY <1>1, <1>3, <2>2 DEF Explained
<1>4. CASE StageStep(d) /\ at[d] \in Staging
  BY <1>3, <1>4 DEF PointsFit, InFlight
<1>5. CASE /\ at[d] \in {"write", "run"}
           /\ \E x : tree'[f] = Edited(x, d)
  <2>1. d \in tree'[f].edits
    BY <1>5 DEF Edited
  <2>2. d \notin verified[c][f].edits
    BY <1>5 DEF WritesFit, Unwritten
  <2> QED
    BY <1>3, <1>5, <2>1, <2>2 DEF InFlight, Verifying
<1> QED
  BY <1>2, <1>4, <1>5, FileStep

\* What the status reports is read from the tree; a path that is not there
\* is published as deleted.
LEMMA ReportFits ==
  ASSUME TypeOK, PointsFit, NEW d \in Calls, CollectStatus(d)
  PROVE  /\ at[d] = "status" /\ at'[d] \in {"collect", "publish", "done", "failed"}
         /\ tree' = tree /\ verified' = verified /\ overlap' = overlap
         /\ tool' = tool /\ leftOpen' = leftOpen
         /\ at'[d] \in {"collect", "publish"} =>
              /\ changed'[d] = StatusEntries
              /\ todo'[d] = Present(StatusEntries)
              /\ \A f \in changed'[d] \ todo'[d] : collected'[d][f] = tree[f]
         /\ at'[d] = "publish" => todo'[d] = {}
<1> USE DEF CollectStatus, At, Goto, Fails, TypeOK, sandbox, history
<1>1. CASE git = "none" \/ ~(StatusEntries \subseteq AllowedFiles)
  BY <1>1 DEF Report
<1>2. CASE git # "none" /\ StatusEntries \subseteq AllowedFiles
  <2>1. /\ changed' = [changed EXCEPT ![d] = StatusEntries]
        /\ todo' = [todo EXCEPT ![d] = Present(StatusEntries)]
        /\ Goto(d, IF StatusEntries = {} THEN "done"
                   ELSE IF Present(StatusEntries) = {} THEN "publish"
                   ELSE "collect")
    BY <1>2 DEF Report
  <2>2. StatusEntries \in SUBSET Files
    BY DEF StatusEntries
  <2>3. \A f \in StatusEntries \ Present(StatusEntries) : EmptyTree[f] = tree[f]
    BY <2>2 DEF Present, PointsFit, EmptyTree
  <2> HIDE DEF Present, StatusEntries
  <2>4. changed'[d] = StatusEntries /\ todo'[d] = Present(StatusEntries)
        /\ collected'[d] = EmptyTree
    BY <2>1
  <2> QED
    BY <2>1, <2>2, <2>3, <2>4
<1> QED
  BY <1>1, <1>2

\* A file is read as it is in the tree.
LEMMA CollectFits ==
  ASSUME TypeOK, NEW d \in Calls, CollectFile(d)
  PROVE  /\ at[d] = "collect" /\ at'[d] \in {"collect", "publish", "failed"}
         /\ tree' = tree /\ verified' = verified /\ changed' = changed
         /\ overlap' = overlap /\ tool' = tool /\ leftOpen' = leftOpen
         /\ at'[d] # "failed" =>
              \E f \in todo[d] :
                /\ todo'[d] = todo[d] \ {f} /\ f \in Files
                /\ \A g \in Files : collected'[d][g] =
                                      IF g = f THEN tree[g] ELSE collected[d][g]
         /\ at'[d] = "publish" => todo'[d] = {}
<1> USE DEF CollectFile, At, Goto, Fails, TypeOK, sandbox, history
<1>1. PICK f \in todo[d] :
        IF tree[f].present THEN Collects(d, f)
                           ELSE Fails(d) /\ UNCHANGED <<collected, todo>>
  OBVIOUS
<1>2. CASE ~tree[f].present
  BY <1>1, <1>2
<1>3. CASE tree[f].present
  <2>1. /\ collected' = [collected EXCEPT ![d] = With(@, f, tree[f])]
        /\ todo' = [todo EXCEPT ![d] = @ \ {f}]
        /\ Goto(d, IF todo[d] = {f} THEN "publish" ELSE "collect")
    BY <1>1, <1>3 DEF Collects
  <2>2. /\ collected'[d] = With(collected[d], f, tree[f])
        /\ todo'[d] = todo[d] \ {f}
        /\ at'[d] = IF todo[d] = {f} THEN "publish" ELSE "collect"
    BY <2>1
  <2>3. f \in Files /\ collected[d] \in Tree
    OBVIOUS
  <2>4. \A g \in Files : With(collected[d], f, tree[f])[g] =
                           IF g = f THEN tree[g] ELSE collected[d][g]
    BY <2>3 DEF With, Tree
  <2>5. todo[d] = {f} => todo'[d] = {}
    BY <2>2
  <2> QED
    BY <2>2, <2>3, <2>4, <2>5
<1> QED
  BY <1>2, <1>3

\* The points a publish and its verification go through, and that a
\* verification which leaves the network open ends its call.
LEMMA VerifyFrame ==
  ASSUME TypeOK, NEW d \in Calls, CallStep(d), ~CollectStatus(d), ~CollectFile(d)
  PROVE  /\ at'[d] \notin {"collect", "publish"}
         /\ at'[d] = "passed" => verified'[d] = tree'
         /\ at'[d] = "status" =>
              at[d] = "passed" /\ tree' = tree /\ verified' = verified
         /\ at'[d] = "published" =>
              /\ at[d] = "publish" /\ verified' = verified
              /\ changed' = changed /\ collected' = collected
         /\ leftOpen' = leftOpen \/ (leftOpen' = leftOpen \cup {d} /\ at'[d] = "done")
<1> USE DEF At, Goto, Fails, TypeOK, publishing, sandbox, history
<1>1. CASE Begin(d) \/ AssertSnapshotReady(d) \/ ReadFile(d) \/ WriteFile(d)
  BY <1>1 DEF Begin, AssertSnapshotReady, ReadFile, WriteFile
<1>2. CASE StageStep(d)
  BY <1>2 DEF StageStep, RemoveTree, RemovalFails, CopyFile, InitRepository,
              CommitBaseline, WriteSnapshotMarker, RecordStaged, StagingFails
<1>3. CASE VerifyStep(d)
  BY <1>3 DEF VerifyStep, ApplyNetworkPolicy, FallBackToAllowAll,
              SkipVerification, RunCommands, RunnerThrows, RestoreDenyAll,
              RestoreFails, AfterVerification
<1>4. CASE PublishFix(d)
  BY <1>4 DEF PublishFix
<1> QED
  BY <1>1, <1>2, <1>3, <1>4 DEF CallStep, PublishStep

\* A step of a call keeps what the others know,
LEMMA OthersVerified ==
  ASSUME WorkspaceAssumption, TypeOK, OverlapFits, PointsFit, WritesFit,
         NEW d \in Calls, CallStep(d), NEW c \in Calls, c # d, VerifiedFits(c)
  PROVE  VerifiedFits(c)'
<1>1. /\ at'[c] = at[c] /\ verified'[c] = verified[c] /\ todo'[c] = todo[c]
      /\ changed'[c] = changed[c] /\ collected'[c] = collected[c]
  BY Frame DEF CallStep
<1>2. at[c] \in {"passed", "status", "collect"} => TreeExplained(c)'
  BY TreeExplainedStep DEF VerifiedFits, InFlight, Verifying, Publishing
<1>3. ASSUME NEW paths \in SUBSET Files, CollectedExplained(c, paths)
      PROVE  CollectedExplained(c, paths)'
  <2> SUFFICES ASSUME NEW f \in paths PROVE Explained(c, f, collected[c][f])'
    BY DEF CollectedExplained
  <2>1. Explained(c, f, collected[c][f])
    BY <1>3 DEF CollectedExplained
  <2> DEFINE content == collected[c][f]
  <2>2. content' = content
    BY <1>1
  <2>3. ASSUME NEW x, x = content PROVE Explained(c, f, x)'
    BY <1>1, <2>1, <2>3, ExplainedStays
  <2> HIDE DEF content
  <2> QED
    BY <1>1, <2>2, <2>3 DEF content, Explained
<1>4. changed[c] \in SUBSET Files
  BY DEF TypeOK
<1>5. at[c] = "collect" => CollectedExplained(c, changed[c] \ todo[c])'
  BY <1>1, <1>3, <1>4 DEF VerifiedFits, CollectedExplained
<1>6. at[c] \in {"publish", "published"} => CollectedExplained(c, changed[c])'
  BY <1>1, <1>3, <1>4 DEF VerifiedFits, CollectedExplained
<1>7. c \in leftOpen' => c \in leftOpen
  BY VerifyFrame, ReportFits, CollectFits
<1> QED
  BY <1>1, <1>2, <1>5, <1>6, <1>7 DEF VerifiedFits

\* and what the call itself knows.
LEMMA OwnVerified ==
  ASSUME WorkspaceAssumption, TypeOK, OverlapFits, PointsFit, NEW d \in Calls,
         CallStep(d), VerifiedFits(d)
  PROVE  VerifiedFits(d)'
<1>0. d \notin leftOpen
  BY Onward DEF VerifiedFits, Ended
<1>1. CASE CollectStatus(d)
  <2>1. /\ at[d] = "status" /\ at'[d] \in {"collect", "publish", "done", "failed"}
        /\ tree' = tree /\ verified' = verified /\ overlap' = overlap
        /\ tool' = tool /\ leftOpen' = leftOpen
        /\ at'[d] \in {"collect", "publish"} =>
             \A f \in changed'[d] \ todo'[d] : collected'[d][f] = tree[f]
        /\ at'[d] = "publish" => todo'[d] = {}
    BY <1>1, ReportFits
  <2>2. TreeExplained(d) /\ changed'[d] \in SUBSET Files
    BY <2>1, PublishType, <1>1 DEF VerifiedFits, TypeOK, PublishStep
  <2>3. at'[d] \in {"collect", "publish"} =>
          CollectedExplained(d, changed[d] \ todo[d])'
    BY <2>1, <2>2 DEF CollectedExplained, TreeExplained, Explained
  <2>4. at'[d] = "publish" => CollectedExplained(d, changed[d])'
    BY <2>1, <2>3 DEF CollectedExplained
  <2>5. TreeExplained(d)'
    BY <2>1, <2>2 DEF TreeExplained, Explained
  <2> QED
    BY <1>0, <2>1, <2>3, <2>4, <2>5 DEF VerifiedFits
<1>2. CASE CollectFile(d)
  <2>1. /\ at[d] = "collect" /\ at'[d] \in {"collect", "publish", "failed"}
        /\ tree' = tree /\ verified' = verified /\ changed' = changed
        /\ overlap' = overlap /\ tool' = tool /\ leftOpen' = leftOpen
        /\ at'[d] = "publish" => todo'[d] = {}
    BY <1>2, CollectFits
  <2>2. /\ TreeExplained(d) /\ CollectedExplained(d, changed[d] \ todo[d])
        /\ changed[d] \in SUBSET Files
    BY <2>1 DEF VerifiedFits, TypeOK
  <2>3. TreeExplained(d)'
    BY <2>1, <2>2 DEF TreeExplained, Explained
  <2>4. at'[d] # "failed" => CollectedExplained(d, changed[d] \ todo[d])'
    <3>1. SUFFICES ASSUME at'[d] # "failed", NEW g \in changed[d] \ todo'[d]
                   PROVE  Explained(d, g, collected[d][g])'
      BY <2>1 DEF CollectedExplained
    <3>2. PICK f \in todo[d] :
            /\ todo'[d] = todo[d] \ {f} /\ f \in Files
            /\ \A h \in Files : collected'[d][h] =
                                  IF h = f THEN tree[h] ELSE collected[d][h]
      BY <1>2, <3>1, CollectFits
    <3>3. CASE g = f
      BY <2>1, <2>2, <3>2, <3>3 DEF TreeExplained, Explained
    <3>4. CASE g # f
      <4>1. Explained(d, g, collected[d][g]) /\ collected'[d][g] = collected[d][g]
        BY <2>2, <3>1, <3>2, <3>4 DEF CollectedExplained
      <4> QED
        BY <2>1, <4>1 DEF Explained
    <3> QED
      BY <3>3, <3>4
  <2>5. at'[d] = "publish" => CollectedExplained(d, changed[d])'
    BY <2>1, <2>4 DEF CollectedExplained
  <2> QED
    BY <1>0, <2>1, <2>3, <2>4, <2>5 DEF VerifiedFits
<1>3. CASE ~CollectStatus(d) /\ ~CollectFile(d)
  <2>1. /\ at'[d] \notin {"collect", "publish"}
        /\ at'[d] = "passed" => verified'[d] = tree'
        /\ at'[d] = "status" =>
             at[d] = "passed" /\ tree' = tree /\ verified' = verified
        /\ at'[d] = "published" =>
             /\ at[d] = "publish" /\ verified' = verified
             /\ changed' = changed /\ collected' = collected
        /\ leftOpen' = leftOpen \/ (leftOpen' = leftOpen \cup {d} /\ at'[d] = "done")
    BY <1>3, VerifyFrame
  <2>2. at'[d] \in {"status", "published"} => ~Begin(d)
    BY BeginStep
  <2>3. ASSUME at'[d] \in {"status", "published"}
        PROVE  overlap' = overlap /\ \A e \in overlap[d] : tool'[e] = tool[e]
    BY <2>2, <2>3, UnderWayStep, OverlapGrows
  <2>4. at'[d] = "passed" => TreeExplained(d)'
    BY <2>1 DEF TreeExplained, Explained
  <2>5. at'[d] = "status" => TreeExplained(d)'
    BY <2>1, <2>3 DEF VerifiedFits, TreeExplained, Explained
  <2>6. at'[d] = "published" => CollectedExplained(d, changed[d])'
    BY <2>1, <2>3 DEF VerifiedFits, CollectedExplained, Explained
  <2> QED
    BY <1>0, <2>1, <2>4, <2>5, <2>6 DEF VerifiedFits
<1> QED
  BY <1>1, <1>2, <1>3

-----------------------------------------------------------------------------
\* What becomes of an edit.

Accounted(c, content) == c \in content.edits \/ \E d \in Calls : WrittenOver(c, d)

\* A reported edit is in its file, and in what every later edit has read of it.
EditFits(c) ==
  tool[c] = "edit" /\ at[c] = "done" /\ ~RestagedOver(c) =>
    /\ Accounted(c, tree[file[c]])
    /\ \A d \in Calls \ overlap[c] :
         at[d] = "write" /\ file[d] = file[c] => Accounted(c, text[d])

\* The invariant of calls that overlap.
OverlapInv ==
  /\ TypeOK /\ OverlapFits /\ PointsFit /\ WritesFit
  /\ \A c \in Calls : VerifiedFits(c) /\ EditFits(c)

\* An edit that was written over stays so, and a restaging is not undone.
LEMMA AccountStays ==
  ASSUME WorkspaceAssumption, TypeOK, OverlapFits, NEW d \in Calls, CallStep(d),
         NEW c \in Calls, c # d
  PROVE  /\ RestagedOver(c) => RestagedOver(c)'
         /\ \A e \in Calls : WrittenOver(c, e) => WrittenOver(c, e)'
<1>1. ASSUME RestagedOver(c) PROVE RestagedOver(c)'
  <2>1. PICK e \in Calls : /\ tool[e] = "stage" /\ at[e] # "idle"
                           /\ e > c \/ e \in overlap[c]
    BY <1>1 DEF RestagedOver
  <2>2. tool'[e] = "stage" /\ at'[e] # "idle"
    BY <2>1, OverlapGrows
  <2>3. e > c \/ e \in overlap'[c]
    BY <2>1, OverlapGrows
  <2> QED
    BY <2>2, <2>3 DEF RestagedOver
<1>2. ASSUME NEW e \in Calls, WrittenOver(c, e) PROVE WrittenOver(c, e)'
  <2>1. /\ e \in overlap[c] /\ tool[e] = "edit" /\ at[e] = "done"
        /\ file[e] = file[c] /\ c \notin text[e].edits
    BY <1>2 DEF WrittenOver
  <2>2. e # d
    BY <2>1, Onward DEF Ended
  <2>3. /\ tool'[e] = tool[e] /\ at'[e] = at[e] /\ file'[e] = file[e]
        /\ text'[e] = text[e] /\ file'[c] = file[c]
    BY <2>2, Frame DEF CallStep
  <2>4. e \in overlap'[c]
    BY <2>1, OverlapGrows
  <2> QED
    BY <2>1, <2>3, <2>4 DEF WrittenOver
<1> QED
  BY <1>1, <1>2

\* An edit that ends in its report has written its file.
LEMMA EditEnds ==
  ASSUME TypeOK, PointsFit, NEW d \in Calls, CallStep(d), tool'[d] = "edit",
         at'[d] = "done"
  PROVE  /\ at[d] = "write" /\ overlap' = overlap /\ file' = file
         /\ tree'[file[d]] = Edited(text[d], d)
<1> USE DEF At, Goto, Fails, sandbox
<1>1. WriteFile(d)
  <2>1. at[d] # "idle" => tool[d] = "edit"
    BY Onward
  <2>2. /\ at[d] \in Staging => tool[d] = "stage"
        /\ at[d] \in {"apply"} \cup Verifying \cup Publishing => tool[d] # "edit"
    BY DEF PointsFit
  <2> QED
    BY <2>1, <2>2
    DEF CallStep, Begin, AssertSnapshotReady, ReadFile, StageStep, RemoveTree,
        RemovalFails, CopyFile, InitRepository, CommitBaseline,
        WriteSnapshotMarker, RecordStaged, StagingFails, VerifyStep,
        ApplyNetworkPolicy, FallBackToAllowAll, SkipVerification, RunCommands,
        RunnerThrows, RestoreDenyAll, RestoreFails, AfterVerification,
        PublishStep, CollectStatus, Report, CollectFile, Collects, PublishFix,
        TypeOK, Staging, Verifying, Publishing
<1>2. /\ at[d] = "write" /\ overlap' = overlap /\ file' = file
      /\ tree' = With(tree, file[d], Edited(text[d], d)) /\ file[d] \in Files
  BY <1>1 DEF WriteFile, edits, history, TypeOK
<1>3. tree'[file[d]] = Edited(text[d], d)
  BY <1>2 DEF With, TypeOK, Tree
<1> QED
  BY <1>2, <1>3

\* A step of a call keeps its own edit,
LEMMA OwnEdit ==
  ASSUME WorkspaceAssumption, TypeOK, OverlapFits, PointsFit, NEW d \in Calls,
         CallStep(d)
  PROVE  EditFits(d)'
<1> SUFFICES ASSUME tool'[d] = "edit", at'[d] = "done"
             PROVE  /\ Accounted(d, tree[file[d]])'
                    /\ \A e \in Calls \ overlap'[d] :
                         at'[e] = "write" /\ file'[e] = file'[d]
                           => Accounted(d, text[e])'
  BY DEF EditFits
<1>1. /\ at[d] = "write" /\ overlap' = overlap /\ file' = file
      /\ tree'[file[d]] = Edited(text[d], d)
  BY EditEnds
<1>2. Accounted(d, tree[file[d]])'
  BY <1>1 DEF Accounted, Edited
<1>3. ASSUME NEW e \in Calls, at'[e] = "write" PROVE e \in overlap'[d]
  <2>1. e # d /\ at[e] = "write"
    BY <1>3, Frame DEF CallStep
  <2> QED
    BY <1>1, <2>1, Together DEF InFlight
<1> QED
  BY <1>2, <1>3

\* and the edits of the others: what writes their file over has read it without
\* them while they were under way.
LEMMA OthersEdits ==
  ASSUME WorkspaceAssumption, TypeOK, OverlapFits, PointsFit, NEW d \in Calls,
         CallStep(d), NEW c \in Calls, c # d, EditFits(c)
  PROVE  EditFits(c)'
<1> SUFFICES ASSUME tool'[c] = "edit", at'[c] = "done", ~RestagedOver(c)'
             PROVE  /\ Accounted(c, tree[file[c]])'
                    /\ \A e \in Calls \ overlap'[c] :
                         at'[e] = "write" /\ file'[e] = file'[c]
                           => Accounted(c, text[e])'
  BY DEF EditFits
<1>1. tool[c] = "edit" /\ at[c] = "done" /\ file'[c] = file[c] /\ ~RestagedOver(c)
  BY Frame, AccountStays DEF CallStep
<1>2. /\ Accounted(c, tree[file[c]])
      /\ \A e \in Calls \ overlap[c] :
           at[e] = "write" /\ file[e] = file[c] => Accounted(c, text[e])
  BY <1>1 DEF EditFits
<1>3. ASSUME NEW x, NEW y, Accounted(c, x), c \in x.edits => c \in y.edits
      PROVE  c \in y.edits \/ \E e \in Calls : WrittenOver(c, e)'
  BY <1>3, AccountStays DEF Accounted
<1>4. ~StageStep(d)
  <2>1. SUFFICES ASSUME StageStep(d) PROVE FALSE
    OBVIOUS
  <2>2. at[d] \in Staging
    BY <2>1 DEF StageStep, RemoveTree, RemovalFails, CopyFile, InitRepository,
       CommitBaseline, WriteSnapshotMarker, RecordStaged, StagingFails, At, Staging
  <2>3. tool[d] = "stage" /\ at[d] \in InFlight /\ at[d] # "idle"
    BY <2>2 DEF PointsFit, InFlight, Staging
  <2>4. ~(d > c) /\ d \notin overlap[c]
    BY <1>1, <2>3 DEF RestagedOver
  <2>5. d < c
    BY <2>4 DEF Calls, WorkspaceAssumption
  <2> QED
    BY <1>1, <2>3, <2>4, <2>5 DEF OverlapFits
<1>5. Accounted(c, tree[file[c]])'
  <2>1. file[c] \in Files
    BY DEF TypeOK
  <2>2. CASE tree'[file[c]] = tree[file[c]]
    BY <1>1, <1>2, <1>3, <2>2 DEF Accounted
  <2>3. CASE tree'[file[c]] = Edited(tree[file[c]], d)
    BY <1>1, <1>2, <1>3, <2>3 DEF Accounted, Edited
  <2>4. CASE /\ WriteFile(d) /\ at[d] = "write" /\ file[c] = file[d]
             /\ tree'[file[c]] = Edited(text[d], d)
    <3>1. c \in text[d].edits => c \in Edited(text[d], d).edits
      BY DEF Edited
    <3>2. CASE d \notin overlap[c]
      <4>1. Accounted(c, text[d])
        BY <1>2, <2>4, <3>2
      <4> QED
        BY <1>1, <1>3, <2>4, <3>1, <4>1 DEF Accounted
    <3>3. CASE d \in overlap[c] /\ c \notin text[d].edits
      <4>1. /\ tool'[d] = "edit" /\ at'[d] = "done" /\ file' = file
            /\ text' = text /\ overlap' = overlap
        BY <2>4 DEF WriteFile, Goto, PointsFit, TypeOK, edits, history
      <4>2. WrittenOver(c, d)'
        BY <2>4, <3>3, <4>1 DEF WrittenOver
      <4> QED
        BY <4>2 DEF Accounted
    <3>4. CASE c \in text[d].edits
      BY <1>1, <2>4, <3>1, <3>4 DEF Accounted
    <3> QED
      BY <3>2, <3>3, <3>4
  <2> QED
    BY <1>4, <2>1, <2>2, <2>3, <2>4, FileStep
<1>6. ASSUME NEW e \in Calls \ overlap'[c], at'[e] = "write", file'[e] = file'[c]
      PROVE  Accounted(c, text[e])'
  <2>1. e \notin overlap[c]
    BY <1>6, OverlapGrows
  <2>2. CASE e = d
    <3>1. ReadFile(d)
      BY <1>6, <2>2, SMTT(60)
      DEF CallStep, Begin, AssertSnapshotReady, ReadFile, WriteFile, StageStep,
          RemoveTree, RemovalFails, CopyFile, InitRepository, CommitBaseline,
          WriteSnapshotMarker, RecordStaged, StagingFails, VerifyStep,
          ApplyNetworkPolicy, FallBackToAllowAll, SkipVerification, RunCommands,
          RunnerThrows, RestoreDenyAll, RestoreFails, AfterVerification,
          PublishStep, CollectStatus, Report, CollectFile, Collects, PublishFix,
          Goto, Fails, TypeOK
    <3>2. text'[d] = tree[file[d]] /\ file' = file
      BY <1>6, <2>2, <3>1 DEF ReadFile, Goto, Fails, TypeOK
    <3> QED
      BY <1>1, <1>2, <1>3, <1>6, <2>2, <3>2 DEF Accounted
  <2>3. CASE e # d
    <3>1. at[e] = "write" /\ file[e] = file[c] /\ text'[e] = text[e]
      BY <1>1, <1>6, <2>3, Frame DEF CallStep
    <3> QED
      BY <1>2, <1>3, <2>1, <3>1 DEF Accounted
  <2> QED
    BY <2>2, <2>3
<1> QED
  BY <1>5, <1>6

-----------------------------------------------------------------------------

\* A crash ends the calls under way where they are.
LEMMA CrashFrame ==
  ASSUME Crash
  PROVE  /\ tree' = tree /\ git' = git /\ base' = base /\ marker' = marker
         /\ tool' = tool /\ file' = file /\ text' = text /\ todo' = todo
         /\ verified' = verified /\ changed' = changed /\ collected' = collected
         /\ overlap' = overlap
         /\ leftOpen' = leftOpen \cup {c \in Calls : at[c] \in Verifying}
         /\ \A c \in Calls : /\ at[c] \in InFlight => at'[c] = "failed"
                             /\ at[c] \notin InFlight => at'[c] = at[c]
                             /\ (at'[c] = "idle") <=> (at[c] = "idle")
                             /\ (at'[c] = "done") <=> (at[c] = "done")
<1>1. \A c \in Calls : at'[c] = IF at[c] \in InFlight THEN "failed" ELSE at[c]
  BY DEF Crash
<1>2. "idle" \notin InFlight /\ "done" \notin InFlight
  BY DEF InFlight, Staging, Verifying, Publishing
<1>3. /\ tree' = tree /\ git' = git /\ base' = base /\ marker' = marker
      /\ tool' = tool /\ file' = file /\ text' = text /\ todo' = todo
      /\ verified' = verified /\ changed' = changed /\ collected' = collected
      /\ overlap' = overlap
      /\ leftOpen' = leftOpen \cup {c \in Calls : at[c] \in Verifying}
  BY DEF Crash, sandbox, edits, publishing
<1> QED
  BY <1>1, <1>2, <1>3

\* What is said of the calls stays true of those that a crash has ended.
LEMMA CrashStep ==
  ASSUME OverlapInv, TypeOK', Crash
  PROVE  OverlapInv'
<1>1. /\ tree' = tree /\ tool' = tool /\ file' = file /\ text' = text
      /\ verified' = verified /\ changed' = changed /\ collected' = collected
      /\ overlap' = overlap
      /\ leftOpen' = leftOpen \cup {c \in Calls : at[c] \in Verifying}
  BY CrashFrame
<1>2. \A c \in Calls : /\ at[c] \in InFlight => at'[c] = "failed"
                       /\ at[c] \notin InFlight => at'[c] = at[c]
                       /\ (at'[c] = "idle") <=> (at[c] = "idle")
                       /\ (at'[c] = "done") <=> (at[c] = "done")
  BY CrashFrame
<1>3. \A c \in Calls : at'[c] \notin InFlight
  BY <1>2 DEF InFlight, Staging, Verifying, Publishing
<1>4. OverlapFits'
  BY <1>1, <1>2, <1>3 DEF OverlapInv, OverlapFits
<1>5. PointsFit'
  <2>1. \A f \in Files : tree'[f].present \/ tree'[f] = Absent
    BY <1>1 DEF OverlapInv, PointsFit
  <2> QED
    BY <1>3, <2>1 DEF PointsFit, InFlight
<1>6. WritesFit'
  <2>1. \A c \in Calls : at'[c] \in Unwritten => at[c] \in Unwritten
    BY <1>2, <1>3 DEF Unwritten, InFlight, Verifying
  <2> QED
    BY <1>1, <2>1 DEF OverlapInv, WritesFit
<1>7. ASSUME NEW c \in Calls PROVE VerifiedFits(c)'
  <2>1. VerifiedFits(c)
    BY DEF OverlapInv
  <2>2. at'[c] \notin {"passed", "status", "collect", "publish"}
    BY <1>3 DEF InFlight, Verifying, Publishing
  <2>3. at'[c] = "published" =>
          CollectedExplained(c, changed[c])'
    <3>1. at'[c] = "published" => at[c] = "published"
      BY <1>2
    <3> QED
      BY <1>1, <2>1, <3>1 DEF VerifiedFits, CollectedExplained, Explained
  <2>4. c \in leftOpen' => at'[c] \in {"done", "failed"}
    BY <1>1, <1>2, <2>1 DEF VerifiedFits, InFlight
  <2> QED
    BY <2>2, <2>3, <2>4 DEF VerifiedFits
<1>8. ASSUME NEW c \in Calls PROVE EditFits(c)'
  <2>1. EditFits(c)
    BY DEF OverlapInv
  <2>2. RestagedOver(c)' <=> RestagedOver(c)
    BY <1>1, <1>2 DEF RestagedOver
  <2>3. \A e \in Calls : WrittenOver(c, e)' <=> WrittenOver(c, e)
    BY <1>1, <1>2 DEF WrittenOver
  <2>4. \A e \in Calls : at'[e] # "write"
    BY <1>3 DEF InFlight
  <2> QED
    BY <1>1, <1>2, <2>1, <2>2, <2>3, <2>4 DEF EditFits, Accounted
<1> QED
  BY <1>4, <1>5, <1>6, <1>7, <1>8 DEF OverlapInv

\* What other sessions do to the record is nothing to the calls.
LEMMA RecordStep ==
  ASSUME OverlapInv, TypeOK', OtherSessions \/ UNCHANGED vars
  PROVE  OverlapInv'
<1>1. /\ tree' = tree /\ tool' = tool /\ at' = at /\ file' = file /\ text' = text
      /\ todo' = todo /\ verified' = verified /\ changed' = changed
      /\ collected' = collected /\ overlap' = overlap /\ leftOpen' = leftOpen
  BY DEF OtherSessions, vars, sandbox, edits, publishing, history
<1> QED
  BY <1>1
  DEF OverlapInv, OverlapFits, PointsFit, WritesFit, VerifiedFits, TreeExplained,
      CollectedExplained, Explained, EditFits, Accounted, RestagedOver,
      WrittenOver

\* Every step keeps the invariant.
LEMMA OverlapAlways == Spec => []OverlapInv
<1>1. WorkspaceAssumption
  BY WorkspaceAssumption
<1>2. Init => OverlapInv
  <2> SUFFICES ASSUME Init PROVE OverlapInv
    OBVIOUS
  <2>1. TypeOK
    BY <1>1, InitType
  <2>2. \A c \in Calls : at[c] = "idle" /\ overlap[c] = {}
    BY DEF Init
  <2>3. OverlapFits
    BY <2>2 DEF OverlapFits
  <2>4. PointsFit
    BY DEF Init, PointsFit, EmptyTree, Staging, Verifying, Publishing
  <2>5. WritesFit
    BY DEF Init, WritesFit, EmptyTree, Absent
  <2>6. \A c \in Calls : VerifiedFits(c) /\ EditFits(c)
    BY DEF Init, VerifiedFits, EditFits
  <2> QED
    BY <2>1, <2>3, <2>4, <2>5, <2>6 DEF OverlapInv
<1>3. OverlapInv /\ [Next]_vars => OverlapInv'
  <2> SUFFICES ASSUME OverlapInv, [Next]_vars PROVE OverlapInv'
    OBVIOUS
  <2>1. TypeOK /\ TypeOK'
    BY <1>1, StepType DEF OverlapInv
  <2>2. ASSUME NEW d \in Calls, CallStep(d) PROVE OverlapInv'
    <3>1. OverlapFits' /\ PointsFit' /\ WritesFit'
      BY <1>1, <2>1, <2>2, OverlapStep, PointsStep, WritesStep DEF OverlapInv
    <3>2. ASSUME NEW c \in Calls PROVE VerifiedFits(c)' /\ EditFits(c)'
      <4>1. CASE c = d
        BY <1>1, <2>1, <2>2, <4>1, OwnVerified, OwnEdit DEF OverlapInv
      <4>2. CASE c # d
        BY <1>1, <2>1, <2>2, <4>2, OthersVerified, OthersEdits DEF OverlapInv
      <4> QED
        BY <4>1, <4>2
    <3> QED
      BY <2>1, <3>1, <3>2 DEF OverlapInv
  <2>3. CASE Crash
    BY <2>1, <2>3, CrashStep
  <2>4. CASE OtherSessions \/ UNCHANGED vars
    BY <2>1, <2>4, RecordStep
  <2> QED
    BY <2>2, <2>3, <2>4 DEF Next, CallStep
<1> QED
  BY <1>2, <1>3, PTL DEF Spec

\* However calls overlap and whatever fails, what is published of a file is what
\* the verification commands passed on, but for what a call that overlapped with
\* the publish has written there (publish_fix).
THEOREM VerifiedIsPublished == Spec => []PublishedWasVerified
<1>1. OverlapInv => PublishedWasVerified
  <2> SUFFICES ASSUME OverlapInv, NEW c \in Calls, Published(c)
               PROVE  /\ c \notin leftOpen
                      /\ \A f \in changed[c] :
                           collected[c][f] = verified[c][f] \/ WrittenBeside(c, f)
    BY DEF PublishedWasVerified
  <2>1. VerifiedFits(c) /\ at[c] = "published"
    BY DEF OverlapInv, Published
  <2> QED
    BY <2>1 DEF VerifiedFits, CollectedExplained, Explained, WrittenBeside
<1> QED
  BY <1>1, OverlapAlways, PTL

\* However calls overlap, an edit that was reported as done is lost before the
\* next staging only to one that had read the same file without it
\* (edit_repo_file).
THEOREM EditsStay == Spec => []EditsAreKept
<1>1. OverlapInv => EditsAreKept
  BY DEF OverlapInv, EditFits, Accounted, EditsAreKept
<1> QED
  BY <1>1, OverlapAlways, PTL

-----------------------------------------------------------------------------
\* What a publish makes of the snapshot.

PastGuard == {"read", "write", "apply"} \cup Verifying \cup Publishing

\* A marker was written by a staging that got that far.
MarkedBy ==
  marker => \E e \in Calls : tool[e] = "stage" /\ at[e] \in {"record"} \cup Ended

\* What a staging has made of the tree.
StagingFits(c) ==
  /\ at[c] = "copy" => \A f \in Files : f \in todo[c] \/ tree[f] = Original
  /\ at[c] \in {"init", "commit", "mark", "record"} => tree = Snapshot
  /\ at[c] \in {"mark", "record"} => git = "baseline" /\ base = Snapshot

\* The whole snapshot, the files of which differ from it only by edits.
FileFine(content) ==
  content.present /\ (content = Original \/ content.edits # {})

Snapshotted ==
  git = "baseline" /\ base = Snapshot /\ \A f \in Files : FileFine(tree[f])

NoStaging == \A c \in Calls : at[c] \notin Staging

HasEdit(content) == content.edits # {}

\* A publish takes what has edits and leaves what has none.
PublishFits(c) ==
  /\ at[c] \in {"collect", "publish", "published"} =>
       \A f \in Files \ changed[c] : verified[c][f] = Original
  /\ at[c] = "collect" =>
       /\ \A f \in changed[c] : HasEdit(tree[f])
       /\ \A f \in changed[c] \ todo[c] : HasEdit(collected[c][f])
  /\ at[c] \in {"publish", "published"} =>
       \A f \in changed[c] : HasEdit(collected[c][f])

Calm == ~FailedRestaging /\ StagedAlone

ExactInv ==
  /\ MarkedBy
  /\ \A c \in Calls : at[c] \in PastGuard => marker
  /\ StagedAlone => \A c \in Calls : StagingFits(c)
  /\ Calm => /\ marker /\ NoStaging => Snapshotted
             /\ \A c \in Calls : PublishFits(c)

\* Only what stages, writes or runs changes the sandbox's files and marker.
LEMMA TreeFrame ==
  ASSUME NEW d \in Calls, CallStep(d), ~StageStep(d)
  PROVE  /\ marker' = marker /\ git' = git /\ base' = base
         /\ WriteFile(d) \/ RunCommands(d) \/ tree' = tree
BY DEF CallStep, Begin, AssertSnapshotReady, ReadFile, WriteFile, VerifyStep,
       ApplyNetworkPolicy, FallBackToAllowAll, SkipVerification, RunCommands,
       RunnerThrows, RestoreDenyAll, RestoreFails, PublishStep, CollectStatus,
       CollectFile, PublishFix, sandbox

\* Where a staging goes.
LEMMA StageFrame ==
  ASSUME TypeOK, NEW d \in Calls, StageStep(d)
  PROVE  /\ at[d] \in Staging
         /\ at'[d] \in Staging \cup {"done", "failed"}
         /\ at'[d] = "done" => at[d] = "record"
         /\ at'[d] = "record" => WriteSnapshotMarker(d)
         /\ marker' # marker => WriteSnapshotMarker(d)
         /\ at[d] = "record" => /\ tree' = tree /\ git' = git /\ base' = base
                                /\ at'[d] \in Ended
BY DEF StageStep, RemoveTree, RemovalFails, CopyFile, InitRepository,
       CommitBaseline, WriteSnapshotMarker, RecordStaged, StagingFails, At, Goto,
       Fails, TypeOK, Staging, Ended, sandbox

\* The points that the other tools go through.
LEMMA OtherFrame ==
  ASSUME TypeOK, NEW d \in Calls, CallStep(d), ~StageStep(d)
  PROVE  /\ at[d] \notin Staging
         /\ at'[d] \in Staging => at'[d] = "remove"
         /\ at'[d] \in PastGuard => marker \/ at[d] \in PastGuard
<1> USE DEF At, Goto, Fails, TypeOK, Staging, PastGuard, Verifying, Publishing
<1>1. CASE Begin(d)
  BY <1>1 DEF Begin
<1>2. CASE AssertSnapshotReady(d)
  BY <1>2 DEF AssertSnapshotReady
<1>3. CASE ReadFile(d) \/ WriteFile(d)
  BY <1>3 DEF ReadFile, WriteFile
<1>4. CASE VerifyStep(d)
  BY <1>4 DEF VerifyStep, ApplyNetworkPolicy, FallBackToAllowAll,
              SkipVerification, RunCommands, RunnerThrows, RestoreDenyAll,
              RestoreFails, AfterVerification
<1>5. CASE CollectStatus(d)
  BY <1>5 DEF CollectStatus, Report
<1>6. CASE CollectFile(d) \/ PublishFix(d)
  BY <1>6 DEF CollectFile, Collects, PublishFix
<1> QED
  BY <1>1, <1>2, <1>3, <1>4, <1>5, <1>6 DEF CallStep, PublishStep

\* Where every staging is alone, it is the only call under way.
LEMMA Alone ==
  ASSUME WorkspaceAssumption, OverlapFits, PointsFit, StagedAlone,
         NEW c \in Calls, NEW d \in Calls, at[c] \in Staging, at[d] \in InFlight
  PROVE  c = d
<1>1. at[c] \in InFlight /\ tool[c] = "stage"
  BY DEF PointsFit, InFlight
<1>2. overlap[c] = {}
  BY <1>1 DEF StagedAlone
<1> QED
  BY <1>1, <1>2, Together

\* No call is beside a staging any more once one was.
LEMMA AloneBefore ==
  ASSUME TypeOK, OverlapFits, NEW d \in Calls, CallStep(d), StagedAlone'
  PROVE  StagedAlone
<1> SUFFICES ASSUME NEW c \in Calls, tool[c] = "stage" PROVE overlap[c] = {}
  BY DEF StagedAlone
<1>1. CASE at[c] = "idle"
  <2>1. overlap[c] \subseteq Calls
    BY DEF TypeOK
  <2> QED
    BY <1>1, <2>1 DEF OverlapFits
<1>2. CASE at[c] # "idle"
  <2>1. tool'[c] = "stage" /\ overlap[c] \subseteq overlap'[c]
    BY <1>2, OverlapGrows
  <2> QED
    BY <2>1 DEF StagedAlone
<1> QED
  BY <1>1, <1>2

\* A step while a staging is under way is one of the staging.
LEMMA StagingGoesOn ==
  ASSUME WorkspaceAssumption, TypeOK, OverlapFits, PointsFit,
         NEW d \in Calls, CallStep(d), StagedAlone', NEW c \in Calls,
         at[c] \in Staging
  PROVE  c = d
<1>1. CASE Begin(d)
  <2>1. at[c] \in InFlight /\ at[c] # "idle" /\ tool[c] = "stage"
    BY DEF PointsFit, InFlight, Staging
  <2>2. c # d
    BY <1>1, <2>1, BeginStep
  <2>3. d \in overlap'[c]
    BY <1>1, <2>1, <2>2, BeginStep
  <2>4. tool'[c] = "stage"
    BY <2>1, OverlapGrows
  <2> QED
    BY <2>3, <2>4 DEF StagedAlone
<1>2. CASE ~Begin(d)
  BY <1>2, UnderWayStep, AloneBefore, Alone
<1> QED
  BY <1>1, <1>2

\* A staging whose call comes after another's is a restaging.
LEMMA LaterStaging ==
  ASSUME WorkspaceAssumption, OverlapFits, PointsFit, StagedAlone, MarkedBy,
         marker, NEW d \in Calls, at[d] \in Staging, at[d] # "record"
  PROVE  \E e \in Calls : e < d /\ tool[e] = "stage" /\ at[e] \in Ended
<1>1. PICK e \in Calls : tool[e] = "stage" /\ at[e] \in {"record"} \cup Ended
  BY DEF MarkedBy
<1>2. at[d] \in InFlight /\ at[d] \notin Ended /\ tool[d] = "stage"
  BY DEF PointsFit, InFlight, Staging, Ended
<1>3. at[e] # "idle" /\ e # d
  BY <1>1, <1>2 DEF Ended
<1>4. at[e] \in Ended
  BY <1>1, <1>2, <1>3, Alone DEF InFlight, Staging
<1>5. ~(d < e)
  BY <1>2, <1>3 DEF OverlapFits, StagedAlone
<1>6. e < d
  BY <1>3, <1>5 DEF Calls, WorkspaceAssumption
<1> QED
  BY <1>1, <1>4, <1>6

\* A restaging that failed is not forgotten.
LEMMA FailureStays ==
  ASSUME TypeOK, NEW d \in Calls, CallStep(d), FailedRestaging
  PROVE  FailedRestaging'
<1>1. PICK c, e \in Calls : /\ e < c /\ tool[c] = "stage" /\ tool[e] = "stage"
                            /\ at[c] = "failed" /\ at[e] # "idle"
  BY DEF FailedRestaging
<1>2. c # d
  BY <1>1, Onward DEF Ended
<1>3. at'[c] = "failed" /\ tool'[c] = "stage"
  BY <1>1, <1>2, Frame DEF CallStep
<1>4. at'[e] # "idle" /\ tool'[e] = "stage"
  <2>1. CASE e = d
    BY <1>1, <2>1, Onward
  <2>2. CASE e # d
    BY <1>1, <2>2, Frame DEF CallStep
  <2> QED
    BY <2>1, <2>2
<1> QED
  BY <1>1, <1>3, <1>4 DEF FailedRestaging

\* The marker stays the mark of a staging,
LEMMA MarkedStep ==
  ASSUME TypeOK, PointsFit, MarkedBy, NEW d \in Calls, CallStep(d)
  PROVE  MarkedBy'
<1>1. CASE WriteSnapshotMarker(d)
  <2>1. at[d] = "mark" /\ at'[d] = "record" /\ tool' = tool
    BY <1>1 DEF WriteSnapshotMarker, At, Goto, TypeOK
  <2> QED
    BY <2>1 DEF MarkedBy, PointsFit, Staging
<1>2. ASSUME ~WriteSnapshotMarker(d), marker' PROVE MarkedBy'
  <2>1. marker
    BY <1>2, TreeFrame, StageFrame
  <2>2. PICK e \in Calls : tool[e] = "stage" /\ at[e] \in {"record"} \cup Ended
    BY <2>1 DEF MarkedBy
  <2>3. CASE e # d
    BY <2>2, <2>3, Frame DEF CallStep, MarkedBy
  <2>4. CASE e = d
    <3>1. at[d] = "record" /\ tool'[d] = "stage"
      BY <2>2, <2>4, Onward DEF Ended
    <3>2. at'[d] \in Ended
      BY <3>1, StageFrame, OtherFrame DEF Staging
    <3> QED
      BY <3>1, <3>2 DEF MarkedBy
  <2> QED
    BY <2>3, <2>4
<1> QED
  BY <1>1, <1>2 DEF MarkedBy

\* a staging fills the tree and commits it,
LEMMA StagingStep ==
  ASSUME TypeOK, NEW d \in Calls, CallStep(d), StagingFits(d)
  PROVE  StagingFits(d)'
<1>0. tree \in [Files -> Content] /\ todo \in [Calls -> SUBSET Files]
  BY DEF TypeOK, Tree
<1>1. CASE ~StageStep(d)
  BY <1>1, OtherFrame DEF StagingFits, Staging
<1>2. CASE RemoveTree(d)
  <2>1. at'[d] = "copy" /\ todo'[d] = Files
    BY <1>0, <1>2 DEF RemoveTree, Goto, TypeOK
  <2> QED
    BY <2>1 DEF StagingFits
<1>3. CASE CopyFile(d)
  <2>1. PICK f \in todo[d] :
          /\ tree' = With(tree, f, Original)
          /\ todo' = [todo EXCEPT ![d] = @ \ {f}]
          /\ Goto(d, IF todo[d] = {f} THEN "init" ELSE "copy")
    BY <1>3 DEF CopyFile
  <2>2. /\ at'[d] = IF todo[d] = {f} THEN "init" ELSE "copy"
        /\ todo'[d] = todo[d] \ {f} /\ f \in Files
    BY <1>0, <2>1 DEF Goto, TypeOK
  <2>3. \A g \in Files : g \in todo'[d] \/ tree'[g] = Original
    BY <1>0, <1>3, <2>1, <2>2 DEF With, StagingFits, CopyFile, At
  <2>4. todo[d] = {f} => tree' = Snapshot
    <3>1. ASSUME todo[d] = {f} PROVE \A g \in Files : tree'[g] = Original
      BY <2>2, <2>3, <3>1
    <3>2. tree' = [g \in Files |-> tree'[g]]
      BY <1>0, <2>1 DEF With
    <3> QED
      BY <3>1, <3>2 DEF Snapshot
  <2> QED
    BY <2>2, <2>3, <2>4 DEF StagingFits
<1>4. CASE InitRepository(d)
  BY <1>4 DEF InitRepository, StagingFits, At, Goto, TypeOK
<1>5. CASE CommitBaseline(d)
  BY <1>5 DEF CommitBaseline, StagingFits, At, Goto, TypeOK
<1>6. CASE WriteSnapshotMarker(d)
  BY <1>6 DEF WriteSnapshotMarker, StagingFits, At, Goto, TypeOK
<1>7. CASE RemovalFails(d) \/ RecordStaged(d) \/ StagingFails(d)
  <2>1. at'[d] \in {"done", "failed"}
    BY <1>7 DEF RemovalFails, RecordStaged, StagingFails, Fails, Goto, TypeOK
  <2> QED
    BY <2>1 DEF StagingFits
<1> QED
  BY <1>1, <1>2, <1>3, <1>4, <1>5, <1>6, <1>7 DEF StageStep

\* and what it left is whole until a restaging fails: every other step adds
\* edits to files that are there.
LEMMA SnapshotStep ==
  ASSUME WorkspaceAssumption, OverlapInv, ExactInv, NEW d \in Calls,
         CallStep(d), Calm', marker', NoStaging'
  PROVE  Snapshotted'
<1>0. TypeOK /\ OverlapFits /\ PointsFit
  BY DEF OverlapInv
<1>1. ~FailedRestaging /\ StagedAlone
  BY <1>0, FailureStays, AloneBefore DEF Calm
<1>2. CASE StageStep(d)
  <2>1. at[d] \in Staging /\ at'[d] \in {"done", "failed"} /\ marker
    <3>1. ~WriteSnapshotMarker(d)
      BY <1>0 DEF WriteSnapshotMarker, Goto, TypeOK, NoStaging, Staging
    <3> QED
      BY <1>0, <1>2, <3>1, StageFrame DEF NoStaging
  <2>2. at[d] = "record"
    <3>1. SUFFICES ASSUME at[d] # "record" PROVE FALSE
      OBVIOUS
    <3>2. PICK e \in Calls : e < d /\ tool[e] = "stage" /\ at[e] \in Ended
      BY <1>0, <1>1, <2>1, <3>1, LaterStaging DEF ExactInv
    <3>3. at'[e] # "idle" /\ tool'[e] = "stage"
      BY <1>0, <3>2, OverlapGrows DEF Ended
    <3>4. at'[d] = "failed"
      BY <1>0, <1>2, <2>1, <3>1, StageFrame
    <3>5. tool'[d] = "stage"
      BY <1>0, <2>1, Onward DEF PointsFit, Staging
    <3> QED
      BY <3>2, <3>3, <3>4, <3>5 DEF FailedRestaging, Calm
  <2>3. tree' = Snapshot /\ git' = "baseline" /\ base' = Snapshot
    BY <1>0, <1>1, <1>2, <2>2, StageFrame DEF ExactInv, StagingFits
  <2> QED
    BY <2>3 DEF Snapshotted, Snapshot, FileFine, Original
<1>3. CASE ~StageStep(d)
  <2>1. NoStaging
    <3>1. at[d] \notin Staging
      BY <1>0, <1>3, OtherFrame
    <3>2. \A c \in Calls : c # d => at'[c] = at[c]
      BY <1>0, Frame DEF CallStep
    <3> QED
      BY <3>1, <3>2 DEF NoStaging
  <2>2. Snapshotted /\ marker' = marker /\ git' = git /\ base' = base
    BY <1>1, <1>3, <2>1, TreeFrame DEF ExactInv, Calm
  <2>3. \A f \in Files : tree'[f] = tree[f] \/ \E x : tree'[f] = Edited(x, d)
    BY <1>0, <1>3, FileStep
  <2>4. \A x : FileFine(Edited(x, d))
    BY DEF FileFine, Edited
  <2> QED
    BY <2>2, <2>3, <2>4 DEF Snapshotted
<1> QED
  BY <1>2, <1>3

\* A status reports what differs from the snapshot, all of it edited, and leaves
\* what was not edited when the commands passed either.
LEMMA StatusFits ==
  ASSUME WorkspaceAssumption, OverlapInv, ExactInv, Calm, NEW d \in Calls,
         CollectStatus(d)
  PROVE  PublishFits(d)'
<1>0. TypeOK /\ OverlapFits /\ PointsFit /\ VerifiedFits(d)
  BY DEF OverlapInv
<1>1. /\ at[d] = "status" /\ tree' = tree /\ verified' = verified
      /\ at'[d] \in {"collect", "publish", "done", "failed"}
      /\ at'[d] \in {"collect", "publish"} =>
           changed'[d] = StatusEntries /\ todo'[d] = Present(StatusEntries)
      /\ at'[d] = "publish" => todo'[d] = {}
  BY <1>0, ReportFits
<1>2. Snapshotted
  <2>1. marker
    BY <1>1 DEF ExactInv, PastGuard, Publishing
  <2>2. NoStaging
    <3>1. at[d] \in InFlight /\ at[d] \notin Staging
      BY <1>1 DEF InFlight, Publishing, Staging
    <3> QED
      BY <1>0, <3>1, Alone DEF NoStaging, Calm
  <2> QED
    BY <2>1, <2>2 DEF ExactInv, Calm
<1>3. /\ \A f \in Files : f \in StatusEntries <=> tree[f] # Original
      /\ StatusEntries \subseteq Files
  BY <1>2 DEF StatusEntries, Snapshotted, Snapshot
<1>4. Present(StatusEntries) = StatusEntries
  BY <1>2, <1>3 DEF Present, Snapshotted, FileFine
<1>5. ASSUME NEW f \in Files \ StatusEntries PROVE verified[d][f] = Original
  <2>1. tree[f] = Original /\ Explained(d, f, tree[f])
    BY <1>0, <1>1, <1>3 DEF VerifiedFits, TreeExplained
  <2>2. ASSUME NEW e \in overlap[d],
               tool[e] = "stage" \/ e \in Original.edits \ verified[d][f].edits
        PROVE  FALSE
    <3>1. tool[e] = "stage" /\ e \in Calls
      BY <1>0, <2>2 DEF Original, TypeOK
    <3>2. d \in overlap[e]
      BY <1>0, <3>1 DEF OverlapFits
    <3> QED
      BY <3>1, <3>2 DEF Calm, StagedAlone
  <2> QED
    BY <2>1, <2>2 DEF Explained
<1>6. \A f \in StatusEntries : HasEdit(tree[f])
  BY <1>2, <1>3 DEF Snapshotted, FileFine, HasEdit
<1> HIDE DEF StatusEntries
<1> QED
  BY <1>1, <1>4, <1>5, <1>6 DEF PublishFits

\* A step of a call keeps its own publish fitting,
LEMMA OwnPublish ==
  ASSUME WorkspaceAssumption, OverlapInv, ExactInv, Calm, NEW d \in Calls,
         CallStep(d)
  PROVE  PublishFits(d)'
<1>0. TypeOK /\ PublishFits(d)
  BY DEF OverlapInv, ExactInv
<1>1. CASE CollectStatus(d)
  BY <1>1, StatusFits
<1>2. CASE CollectFile(d)
  <2>1. /\ at[d] = "collect" /\ at'[d] \in {"collect", "publish", "failed"}
        /\ tree' = tree /\ verified' = verified /\ changed' = changed
        /\ at'[d] = "publish" => todo'[d] = {}
    BY <1>0, <1>2, CollectFits
  <2>2. /\ \A f \in Files \ changed[d] : verified[d][f] = Original
        /\ \A f \in changed[d] : HasEdit(tree[f])
        /\ \A f \in changed[d] \ todo[d] : HasEdit(collected[d][f])
        /\ changed[d] \subseteq Files
    BY <1>0, <2>1 DEF PublishFits, TypeOK
  <2>3. at'[d] # "failed" =>
          \A f \in changed[d] \ todo'[d] : HasEdit(collected'[d][f])
    <3>1. SUFFICES ASSUME at'[d] # "failed", NEW g \in changed[d] \ todo'[d]
                   PROVE  HasEdit(collected'[d][g])
      OBVIOUS
    <3>2. PICK f \in todo[d] :
            /\ todo'[d] = todo[d] \ {f} /\ f \in Files
            /\ \A h \in Files : collected'[d][h] =
                                  IF h = f THEN tree[h] ELSE collected[d][h]
      BY <1>0, <1>2, <3>1, CollectFits
    <3>3. g \in Files /\ (g # f => g \in changed[d] \ todo[d])
      BY <2>2, <3>1, <3>2
    <3> QED
      BY <2>2, <3>2, <3>3
  <2> QED
    BY <2>1, <2>2, <2>3 DEF PublishFits
<1>3. CASE ~CollectStatus(d) /\ ~CollectFile(d)
  <2>1. /\ at'[d] \notin {"collect", "publish"}
        /\ at'[d] = "published" =>
             /\ at[d] = "publish" /\ verified' = verified
             /\ changed' = changed /\ collected' = collected
    BY <1>0, <1>3, VerifyFrame
  <2> QED
    BY <1>0, <2>1 DEF PublishFits
<1> QED
  BY <1>1, <1>2, <1>3

\* and that of the others: what has edits keeps some.
LEMMA OthersPublish ==
  ASSUME WorkspaceAssumption, OverlapInv, ExactInv, Calm, NEW d \in Calls,
         CallStep(d), NEW c \in Calls, c # d
  PROVE  PublishFits(c)'
<1>0. TypeOK /\ OverlapFits /\ PointsFit /\ PublishFits(c)
  BY DEF OverlapInv, ExactInv
<1>1. /\ at'[c] = at[c] /\ verified'[c] = verified[c] /\ todo'[c] = todo[c]
      /\ changed'[c] = changed[c] /\ collected'[c] = collected[c]
  BY <1>0, Frame DEF CallStep
<1>2. ASSUME at[c] = "collect", NEW f \in changed[c] PROVE HasEdit(tree'[f])
  <2>1. HasEdit(tree[f]) /\ f \in Files
    BY <1>0, <1>2 DEF PublishFits, TypeOK
  <2>2. at[d] \notin Staging
    BY <1>0, <1>2, Alone DEF Calm, InFlight, Publishing
  <2>3. HasEdit(Edited(text[d], d)) /\ HasEdit(Edited(tree[f], d))
    BY DEF HasEdit, Edited
  <2>4. \/ tree'[f] = tree[f]
        \/ tree'[f] = Edited(text[d], d) \/ tree'[f] = Edited(tree[f], d)
    BY <1>0, <2>1, <2>2, FileStep
  <2> QED
    BY <2>1, <2>3, <2>4
<1> QED
  BY <1>0, <1>1, <1>2 DEF PublishFits

\* Every step of a call keeps all of it,
LEMMA ExactStep ==
  ASSUME WorkspaceAssumption, OverlapInv, ExactInv, NEW d \in Calls, CallStep(d)
  PROVE  ExactInv'
<1>0. TypeOK /\ OverlapFits /\ PointsFit
  BY DEF OverlapInv
<1>1. MarkedBy'
  BY <1>0, MarkedStep DEF ExactInv
<1>2. marker => marker'
  BY <1>0, TreeFrame, StageFrame DEF WriteSnapshotMarker
<1>3. ASSUME NEW c \in Calls, at'[c] \in PastGuard PROVE marker'
  <2>1. CASE c = d
    BY <1>0, <1>2, <1>3, <2>1, OtherFrame, StageFrame
    DEF ExactInv, Staging, PastGuard, Verifying, Publishing
  <2>2. CASE c # d
    BY <1>0, <1>2, <1>3, <2>2, Frame DEF CallStep, ExactInv
  <2> QED
    BY <2>1, <2>2
<1>4. ASSUME StagedAlone', NEW c \in Calls PROVE StagingFits(c)'
  <2>1. StagingFits(c)
    BY <1>0, <1>4, AloneBefore DEF ExactInv
  <2>2. CASE c = d
    BY <1>0, <2>1, <2>2, StagingStep
  <2>3. CASE c # d
    <3>1. at'[c] = at[c] /\ at[c] \notin Staging
      BY <1>0, <1>4, <2>3, Frame, StagingGoesOn DEF CallStep
    <3> QED
      BY <3>1 DEF StagingFits, Staging
  <2> QED
    BY <2>2, <2>3
<1>5. ASSUME Calm', NEW c \in Calls PROVE PublishFits(c)'
  <2>1. Calm
    BY <1>0, <1>5, FailureStays, AloneBefore DEF Calm
  <2> QED
    BY <2>1, OwnPublish, OthersPublish
<1>6. Calm' /\ marker' /\ NoStaging' => Snapshotted'
  BY SnapshotStep
<1> QED
  BY <1>1, <1>3, <1>4, <1>5, <1>6 DEF ExactInv

\* and so does a crash: a staging that it ends is one that failed.
LEMMA ExactCrash ==
  ASSUME WorkspaceAssumption, OverlapInv, ExactInv, Crash
  PROVE  ExactInv'
<1>0. TypeOK /\ OverlapFits /\ PointsFit
  BY DEF OverlapInv
<1>1. /\ marker' = marker /\ git' = git /\ base' = base /\ tree' = tree
      /\ tool' = tool /\ todo' = todo /\ verified' = verified
      /\ changed' = changed /\ collected' = collected /\ overlap' = overlap
  BY CrashFrame
<1>2. \A c \in Calls : /\ at[c] \in InFlight => at'[c] = "failed"
                       /\ at[c] \notin InFlight => at'[c] = at[c]
                       /\ at'[c] = "idle" => at[c] = "idle"
  BY CrashFrame
<1>3. MarkedBy'
  BY <1>1, <1>2 DEF ExactInv, MarkedBy, Ended
<1>4. \A c \in Calls : at'[c] \notin InFlight
  BY <1>2 DEF InFlight, Staging, Verifying, Publishing
<1>5. \A c \in Calls : at'[c] \notin PastGuard /\ StagingFits(c)'
  BY <1>4 DEF PastGuard, StagingFits, InFlight, Staging
<1>6. ASSUME Calm' PROVE Calm
  <2>1. StagedAlone
    BY <1>1, <1>6 DEF Calm, StagedAlone
  <2>2. ASSUME FailedRestaging PROVE FailedRestaging'
    <3>1. PICK c, e \in Calls : /\ e < c /\ tool[c] = "stage"
                                /\ tool[e] = "stage"
                                /\ at[c] = "failed" /\ at[e] # "idle"
      BY <2>2 DEF FailedRestaging
    <3>2. at'[c] = "failed" /\ at'[e] # "idle"
      BY <1>2, <3>1
    <3> QED
      BY <1>1, <3>1, <3>2 DEF FailedRestaging
  <2> QED
    BY <1>6, <2>1, <2>2 DEF Calm
<1>7. ASSUME Calm', NEW c \in Calls PROVE PublishFits(c)'
  <2>1. PublishFits(c)
    BY <1>6, <1>7 DEF ExactInv
  <2>2. at'[c] \notin {"collect", "publish"}
    BY <1>4 DEF InFlight, Publishing
  <2>3. at'[c] = "published" => at[c] = "published"
    BY <1>2
  <2> QED
    BY <1>1, <2>1, <2>2, <2>3 DEF PublishFits
<1>8. ASSUME Calm', marker' PROVE Snapshotted'
  <2>1. Calm /\ marker
    BY <1>1, <1>6, <1>8
  <2>2. CASE NoStaging
    BY <1>1, <2>1, <2>2 DEF ExactInv, Snapshotted
  <2>3. ASSUME NEW d \in Calls, at[d] \in Staging PROVE Snapshotted'
    <3>1. CASE at[d] = "record"
      <4>1. tree = Snapshot /\ git = "baseline" /\ base = Snapshot
        BY <2>1, <3>1 DEF ExactInv, StagingFits, Calm
      <4> QED
        BY <1>1, <4>1 DEF Snapshotted, Snapshot, FileFine, Original
    <3>2. CASE at[d] # "record"
      <4>1. PICK e \in Calls : e < d /\ tool[e] = "stage" /\ at[e] \in Ended
        BY <1>0, <2>1, <2>3, <3>2, LaterStaging DEF ExactInv, Calm
      <4>2. at'[d] = "failed" /\ at'[e] # "idle" /\ tool[d] = "stage"
        BY <1>0, <1>2, <2>3, <4>1 DEF PointsFit, InFlight, Ended
      <4> QED
        BY <1>1, <1>8, <4>1, <4>2 DEF FailedRestaging, Calm
    <3> QED
      BY <3>1, <3>2
  <2> QED
    BY <2>2, <2>3 DEF NoStaging
<1> QED
  BY <1>3, <1>5, <1>7, <1>8 DEF ExactInv

\* However edits, checks and publishes overlap: where no staging overlaps with
\* another call and no restaging has failed, a publish makes the snapshot into
\* the tree that was verified (assertSandboxSnapshotReady, collectSandboxChanges).
THEOREM PublishesAreExact == Spec => []PublishIsExact
<1>1. WorkspaceAssumption
  BY WorkspaceAssumption
<1>2. Init => ExactInv
  BY DEF Init, ExactInv, MarkedBy, StagingFits, PublishFits, PastGuard,
     Verifying, Publishing
<1>3. OverlapInv /\ ExactInv /\ [Next]_vars => ExactInv'
  <2> SUFFICES ASSUME OverlapInv, ExactInv, [Next]_vars PROVE ExactInv'
    OBVIOUS
  <2>1. CASE \E d \in Calls : CallStep(d)
    BY <1>1, <2>1, ExactStep
  <2>2. CASE Crash
    BY <1>1, <2>2, ExactCrash
  <2>3. CASE OtherSessions \/ UNCHANGED vars
    <3>1. /\ marker' = marker /\ git' = git /\ base' = base /\ tree' = tree
          /\ tool' = tool /\ at' = at /\ todo' = todo /\ verified' = verified
          /\ changed' = changed /\ collected' = collected /\ overlap' = overlap
      BY <2>3 DEF OtherSessions, vars, sandbox, publishing, history
    <3> QED
      BY <3>1 DEF ExactInv, MarkedBy, StagingFits, Calm, FailedRestaging,
         StagedAlone, NoStaging, Snapshotted, PublishFits
  <2> QED
    BY <2>1, <2>2, <2>3 DEF Next, CallStep
<1>4. ExactInv => PublishIsExact
  BY DEF ExactInv, Calm, PublishFits, HasEdit, PublishIsExact, Published
<1> QED
  BY <1>2, <1>3, <1>4, OverlapAlways, PTL DEF Spec

-----------------------------------------------------------------------------

\* In a session whose calls are made one after the other no call has another
\* beside it, and the theorems hold of it without their exceptions.
LEMMA NothingOverlaps == ~Parallel => (Spec => [](\A c \in Calls : overlap[c] = {}))
<1> DEFINE Nothing == \A c \in Calls : overlap[c] = {}
<1> SUFFICES ASSUME ~Parallel PROVE Spec => []Nothing
  OBVIOUS
<1>1. Init => Nothing
  BY DEF Init
<1>2. TypeOK /\ Nothing /\ [Next]_vars => Nothing'
  <2> SUFFICES ASSUME TypeOK, Nothing, [Next]_vars PROVE Nothing'
    OBVIOUS
  <2>1. ASSUME NEW d \in Calls, Begin(d) PROVE Nothing'
    <3>1. UnderWay = {}
      BY <2>1 DEF Begin, UnderWay
    <3> QED
      BY <2>1, <3>1, BeginStep DEF UnderWay
  <2>2. ASSUME NEW d \in Calls, CallStep(d), ~Begin(d) PROVE Nothing'
    BY <2>2, UnderWayStep
  <2>3. CASE OtherSessions \/ Crash \/ UNCHANGED vars
    BY <2>3, CrashFrame DEF OtherSessions, vars, history
  <2> QED
    BY <2>1, <2>2, <2>3 DEF Next, CallStep
<1> QED
  BY <1>1, <1>2, TypeInvariant, PTL DEF Spec

=============================================================================
