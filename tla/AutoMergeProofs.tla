--------------------------- MODULE AutoMergeProofs ---------------------------
(***************************************************************************)
(* Theorems about AutoMerge, for any number of attempts, publishes and     *)
(* deliveries and any faults.                                              *)
(***************************************************************************)
EXTENDS AutoMerge, TLAPS

-----------------------------------------------------------------------------
\* The inductive invariant.

KnownChange(n, b) == n \in DOMAIN changes /\ changes[n].branch = b

NotOpen(n) == n \in DOMAIN changes => changes[n].state # "open"

\* The tasks whose request stands for a merge asked for or about to be.
Asks(x) == at[x] \in {"claiming", "opened"} \/ request[x].answer # "none"

\* A tool merges nothing that has to wait.
ToolEntitled(x) ==
  /\ request[x].attempt = AttemptOf[x]
  /\ request[x].answer # "none" => AttemptOf[x] \notin GreenRequired

\* A handler merges nothing but the commit it was told of, or what cannot be
\* merged any more.
HandlerEntitled(d) ==
  /\ d \notin Untrusted
  /\ BranchOf[request[d].attempt] = FixBranch(CommitOf[d])
  /\ \/ request[d].pin = CommitOf[d]
     \/ request[d].pin = Absent /\ (request[d].attempt \in GreenRequired =>
                                      NotOpen(request[d].change))

\* A request names a change of the attempt's own branch, its task is entitled
\* to it, and a merge that was answered did happen.
RequestFine(x) ==
  /\ Asks(x) => /\ KnownChange(request[x].change, BranchOf[request[x].attempt])
                /\ x \in Deliveries => HandlerEntitled(x)
                /\ x \notin Deliveries => ToolEntitled(x)
  /\ request[x].answer \in {"accepted", "merged"} =>
       changes[request[x].change].state = "merged"

\* A record names a change of the attempt's branch, which is over if the
\* record has lost its commit or says so.
RecordFine(a) ==
  /\ record[a].change # 0 => KnownChange(record[a].change, BranchOf[a])
  /\ a \in GreenRequired =>
       /\ record[a].commit = Absent => NotOpen(record[a].change)
       /\ record[a].merged => /\ record[a].change # 0
                              /\ changes[record[a].change].state = "merged"

\* The provider's own consistency: a branch points to a commit made for it, an
\* open change has a branch, a merged one was merged from it.
CommitOfBranch(commit, b) == commit \in Publishes /\ FixBranch(commit) = b

ChangeFine(n) ==
  /\ changes[n].state = "open" => head[changes[n].branch] # Absent
  /\ changes[n].state = "merged" =>
       /\ CommitOfBranch(changes[n].commit, changes[n].branch)
       /\ Gated(changes[n].branch) => changes[n].commit \in Green

MergeInv ==
  /\ TypeOK
  /\ \A x \in Tasks : RequestFine(x)
  /\ \A a \in Attempts : RecordFine(a)
  /\ \A b \in Branches : head[b] # Absent => CommitOfBranch(head[b], b)
  /\ \A n \in DOMAIN changes : ChangeFine(n)

-----------------------------------------------------------------------------
\* Typing.

\* The values the steps write are well typed: a merge request,
LEMMA RequestType ==
  /\ \A a \in Attempts, n \in Nat, commit \in Commit :
       ToMerge(a, n, commit) \in MergeRequest
  /\ \A r \in MergeRequest, answer \in {"none", "sent", "accepted", "merged", "error"} :
       Answered(r, answer) \in MergeRequest
BY DEF ToMerge, Answered, MergeRequest

\* a publish record,
LEMMA RecordType ==
  /\ NoPublish \in PublishRecord
  /\ \A commit \in Commit, n \in Nat : Merged(commit, n) \in PublishRecord
  /\ \A r \in PublishRecord, b \in BOOLEAN : WithPending(r, b) \in PublishRecord
BY DEF NoPublish, Merged, WithPending, PublishRecord, Commit

\* and a change.
LEMMA ChangeType ==
  ASSUME NEW change \in Change
  PROVE  /\ \A commit \in Commit :
              /\ MergedAt(change, commit) \in Change
              /\ MergedAt(change, commit).state = "merged"
              /\ MergedAt(change, commit).commit = commit
              /\ MergedAt(change, commit).branch = change.branch
         /\ Closed(change) \in Change
         /\ Closed(change).state = "closed"
         /\ Closed(change).branch = change.branch
         /\ Closed(change).commit = change.commit
BY DEF MergedAt, Closed, Change

\* The initial state is well typed.
LEMMA InitType == Init => TypeOK
<1> SUFFICES ASSUME Init PROVE TypeOK
  OBVIOUS
<1>1. ASSUME NEW x \in Tasks PROVE NoRequest \in MergeRequest
  <2>1. Attempts # {}
    BY MergeAssumption DEF Tasks
  <2>2. (CHOOSE a \in Attempts : TRUE) \in Attempts
    BY <2>1
  <2> QED
    BY <2>2 DEF NoRequest, MergeRequest, Commit
<1>2. <<>> \in Seq(Change)
  OBVIOUS
<1> QED
  BY <1>1, <1>2, RecordType, MergeAssumption DEF Init, TypeOK, Stages

\* Moving a task to a stage keeps the stages well typed.
LEMMA GoesType ==
  ASSUME TypeOK, NEW x, NEW from, NEW to \in Stages, Goes(x, from, to)
  PROVE  at' \in [Tasks -> Stages]
BY DEF TypeOK, Goes

\* Every step of a publish_fix call keeps the state well typed,
LEMMA PublishStepType ==
  ASSUME TypeOK, NEW p \in Publishes, PublishStep(p)
  PROVE  TypeOK'
<1> DEFINE a == AttemptOf[p]
           b == FixBranch(p)
<1>0. /\ p \in Tasks /\ a \in Attempts /\ b \in Branches
      /\ p \in Commit /\ Squash \in Commit /\ Absent \in Commit
      /\ request[p] \in MergeRequest /\ request[p].change \in Nat
      /\ Len(changes) \in Nat
  BY MergeAssumption DEF TypeOK, Tasks, FixBranch, Commit, MergeRequest
<1>1. Published(p) \in PublishRecord
  BY <1>0 DEF Published, PublishRecord
<1>2. \A commit \in {Squash, Absent} :
        Merged(commit, request[p].change) \in PublishRecord
  BY <1>0, RecordType
<1>3. ASSUME PushCommit(p) PROVE TypeOK'
  <2>1. at' \in [Tasks -> Stages]
    BY <1>3, GoesType DEF PushCommit, Stages
  <2> QED
    BY <1>3, <1>0, <2>1 DEF PushCommit, TypeOK
<1>4. ASSUME FindOpenChange(p) PROVE TypeOK'
  <2>1. at' \in [Tasks -> Stages]
    BY <1>4, GoesType DEF FindOpenChange, Stages
  <2>2. \A n \in OpenChanges(b) : ToMerge(a, n, p) \in MergeRequest
    BY <1>0, RequestType DEF OpenChanges, TypeOK
  <2>3. request' \in [Tasks -> MergeRequest]
    BY <1>4, <1>0, <2>2 DEF FindOpenChange, TypeOK
  <2> QED
    BY <1>4, <2>1, <2>3 DEF FindOpenChange, TypeOK, provider
<1>5. ASSUME CreateChange(p) PROVE TypeOK'
  <2>1. at' \in [Tasks -> Stages]
    BY <1>5, GoesType DEF CreateChange, Stages
  <2>2. ToMerge(a, Len(changes) + 1, p) \in MergeRequest
    BY <1>0, RequestType
  <2>3. [branch |-> b, state |-> "open", commit |-> Absent] \in Change
    BY <1>0 DEF Change
  <2>4. request' \in [Tasks -> MergeRequest] /\ changes' \in Seq(Change)
    BY <1>5, <1>0, <2>2, <2>3 DEF CreateChange, TypeOK
  <2> QED
    BY <1>5, <2>1, <2>4 DEF CreateChange, TypeOK
<1>6. ASSUME PublishFails(p) PROVE TypeOK'
  <2>1. at' \in [Tasks -> Stages]
    BY <1>6, GoesType DEF PublishFails, Stages
  <2> QED
    BY <1>6, <2>1 DEF PublishFails, TypeOK, provider
<1>7. ASSUME RecordPublish(p) PROVE TypeOK'
  <2>1. at' \in [Tasks -> Stages]
    BY <1>7, GoesType DEF RecordPublish, Stages
  <2> QED
    BY <1>7, <1>1, <2>1 DEF RecordPublish, TypeOK, provider
<1>8. ASSUME RecordAndMerge(p) PROVE TypeOK'
  <2>1. at' \in [Tasks -> Stages]
    BY <1>8, GoesType DEF RecordAndMerge, Stages
  <2>2. Answered(request[p], "sent") \in MergeRequest
    BY <1>0, RequestType
  <2> QED
    BY <1>8, <1>1, <2>1, <2>2 DEF RecordAndMerge, TypeOK, provider
<1>9. ASSUME FinishImmediateMerge(p) PROVE TypeOK'
  <2>1. at' \in [Tasks -> Stages]
    BY <1>9, GoesType DEF FinishImmediateMerge, Stages
  <2>2. record' \in [Attempts -> PublishRecord]
    BY <1>9, <1>1, <1>2 DEF FinishImmediateMerge, TypeOK
  <2> QED
    BY <1>9, <2>1, <2>2 DEF FinishImmediateMerge, TypeOK, provider
<1> QED
  BY <1>3, <1>4, <1>5, <1>6, <1>7, <1>8, <1>9 DEF PublishStep

\* so does every step of a merge_change call,
LEMMA MergeCallStepType ==
  ASSUME TypeOK, NEW m \in MergeCalls, MergeCallStep(m)
  PROVE  TypeOK'
<1> DEFINE a == AttemptOf[m]
<1>0. /\ m \in Tasks /\ a \in Attempts
      /\ Squash \in Commit /\ Absent \in Commit
      /\ record[a].change \in Nat /\ record[a].commit \in Commit
  BY MergeAssumption DEF TypeOK, Tasks, Commit, PublishRecord
<1>1. ASSUME CallMerge(m) PROVE TypeOK'
  <2>1. at' \in [Tasks -> Stages]
    BY <1>1, GoesType DEF CallMerge, RequestMerge, Stages
  <2>2. Answered(ToMerge(a, record[a].change, record[a].commit), "sent")
          \in MergeRequest
    BY <1>0, RequestType
  <2> QED
    BY <1>1, <2>1, <2>2 DEF CallMerge, RequestMerge, TypeOK, provider
<1>2. ASSUME FinishMergeCall(m) PROVE TypeOK'
  <2>1. at' \in [Tasks -> Stages]
    BY <1>2, GoesType DEF FinishMergeCall, Stages
  <2>2. \A commit \in {Squash, Absent} :
          Merged(commit, record[a].change) \in PublishRecord
    BY <1>0, RecordType
  <2>3. record' \in [Attempts -> PublishRecord]
    BY <1>2, <2>2 DEF FinishMergeCall, TypeOK
  <2> QED
    BY <1>2, <2>1, <2>3 DEF FinishMergeCall, TypeOK, provider
<1> QED
  BY <1>1, <1>2 DEF MergeCallStep

\* every step of a success handler,
LEMMA HandlerStepType ==
  ASSUME TypeOK, NEW d \in Deliveries, ReceiveSuccess(d) \/ HandlerStep(d)
  PROVE  TypeOK'
<1> DEFINE a == request[d].attempt
<1>0. /\ d \in Tasks /\ a \in Attempts /\ request[d] \in MergeRequest
      /\ request[d].change \in Nat /\ record[a] \in PublishRecord
      /\ Squash \in Commit /\ Absent \in Commit
      /\ LookupRetries \in Nat /\ lookups[d] \in 0 .. LookupRetries
  BY MergeAssumption DEF TypeOK, Tasks, Commit, MergeRequest
<1>g. \A from, to \in Stages : Goes(d, from, to) => at' \in [Tasks -> Stages]
  BY GoesType
<1>1. CASE ReceiveSuccess(d)
  <2>1. at' \in [Tasks -> Stages]
    BY <1>1, <1>g DEF ReceiveSuccess, Stages
  <2> QED
    BY <1>1, <1>0, <2>1 DEF ReceiveSuccess, TypeOK, provider
<1>2. CASE FindPending(d)
  <2>1. at' \in [Tasks -> Stages]
    BY <1>2, <1>g DEF FindPending, Stages
  <2>2. \A e \in PendingAutoMerge(d) :
          ToMerge(e, record[e].change, record[e].commit) \in MergeRequest
    BY RequestType DEF PendingAutoMerge, TypeOK, PublishRecord
  <2>3. request' \in [Tasks -> MergeRequest]
    BY <1>2, <1>0, <2>2 DEF FindPending, TypeOK
  <2> QED
    BY <1>2, <2>1, <2>3 DEF FindPending, TypeOK, provider
<1>3. CASE FindNothing(d)
  BY <1>3, <1>0 DEF FindNothing, TypeOK, provider
<1>4. CASE GiveUpLooking(d) \/ ClaimLost(d)
  <2>1. at' \in [Tasks -> Stages]
    BY <1>4, <1>g DEF GiveUpLooking, ClaimLost, Stages
  <2> QED
    BY <1>4, <2>1 DEF GiveUpLooking, ClaimLost, TypeOK, provider
<1>5. CASE ClaimAutoMerge(d)
  <2>1. at' \in [Tasks -> Stages]
    BY <1>5, <1>g DEF ClaimAutoMerge, Stages
  <2>2. /\ WithPending(record[a], FALSE) \in PublishRecord
        /\ Answered(request[d], "sent") \in MergeRequest
    BY <1>0, RecordType, RequestType
  <2> QED
    BY <1>5, <2>1, <2>2 DEF ClaimAutoMerge, TypeOK, provider
<1>6. CASE RecordMerge(d)
  <2>1. at' \in [Tasks -> Stages]
    BY <1>6, <1>g DEF RecordMerge, Stages
  <2>2. \A commit \in {Squash, Absent} :
          Merged(commit, request[d].change) \in PublishRecord
    BY <1>0, RecordType
  <2>3. record' \in [Attempts -> PublishRecord]
    BY <1>6, <2>2 DEF RecordMerge, TypeOK
  <2> QED
    BY <1>6, <2>1, <2>3 DEF RecordMerge, TypeOK, provider
<1>7. CASE RestoreAutoMergeClaim(d)
  <2>1. at' \in [Tasks -> Stages]
    BY <1>7, <1>g DEF RestoreAutoMergeClaim, Stages
  <2>2. WithPending(record[a], TRUE) \in PublishRecord
    BY <1>0, RecordType
  <2> QED
    BY <1>7, <2>1, <2>2 DEF RestoreAutoMergeClaim, TypeOK, provider
<1>8. CASE ReleaseDelivery(d)
  <2>1. at' \in [Tasks -> Stages]
    BY <1>8, <1>g DEF ReleaseDelivery, Stages
  <2> QED
    BY <1>8, <2>1 DEF ReleaseDelivery, TypeOK, provider
<1> QED
  BY <1>1, <1>2, <1>3, <1>4, <1>5, <1>6, <1>7, <1>8 DEF HandlerStep

-----------------------------------------------------------------------------
\* The provider.

\* What a step may do to the changes: those there are keep their branch and
\* leave the state open at most once, for good; new ones are open.
Evolves(change, next) ==
  /\ next.branch = change.branch
  /\ next.state = "open" => change.state = "open"
  /\ change.state = "merged" => next.state = "merged"

ChangesEvolve ==
  /\ DOMAIN changes \subseteq DOMAIN changes'
  /\ \A n \in DOMAIN changes : Evolves(changes[n], changes'[n])

\* A merge request that is sent, accepted or answered keeps all but its answer.
SameMerge(r, next) ==
  /\ next.attempt = r.attempt
  /\ next.change = r.change
  /\ next.pin = r.pin

\* A change is looked up by its number.
LEMMA ChangeOf ==
  ASSUME TypeOK, NEW n \in DOMAIN changes
  PROVE  /\ n \in 1 .. Len(changes) /\ n \in Nat
         /\ changes[n] \in Change
         /\ changes[n].branch \in Branches
<1>1. Len(changes) \in Nat /\ DOMAIN changes = 1 .. Len(changes)
  BY DEF TypeOK
<1>2. n \in 1 .. Len(changes)
  BY <1>1
<1>3. changes[n] \in Change
  BY <1>2 DEF TypeOK
<1> QED
  BY <1>1, <1>2, <1>3 DEF Change

\* Deleting a branch closes its open change and touches nothing else.
LEMMA DeleteBranchEffect ==
  ASSUME TypeOK, NEW b \in Branches, DeleteBranch(b)
  PROVE  /\ head' \in [Branches -> Publishes \cup {Absent}]
         /\ changes' \in Seq(Change)
         /\ DOMAIN changes' = DOMAIN changes
         /\ \A n \in DOMAIN changes :
              \/ changes'[n] = changes[n] /\ n \notin OpenChanges(b)
              \/ changes'[n] = Closed(changes[n]) /\ n \in OpenChanges(b)
<1>1. head' \in [Branches -> Publishes \cup {Absent}]
  BY DEF DeleteBranch, TypeOK
<1>2. Len(changes) \in Nat /\ DOMAIN changes = 1 .. Len(changes)
  BY DEF TypeOK
<1>3. \A n \in DOMAIN changes :
        changes[n] \in Change /\ Closed(changes[n]) \in Change
  BY ChangeOf, ChangeType
<1>4. changes' \in Seq(Change)
  BY <1>2, <1>3 DEF DeleteBranch
<1> QED
  BY <1>1, <1>4 DEF DeleteBranch

\* Accepting a merge marks one change as merged.
LEMMA AcceptMergeEffect ==
  ASSUME TypeOK, NEW x \in Tasks, AcceptMerge(x),
         request[x].change \in DOMAIN changes
  PROVE  LET n == request[x].change IN
         /\ changes' \in Seq(Change)
         /\ DOMAIN changes' = DOMAIN changes
         /\ changes'[n] = MergedAt(changes[n], head[changes[n].branch])
         /\ \A m \in DOMAIN changes \ {n} : changes'[m] = changes[m]
<1> DEFINE n == request[x].change
<1>1. /\ n \in 1 .. Len(changes) /\ changes[n] \in Change
      /\ changes[n].branch \in Branches
  BY ChangeOf
<1>2. head[changes[n].branch] \in Commit
  BY <1>1 DEF TypeOK, Commit
<1>3. MergedAt(changes[n], head[changes[n].branch]) \in Change
  BY <1>1, <1>2, ChangeType
<1> QED
  BY <1>1, <1>3 DEF AcceptMerge, TypeOK

\* Every step of the provider keeps the state well typed.
LEMMA ProviderStepType ==
  ASSUME TypeOK, NEW x \in Tasks, RequestFine(x), ProviderStep(x)
  PROVE  TypeOK'
<1>0. request[x] \in MergeRequest
  BY DEF TypeOK
<1>1. \A answer \in {"accepted", "merged", "error"} :
        Answered(request[x], answer) \in MergeRequest
  BY <1>0, RequestType
<1>2. CASE AcceptMerge(x)
  <2>1. request[x].change \in DOMAIN changes
    BY <1>2 DEF AcceptMerge, RequestFine, Asks, KnownChange
  <2> QED
    BY <1>1, <1>2, <2>1, AcceptMergeEffect DEF AcceptMerge, TypeOK
<1>3. CASE RefuseMerge(x) \/ LoseAnswer(x)
  BY <1>1, <1>3 DEF RefuseMerge, LoseAnswer, TypeOK, provider
<1>4. CASE AnswerMerge(x)
  <2>1. request[x].change \in DOMAIN changes
    BY <1>4 DEF AnswerMerge, RequestFine, Asks, KnownChange
  <2>2. changes[request[x].change].branch \in Branches
    BY <2>1, ChangeOf
  <2>3. head' \in [Branches -> Publishes \cup {Absent}] /\ changes' \in Seq(Change)
    BY <1>4, <2>2, DeleteBranchEffect DEF AnswerMerge, provider, TypeOK
  <2> QED
    BY <1>1, <1>4, <2>3 DEF AnswerMerge, TypeOK
<1> QED
  BY <1>2, <1>3, <1>4 DEF ProviderStep

\* Every step keeps the state well typed.
LEMMA TypeStep ==
  ASSUME MergeInv, [Next]_vars
  PROVE  TypeOK'
<1>1. CASE Crash
  BY <1>1 DEF MergeInv, Crash, TypeOK, provider, Stages, Tasks
<1>2. CASE UNCHANGED vars
  BY <1>2 DEF MergeInv, vars, TypeOK
<1>3. TypeOK /\ \A x \in Tasks : RequestFine(x)
  BY DEF MergeInv
<1> QED
  BY <1>1, <1>2, <1>3, PublishStepType, MergeCallStepType, HandlerStepType,
     ProviderStepType DEF Next

\* Every step lets changes evolve only forwards.
LEMMA EvolveStep ==
  ASSUME MergeInv, [Next]_vars
  PROVE  ChangesEvolve
<1>t. TypeOK /\ \A x \in Tasks : RequestFine(x)
  BY DEF MergeInv
<1>0. ASSUME changes' = changes PROVE ChangesEvolve
  BY <1>0 DEF ChangesEvolve, Evolves
<1>1. ASSUME NEW p \in Publishes, CreateChange(p) PROVE ChangesEvolve
  <2>1. changes \in Seq(Change) /\ Len(changes) \in Nat
    BY <1>t DEF TypeOK
  <2>2. DOMAIN changes = 1 .. Len(changes)
    BY <2>1
  <2> DEFINE c == [branch |-> FixBranch(p), state |-> "open", commit |-> Absent]
  <2>3. changes' = Append(changes, c)
    BY <1>1 DEF CreateChange
  <2>4. c \in Change
    BY MergeAssumption DEF Change, FixBranch, Commit
  <2>5. /\ DOMAIN changes' = 1 .. Len(changes) + 1
        /\ \A n \in 1 .. Len(changes) : changes'[n] = changes[n]
    BY <2>1, <2>3, <2>4
  <2> QED
    BY <2>1, <2>2, <2>5 DEF ChangesEvolve, Evolves
<1>2. ASSUME NEW x \in Tasks, AcceptMerge(x) PROVE ChangesEvolve
  <2>1. request[x].change \in DOMAIN changes /\ changes[request[x].change] \in Change
    BY <1>t, <1>2, ChangeOf DEF AcceptMerge, RequestFine, Asks, KnownChange
  <2>2. head[changes[request[x].change].branch] \in Commit
    BY <1>t, <2>1 DEF TypeOK, Commit, Change
  <2>3. LET c == MergedAt(changes[request[x].change],
                          head[changes[request[x].change].branch])
        IN  c.branch = changes[request[x].change].branch /\ c.state = "merged"
    BY <2>1, <2>2, ChangeType
  <2> QED
    BY <1>t, <1>2, <2>1, <2>3, AcceptMergeEffect DEF ChangesEvolve, Evolves
<1>3. ASSUME NEW b \in Branches, DeleteBranch(b) PROVE ChangesEvolve
  <2>1. \A n \in DOMAIN changes :
          /\ Closed(changes[n]).branch = changes[n].branch
          /\ Closed(changes[n]).state = "closed"
    BY <1>t, ChangeOf, ChangeType
  <2> QED
    BY <1>t, <1>3, <2>1, DeleteBranchEffect DEF ChangesEvolve, Evolves, OpenChanges
<1>4. ASSUME NEW x \in Tasks, AnswerMerge(x) PROVE ChangesEvolve
  <2>1. changes[request[x].change].branch \in Branches
    BY <1>t, <1>4, ChangeOf DEF AnswerMerge, RequestFine, Asks, KnownChange
  <2> QED
    BY <1>0, <1>3, <1>4, <2>1 DEF AnswerMerge, provider
<1>5. ASSUME NEW p \in Publishes, PublishStep(p) PROVE ChangesEvolve
  BY <1>0, <1>1, <1>5 DEF PublishStep, PushCommit, FindOpenChange, PublishFails,
     RecordPublish, RecordAndMerge, FinishImmediateMerge, provider
<1>6. ASSUME NEW m \in MergeCalls, MergeCallStep(m) PROVE ChangesEvolve
  BY <1>0, <1>6 DEF MergeCallStep, CallMerge, RequestMerge, FinishMergeCall,
     provider
<1>7. ASSUME NEW d \in Deliveries, ReceiveSuccess(d) \/ HandlerStep(d)
      PROVE ChangesEvolve
  BY <1>0, <1>7 DEF HandlerStep, ReceiveSuccess, FindPending, FindNothing,
     GiveUpLooking, ClaimAutoMerge, ClaimLost, RecordMerge,
     RestoreAutoMergeClaim, ReleaseDelivery, provider
<1>8. ASSUME NEW x \in Tasks, ProviderStep(x) PROVE ChangesEvolve
  BY <1>0, <1>2, <1>4, <1>8 DEF ProviderStep, RefuseMerge, LoseAnswer, provider
<1> QED
  BY <1>0, <1>5, <1>6, <1>7, <1>8 DEF Next, Crash, vars, provider

\* So what is known of a change stays known.
LEMMA KnownStays ==
  ASSUME ChangesEvolve, NEW n
  PROVE  /\ \A b : KnownChange(n, b) => KnownChange(n, b)'
         /\ n \in DOMAIN changes /\ NotOpen(n) => NotOpen(n)'
         /\ n \in DOMAIN changes /\ changes[n].state = "merged" =>
              changes'[n].state = "merged"
BY DEF ChangesEvolve, Evolves, KnownChange, NotOpen

\* A request that is not touched stays fine, if its task asks for no more than
\* it did;
LEMMA RequestStays ==
  ASSUME ChangesEvolve, NEW x \in Tasks, RequestFine(x),
         request'[x] = request[x],
         at'[x] \in {"claiming", "opened"} => Asks(x)
  PROVE  RequestFine(x)'
<1> DEFINE n == request[x].change
<1>1. Asks(x)' => Asks(x)
  BY DEF Asks
<1>2. request[x].answer \in {"accepted", "merged"} => n \in DOMAIN changes
  BY DEF RequestFine, Asks, KnownChange
<1>3. Asks(x) => n \in DOMAIN changes
  BY DEF RequestFine, KnownChange
<1> QED
  BY <1>1, <1>2, <1>3, KnownStays
  DEF RequestFine, HandlerEntitled, ToolEntitled

\* and so does a record.
LEMMA RecordStays ==
  ASSUME ChangesEvolve, TypeOK', NEW a \in Attempts, RecordFine(a),
         /\ record'[a].change = record[a].change
         /\ record'[a].commit = record[a].commit
         /\ record'[a].merged = record[a].merged
  PROVE  RecordFine(a)'
<1> DEFINE n == record[a].change
<1>1. n # 0 => n \in DOMAIN changes
  BY DEF RecordFine, KnownChange
<1>2. ASSUME n = 0 PROVE NotOpen(n)'
  <2>1. changes' \in Seq(Change)
    BY DEF TypeOK
  <2>2. 0 \notin DOMAIN changes'
    BY <2>1
  <2> QED
    BY <1>2, <2>2 DEF NotOpen
<1> QED
  BY <1>1, <1>2, KnownStays DEF RecordFine

-----------------------------------------------------------------------------
\* The steps of each kind of task keep what its request and the records say.

\* publish_fix writes the change it found or opened.
LEMMA PublishRequest ==
  ASSUME MergeInv, TypeOK', ChangesEvolve, NEW p \in Publishes, PublishStep(p)
  PROVE  RequestFine(p)'
<1> DEFINE a == AttemptOf[p]
<1>0. /\ TypeOK /\ RequestFine(p) /\ p \in Tasks /\ p \notin Deliveries
      /\ a \in Attempts /\ FixBranch(p) = BranchOf[a]
      /\ request[p] \in MergeRequest
  BY MergeAssumption DEF MergeInv, TypeOK, Tasks, FixBranch
<1>t. ASSUME NEW n, n \in DOMAIN changes', changes'[n].branch = BranchOf[a],
             request' = [request EXCEPT ![p] = ToMerge(a, n, p)]
      PROVE  RequestFine(p)'
  <2>1. request'[p] = ToMerge(a, n, p)
    BY <1>0, <1>t DEF TypeOK
  <2> QED
    BY <1>0, <1>t, <2>1 DEF RequestFine, ToolEntitled, ToMerge, KnownChange
<1>s. ASSUME request' = request, at'[p] \notin {"claiming", "opened"}
      PROVE  RequestFine(p)'
  BY <1>0, <1>s, RequestStays
<1>a. \A to : (\E from : Goes(p, from, to)) => at'[p] = to
  BY <1>0 DEF Goes, TypeOK
<1>1. CASE PushCommit(p) \/ PublishFails(p) \/ RecordPublish(p)
           \/ FinishImmediateMerge(p)
  BY <1>1, <1>s, <1>a DEF PushCommit, PublishFails, RecordPublish,
     FinishImmediateMerge
<1>2. CASE FindOpenChange(p)
  <2>1. CASE OpenChanges(FixBranch(p)) = {}
    BY <1>2, <2>1, <1>s, <1>a DEF FindOpenChange
  <2>2. ASSUME NEW n \in OpenChanges(FixBranch(p)),
               request' = [request EXCEPT ![p] = ToMerge(a, n, p)]
        PROVE  RequestFine(p)'
    <3>1. n \in DOMAIN changes' /\ changes'[n].branch = BranchOf[a]
      BY <2>2, <1>0 DEF OpenChanges, ChangesEvolve, Evolves
    <3> QED
      BY <2>2, <3>1, <1>t
  <2> QED
    BY <1>2, <2>1, <2>2 DEF FindOpenChange
<1>3. CASE CreateChange(p)
  <2>1. changes \in Seq(Change) /\ Len(changes) \in Nat
    BY <1>0 DEF TypeOK
  <2> DEFINE c == [branch |-> FixBranch(p), state |-> "open", commit |-> Absent]
  <2>2. changes' = Append(changes, c) /\ c \in Change
    BY <1>3, MergeAssumption DEF CreateChange, Change, FixBranch, Commit
  <2>3. /\ Len(changes) + 1 \in DOMAIN changes'
        /\ changes'[Len(changes) + 1] = c
    BY <2>1, <2>2
  <2>4. changes'[Len(changes) + 1].branch = BranchOf[a]
    BY <2>3, <1>0
  <2>5. request' = [request EXCEPT ![p] = ToMerge(a, Len(changes) + 1, p)]
    BY <1>3 DEF CreateChange
  <2> QED
    BY <2>3, <2>4, <2>5, <1>t
<1>4. CASE RecordAndMerge(p)
  <2>1. Asks(p) /\ a \notin GreenRequired /\ changes' = changes
    BY <1>4 DEF RecordAndMerge, Goes, Asks, provider
  <2>2. request'[p] = Answered(request[p], "sent")
    BY <1>0, <1>4 DEF RecordAndMerge, TypeOK
  <2>3. /\ request'[p].change = request[p].change
        /\ request'[p].attempt = request[p].attempt
        /\ request'[p].answer = "sent"
    BY <1>0, <2>2 DEF Answered, MergeRequest
  <2> QED
    BY <1>0, <2>1, <2>3 DEF RequestFine, ToolEntitled, KnownChange
<1> QED
  BY <1>1, <1>2, <1>3, <1>4 DEF PublishStep

\* merge_change asks for the change of its record.
LEMMA MergeCallRequest ==
  ASSUME MergeInv, TypeOK', ChangesEvolve, NEW m \in MergeCalls, MergeCallStep(m)
  PROVE  RequestFine(m)'
<1> DEFINE a == AttemptOf[m]
<1>0. /\ TypeOK /\ RequestFine(m) /\ m \in Tasks /\ m \notin Deliveries
      /\ a \in Attempts /\ RecordFine(a)
  BY MergeAssumption DEF MergeInv, Tasks
<1>1. CASE CallMerge(m)
  <2> DEFINE r == ToMerge(a, record[a].change, record[a].commit)
  <2>1. request'[m] = Answered(r, "sent") /\ changes' = changes
    BY <1>0, <1>1 DEF CallMerge, RequestMerge, TypeOK, provider
  <2>2. /\ request'[m].change = record[a].change
        /\ request'[m].attempt = a
        /\ request'[m].answer = "sent"
    BY <2>1 DEF Answered, ToMerge
  <2>3. /\ record[a].change \in DOMAIN changes'
        /\ changes'[record[a].change].branch = BranchOf[a]
    BY <1>0, <1>1, <2>1 DEF CallMerge, RequestMerge, RecordFine, KnownChange
  <2>4. a \notin GreenRequired
    BY <1>1 DEF CallMerge
  <2> QED
    BY <1>0, <2>2, <2>3, <2>4 DEF RequestFine, ToolEntitled, KnownChange
<1>2. CASE FinishMergeCall(m)
  <2>1. request' = request /\ at'[m] = "done"
    BY <1>0, <1>2 DEF FinishMergeCall, Goes, TypeOK
  <2> QED
    BY <1>0, <2>1, RequestStays
<1> QED
  BY <1>1, <1>2 DEF MergeCallStep

\* A success handler asks for what its lookup found.
LEMMA HandlerRequest ==
  ASSUME MergeInv, TypeOK', ChangesEvolve, NEW d \in Deliveries,
         ReceiveSuccess(d) \/ HandlerStep(d)
  PROVE  RequestFine(d)'
<1>0. TypeOK /\ RequestFine(d) /\ d \in Tasks /\ request[d] \in MergeRequest
  BY DEF MergeInv, Tasks, TypeOK
<1>a. \A to : (\E from : Goes(d, from, to)) => at'[d] = to
  BY <1>0 DEF Goes, TypeOK
<1>1. CASE ReceiveSuccess(d) \/ GiveUpLooking(d) \/ ClaimLost(d)
           \/ RecordMerge(d) \/ RestoreAutoMergeClaim(d) \/ ReleaseDelivery(d)
  <2>1. request' = request /\ at'[d] \notin {"claiming", "opened"}
    BY <1>1, <1>a DEF ReceiveSuccess, GiveUpLooking, ClaimLost, RecordMerge,
       RestoreAutoMergeClaim, ReleaseDelivery
  <2> QED
    BY <1>0, <2>1, RequestStays
<1>2. CASE FindNothing(d)
  <2>1. request' = request /\ at'[d] \notin {"claiming", "opened"}
    BY <1>2 DEF FindNothing
  <2> QED
    BY <1>0, <2>1, RequestStays
<1>3. CASE FindPending(d)
  <2>1. PICK a \in PendingAutoMerge(d) :
          request' = [request EXCEPT ![d] =
                        ToMerge(a, record[a].change, record[a].commit)]
    BY <1>3 DEF FindPending
  <2>2. /\ request'[d].attempt = a /\ request'[d].change = record[a].change
        /\ request'[d].pin = record[a].commit /\ request'[d].answer = "none"
    BY <1>0, <2>1 DEF TypeOK, ToMerge
  <2>3. /\ a \in Attempts /\ RecordFine(a) /\ record[a].change # 0
        /\ BranchOf[a] = FixBranch(CommitOf[d])
        /\ record[a].commit \in {Absent, CommitOf[d]}
    BY <2>1 DEF PendingAutoMerge, PublishedCommitMatches, MergeInv
  <2>4. d \notin Untrusted /\ changes' = changes
    BY <1>3 DEF FindPending, provider
  <2>5. a \in GreenRequired /\ record[a].commit = Absent =>
          changes[record[a].change].state # "open"
    BY <2>3 DEF RecordFine, KnownChange, NotOpen
  <2>6. /\ record[a].change \in DOMAIN changes
        /\ changes[record[a].change].branch = BranchOf[a]
    BY <2>3 DEF RecordFine, KnownChange
  <2> QED
    BY <2>2, <2>3, <2>4, <2>5, <2>6
    DEF RequestFine, HandlerEntitled, KnownChange, NotOpen
<1>4. CASE ClaimAutoMerge(d)
  <2>1. Asks(d) /\ changes' = changes
    BY <1>4 DEF ClaimAutoMerge, Goes, Asks, provider
  <2>2. request'[d] = Answered(request[d], "sent")
    BY <1>0, <1>4 DEF ClaimAutoMerge, TypeOK
  <2>3. /\ request'[d].attempt = request[d].attempt
        /\ request'[d].change = request[d].change
        /\ request'[d].pin = request[d].pin /\ request'[d].answer = "sent"
    BY <1>0, <2>2 DEF Answered, MergeRequest
  <2> QED
    BY <1>0, <2>1, <2>3 DEF RequestFine, HandlerEntitled, KnownChange, NotOpen
<1> QED
  BY <1>1, <1>2, <1>3, <1>4 DEF HandlerStep

\* The provider's answer changes nothing else of a request.
LEMMA ProviderRequest ==
  ASSUME MergeInv, TypeOK', ChangesEvolve, NEW x \in Tasks, ProviderStep(x)
  PROVE  RequestFine(x)'
<1> DEFINE n == request[x].change
<1>0. TypeOK /\ RequestFine(x) /\ request[x] \in MergeRequest
  BY DEF MergeInv, TypeOK
<1>1. request[x].answer # "none" /\ at' = at
  BY DEF ProviderStep, AcceptMerge, RefuseMerge, LoseAnswer, AnswerMerge
<1>2. PICK answer \in {"accepted", "merged", "error"} :
        /\ request' = [request EXCEPT ![x] = Answered(@, answer)]
        /\ answer = "accepted" => AcceptMerge(x)
        /\ answer = "merged" => request[x].answer = "accepted"
  BY DEF ProviderStep, AcceptMerge, RefuseMerge, LoseAnswer, AnswerMerge
<1>3. /\ request'[x].attempt = request[x].attempt
      /\ request'[x].change = n /\ request'[x].pin = request[x].pin
      /\ request'[x].answer = answer
  BY <1>0, <1>2 DEF TypeOK, Answered, MergeRequest
<1>4. /\ n \in DOMAIN changes
      /\ changes[n].branch = BranchOf[request[x].attempt]
  BY <1>0, <1>1 DEF RequestFine, Asks, KnownChange
<1>5. ASSUME AcceptMerge(x) PROVE changes'[n].state = "merged"
  <2>1. changes[n] \in Change /\ head[changes[n].branch] \in Commit
    BY <1>0, <1>4, ChangeOf DEF TypeOK, Commit
  <2>2. MergedAt(changes[n], head[changes[n].branch]).state = "merged"
    BY <2>1, ChangeType
  <2>3. changes'[n] = MergedAt(changes[n], head[changes[n].branch])
    BY <1>0, <1>4, <1>5, AcceptMergeEffect
  <2> QED
    BY <2>2, <2>3
<1>6. answer \in {"accepted", "merged"} => changes'[n].state = "merged"
  BY <1>0, <1>2, <1>4, <1>5 DEF RequestFine, ChangesEvolve, Evolves
<1>7. /\ n \in DOMAIN changes'
      /\ changes'[n].branch = BranchOf[request[x].attempt]
      /\ changes[n].state # "open" => changes'[n].state # "open"
  BY <1>4 DEF ChangesEvolve, Evolves
<1>8. CASE x \in Deliveries
  BY <1>0, <1>1, <1>3, <1>4, <1>6, <1>7, <1>8
  DEF RequestFine, Asks, HandlerEntitled, KnownChange, NotOpen
<1>9. CASE x \notin Deliveries
  BY <1>0, <1>1, <1>3, <1>6, <1>7, <1>9
  DEF RequestFine, Asks, ToolEntitled, KnownChange
<1> QED
  BY <1>8, <1>9

\* So every step keeps every request fine.
LEMMA RequestStep ==
  ASSUME MergeInv, TypeOK', ChangesEvolve, [Next]_vars
  PROVE  \A x \in Tasks : RequestFine(x)'
<1>0. TypeOK /\ \A x \in Tasks : RequestFine(x)
  BY DEF MergeInv
<1>s. ASSUME NEW y \in Tasks, request'[y] = request[y], at'[y] = at[y]
      PROVE  RequestFine(y)'
  BY <1>0, <1>s, RequestStays DEF Asks
<1>1. ASSUME NEW p \in Publishes, PublishStep(p)
      PROVE  \A x \in Tasks : RequestFine(x)'
  <2>1. \A y \in Tasks \ {p} : request'[y] = request[y] /\ at'[y] = at[y]
    BY <1>0, <1>1 DEF PublishStep, PushCommit, FindOpenChange, CreateChange,
       PublishFails, RecordPublish, RecordAndMerge, FinishImmediateMerge, Goes,
       TypeOK
  <2> QED
    BY <1>1, <1>s, <2>1, PublishRequest
<1>2. ASSUME NEW m \in MergeCalls, MergeCallStep(m)
      PROVE  \A x \in Tasks : RequestFine(x)'
  <2>1. \A y \in Tasks \ {m} : request'[y] = request[y] /\ at'[y] = at[y]
    BY <1>0, <1>2 DEF MergeCallStep, CallMerge, RequestMerge, FinishMergeCall,
       Goes, TypeOK
  <2> QED
    BY <1>2, <1>s, <2>1, MergeCallRequest
<1>3. ASSUME NEW d \in Deliveries, ReceiveSuccess(d) \/ HandlerStep(d)
      PROVE  \A x \in Tasks : RequestFine(x)'
  <2>1. \A y \in Tasks \ {d} : request'[y] = request[y] /\ at'[y] = at[y]
    BY <1>0, <1>3 DEF HandlerStep, ReceiveSuccess, FindPending, FindNothing,
       GiveUpLooking, ClaimAutoMerge, ClaimLost, RecordMerge,
       RestoreAutoMergeClaim, ReleaseDelivery, Goes, TypeOK
  <2> QED
    BY <1>3, <1>s, <2>1, HandlerRequest
<1>4. ASSUME NEW x \in Tasks, ProviderStep(x)
      PROVE  \A y \in Tasks : RequestFine(y)'
  <2>1. \A y \in Tasks \ {x} : request'[y] = request[y] /\ at'[y] = at[y]
    BY <1>0, <1>4 DEF ProviderStep, AcceptMerge, RefuseMerge, LoseAnswer,
       AnswerMerge, TypeOK
  <2> QED
    BY <1>4, <1>s, <2>1, ProviderRequest
<1>5. ASSUME Crash PROVE \A x \in Tasks : RequestFine(x)'
  <2>1. \A x \in Tasks :
          request'[x] = request[x] /\ at'[x] \notin {"claiming", "opened"}
    BY <1>5 DEF Crash
  <2> QED
    BY <1>0, <2>1, RequestStays
<1> QED
  BY <1>s, <1>1, <1>2, <1>3, <1>4, <1>5 DEF Next, vars

\* Every step keeps every record fine.
LEMMA RecordStep ==
  ASSUME MergeInv, TypeOK', ChangesEvolve, [Next]_vars
  PROVE  \A a \in Attempts : RecordFine(a)'
<1>0. /\ TypeOK /\ \A x \in Tasks : RequestFine(x)
      /\ \A a \in Attempts : RecordFine(a)
  BY DEF MergeInv
<1>d. 0 \notin DOMAIN changes'
  <2>1. changes' \in Seq(Change)
    BY DEF TypeOK
  <2> QED
    BY <2>1
<1>s. ASSUME NEW a \in Attempts, record'[a] = record[a]
      PROVE  RecordFine(a)'
  BY <1>0, <1>s, RecordStays
<1>u. ASSUME record' = record PROVE \A a \in Attempts : RecordFine(a)'
  BY <1>s, <1>u
<1>w. ASSUME NEW a \in Attempts, NEW r, record' = [record EXCEPT ![a] = r],
             r.change \in DOMAIN changes', changes'[r.change].branch = BranchOf[a],
             a \in GreenRequired =>
               /\ r.commit = Absent => changes'[r.change].state # "open"
               /\ r.merged => changes'[r.change].state = "merged"
      PROVE  \A b \in Attempts : RecordFine(b)'
  <2>1. record'[a] = r /\ \A b \in Attempts \ {a} : record'[b] = record[b]
    BY <1>0, <1>w DEF TypeOK
  <2>2. RecordFine(a)'
    BY <1>w, <1>d, <2>1 DEF RecordFine, KnownChange, NotOpen
  <2> QED
    BY <1>s, <2>1, <2>2
<1>1. ASSUME NEW p \in Publishes, PublishStep(p)
      PROVE  \A a \in Attempts : RecordFine(a)'
  <2> DEFINE a == AttemptOf[p]
             n == request[p].change
  <2>0. /\ a \in Attempts /\ p \in Tasks /\ p \notin Deliveries /\ p # Absent
        /\ RequestFine(p) /\ request[p] \in MergeRequest
    BY <1>0, MergeAssumption DEF Tasks, TypeOK
  <2>1. CASE RecordPublish(p) \/ RecordAndMerge(p)
    <3>1. record' = [record EXCEPT ![a] = Published(p)]
      BY <2>1 DEF RecordPublish, RecordAndMerge
    <3>2. Asks(p)
      BY <2>1 DEF RecordPublish, RecordAndMerge, Goes, Asks
    <3>3. n \in DOMAIN changes' /\ changes'[n].branch = BranchOf[a]
      BY <2>0, <3>2 DEF RequestFine, ToolEntitled, KnownChange, ChangesEvolve,
         Evolves
    <3>4. /\ Published(p).change = n /\ Published(p).commit = p
          /\ Published(p).merged = FALSE
      BY DEF Published
    <3> QED
      BY <2>0, <3>1, <3>3, <3>4, <1>w
  <2>2. CASE FinishImmediateMerge(p)
    <3>1. Asks(p)
      BY <2>2 DEF FinishImmediateMerge, Asks
    <3>2. /\ n \in DOMAIN changes' /\ changes'[n].branch = BranchOf[a]
          /\ a \notin GreenRequired
      BY <2>0, <2>2, <3>1 DEF RequestFine, ToolEntitled, KnownChange,
         ChangesEvolve, Evolves, FinishImmediateMerge
    <3>3. PICK r : /\ record' = [record EXCEPT ![a] = r]
                   /\ r.change = n
      BY <2>2 DEF FinishImmediateMerge, Merged, Published
    <3> QED
      BY <2>0, <3>2, <3>3, <1>w
  <2> QED
    BY <1>1, <1>u, <2>1, <2>2 DEF PublishStep, PushCommit, FindOpenChange,
       CreateChange, PublishFails
<1>2. ASSUME NEW m \in MergeCalls, MergeCallStep(m)
      PROVE  \A a \in Attempts : RecordFine(a)'
  <2> DEFINE a == AttemptOf[m]
  <2>0. a \in Attempts /\ m \in Tasks /\ m \notin Deliveries /\ RequestFine(m)
    BY <1>0, MergeAssumption DEF Tasks
  <2>1. CASE CallMerge(m)
    BY <2>1, <1>u DEF CallMerge, RequestMerge
  <2>2. CASE FinishMergeCall(m)
    <3>1. Asks(m)
      BY <2>2 DEF FinishMergeCall, Asks
    <3>2. a \notin GreenRequired
      BY <2>0, <2>2, <3>1 DEF RequestFine, ToolEntitled, FinishMergeCall
    <3>3. ASSUME NEW commit \in {Squash, Absent},
                 record' = [record EXCEPT ![a] = Merged(commit, @.change)]
          PROVE  \A b \in Attempts : RecordFine(b)'
      <4>1. record'[a] = Merged(commit, record[a].change)
        BY <1>0, <2>0, <3>3 DEF TypeOK
      <4>2. record'[a].change = record[a].change
        BY <4>1 DEF Merged
      <4>3. RecordFine(a)'
        BY <1>0, <2>0, <3>2, <4>2 DEF RecordFine, KnownChange, ChangesEvolve,
           Evolves
      <4>4. \A b \in Attempts \ {a} : record'[b] = record[b]
        BY <1>0, <3>3 DEF TypeOK
      <4> QED
        BY <1>s, <4>3, <4>4
    <3> QED
      BY <2>2, <3>3, <1>u DEF FinishMergeCall
  <2> QED
    BY <1>2, <2>1, <2>2 DEF MergeCallStep
<1>3. ASSUME NEW d \in Deliveries, ReceiveSuccess(d) \/ HandlerStep(d)
      PROVE  \A a \in Attempts : RecordFine(a)'
  <2> DEFINE a == request[d].attempt
             n == request[d].change
  <2>0. /\ d \in Tasks /\ RequestFine(d) /\ a \in Attempts
        /\ record[a] \in PublishRecord
    BY <1>0 DEF Tasks, TypeOK, MergeRequest
  <2>1. ASSUME NEW b \in BOOLEAN,
               record' = [record EXCEPT ![a] = WithPending(@, b)]
        PROVE  \A c \in Attempts : RecordFine(c)'
    <3>1. /\ record'[a] = WithPending(record[a], b)
          /\ \A c \in Attempts \ {a} : record'[c] = record[c]
      BY <1>0, <2>0, <2>1 DEF TypeOK
    <3>2. \A c \in Attempts :
            /\ record'[c].change = record[c].change
            /\ record'[c].commit = record[c].commit
            /\ record'[c].merged = record[c].merged
      BY <2>0, <3>1 DEF WithPending, PublishRecord
    <3> QED
      BY <1>0, <3>2, RecordStays
  <2>2. CASE RecordMerge(d)
    <3>1. Asks(d) /\ changes[n].state = "merged"
      BY <2>0, <2>2 DEF RecordMerge, Asks, RequestFine
    <3>2. /\ n \in DOMAIN changes' /\ changes'[n].branch = BranchOf[a]
          /\ changes'[n].state = "merged"
      BY <2>0, <3>1 DEF RequestFine, KnownChange, ChangesEvolve, Evolves
    <3>3. PICK r : record' = [record EXCEPT ![a] = r] /\ r.change = n
      BY <2>2 DEF RecordMerge, Merged
    <3> QED
      BY <2>0, <3>2, <3>3, <1>w
  <2>3. CASE ClaimAutoMerge(d) \/ RestoreAutoMergeClaim(d)
    BY <2>1, <2>3 DEF ClaimAutoMerge, RestoreAutoMergeClaim
  <2> QED
    BY <1>3, <1>u, <2>2, <2>3 DEF HandlerStep, ReceiveSuccess, FindPending,
       FindNothing, GiveUpLooking, ClaimLost, ReleaseDelivery
<1>4. ASSUME NEW x \in Tasks, ProviderStep(x)
      PROVE  \A a \in Attempts : RecordFine(a)'
  BY <1>4, <1>u DEF ProviderStep, AcceptMerge, RefuseMerge, LoseAnswer,
     AnswerMerge
<1> QED
  BY <1>u, <1>1, <1>2, <1>3, <1>4 DEF Next, Crash, vars

\* Every step keeps the branches and the changes of the provider fine.  A
\* merge that is accepted is where the others are needed: what is merged is
\* the head of the branch, which the request must have been pinned to.
LEMMA ProviderInvStep ==
  ASSUME MergeInv, TypeOK', [Next]_vars
  PROVE  /\ \A b \in Branches : head'[b] # Absent => CommitOfBranch(head'[b], b)
         /\ \A n \in DOMAIN changes' : ChangeFine(n)'
<1> DEFINE Heads == \A b \in Branches :
                      head'[b] # Absent => CommitOfBranch(head'[b], b)
           Changes == \A n \in DOMAIN changes' : ChangeFine(n)'
<1>0. /\ TypeOK /\ \A x \in Tasks : RequestFine(x)
      /\ \A b \in Branches : head[b] # Absent => CommitOfBranch(head[b], b)
      /\ \A n \in DOMAIN changes : ChangeFine(n)
  BY DEF MergeInv
<1>u. ASSUME head' = head, changes' = changes PROVE Heads /\ Changes
  BY <1>0, <1>u DEF ChangeFine
<1>1. ASSUME NEW p \in Publishes, PushCommit(p) PROVE Heads /\ Changes
  <2>1. /\ FixBranch(p) \in Branches /\ p # Absent
    BY MergeAssumption DEF FixBranch
  <2>2. /\ head'[FixBranch(p)] = p /\ changes' = changes
        /\ \A b \in Branches \ {FixBranch(p)} : head'[b] = head[b]
    BY <1>0, <1>1, <2>1 DEF PushCommit, TypeOK
  <2>3. Heads
    BY <1>0, <2>2 DEF CommitOfBranch
  <2>4. \A n \in DOMAIN changes : changes[n].branch \in Branches
    BY <1>0, ChangeOf
  <2> QED
    BY <1>0, <2>1, <2>2, <2>3, <2>4 DEF ChangeFine
<1>2. ASSUME NEW p \in Publishes, CreateChange(p) PROVE Heads /\ Changes
  <2>1. changes \in Seq(Change) /\ Len(changes) \in Nat
    BY <1>0 DEF TypeOK
  <2> DEFINE c == [branch |-> FixBranch(p), state |-> "open", commit |-> Absent]
  <2>2. /\ changes' = Append(changes, c) /\ c \in Change
        /\ head' = head /\ head[FixBranch(p)] # Absent
    BY <1>2, MergeAssumption DEF CreateChange, Change, FixBranch, Commit
  <2>3. /\ DOMAIN changes' = 1 .. Len(changes) + 1
        /\ DOMAIN changes = 1 .. Len(changes)
        /\ changes'[Len(changes) + 1] = c
        /\ \A n \in 1 .. Len(changes) : changes'[n] = changes[n]
    BY <2>1, <2>2
  <2>4. ASSUME NEW n \in DOMAIN changes' PROVE ChangeFine(n)'
    <3>1. CASE n = Len(changes) + 1
      BY <2>2, <2>3, <3>1 DEF ChangeFine
    <3>2. CASE n \in DOMAIN changes
      BY <1>0, <2>2, <2>3, <3>2 DEF ChangeFine
    <3> QED
      BY <2>1, <2>3, <2>4, <3>1, <3>2
  <2> QED
    BY <1>0, <2>2, <2>4
<1>3. ASSUME NEW x \in Tasks, AcceptMerge(x) PROVE Heads /\ Changes
  <2> DEFINE n == request[x].change
             b == changes[n].branch
             a == request[x].attempt
  <2>1. /\ n \in DOMAIN changes /\ b = BranchOf[a] /\ a \in Attempts
        /\ x \in Deliveries => HandlerEntitled(x)
        /\ x \notin Deliveries => ToolEntitled(x) /\ a \notin GreenRequired
    BY <1>0, <1>3 DEF AcceptMerge, RequestFine, Asks, KnownChange, TypeOK,
       MergeRequest, ToolEntitled
  <2>2. /\ changes[n] \in Change /\ b \in Branches
        /\ changes[n].state = "open" /\ request[x].pin \in {Absent, head[b]}
        /\ head' = head
    BY <1>0, <1>3, <2>1, ChangeOf DEF AcceptMerge, Mergeable, HeadMatches
  <2>3. CommitOfBranch(head[b], b) /\ head[b] # Absent
    BY <1>0, <2>1, <2>2 DEF ChangeFine
  <2>4. ASSUME Gated(b) PROVE head[b] \in Green
    <3>1. a \in GreenRequired
      BY <2>1, <2>4 DEF Gated
    <3>2. /\ x \in Deliveries /\ x \notin Untrusted
          /\ request[x].pin = CommitOf[x]
      BY <2>1, <2>2, <3>1 DEF HandlerEntitled, NotOpen
    <3>3. head[b] = CommitOf[x]
      BY <2>2, <3>2, MergeAssumption
    <3> QED
      BY <3>2, <3>3 DEF Green
  <2>5. /\ MergedAt(changes[n], head[b]).state = "merged"
        /\ MergedAt(changes[n], head[b]).commit = head[b]
        /\ MergedAt(changes[n], head[b]).branch = b
    <3>1. head[b] \in Commit
      BY <2>3 DEF CommitOfBranch, Commit
    <3>2. changes[n] \in Change
      BY <2>2
    <3> HIDE DEF n, b
    <3> QED
      BY <3>1, <3>2, ChangeType DEF b
  <2>6. /\ DOMAIN changes' = DOMAIN changes
        /\ changes'[n] = MergedAt(changes[n], head[b])
        /\ \A m \in DOMAIN changes \ {n} : changes'[m] = changes[m]
    BY <1>0, <1>3, <2>1, AcceptMergeEffect
  <2>7. ASSUME NEW m \in DOMAIN changes' PROVE ChangeFine(m)'
    <3>1. CASE m = n
      BY <2>3, <2>4, <2>5, <2>6, <3>1 DEF ChangeFine
    <3>2. CASE m # n
      BY <1>0, <2>2, <2>6, <3>2 DEF ChangeFine
    <3> QED
      BY <3>1, <3>2
  <2> QED
    BY <1>0, <2>2, <2>7
<1>4. ASSUME NEW b \in Branches, DeleteBranch(b) PROVE Heads /\ Changes
  <2>1. head'[b] = Absent /\ \A c \in Branches \ {b} : head'[c] = head[c]
    BY <1>0, <1>4 DEF DeleteBranch, TypeOK
  <2>2. /\ DOMAIN changes' = DOMAIN changes
        /\ \A n \in DOMAIN changes :
             \/ changes'[n] = changes[n] /\ n \notin OpenChanges(b)
             \/ changes'[n] = Closed(changes[n])
    BY <1>0, <1>4, DeleteBranchEffect
  <2>3. \A n \in DOMAIN changes :
          changes[n].branch \in Branches /\ Closed(changes[n]).state = "closed"
    BY <1>0, ChangeOf, ChangeType
  <2>4. ASSUME NEW n \in DOMAIN changes' PROVE ChangeFine(n)'
    BY <1>0, <2>1, <2>2, <2>3 DEF ChangeFine, OpenChanges
  <2> QED
    BY <1>0, <2>1, <2>4
<1>5. ASSUME NEW x \in Tasks, AnswerMerge(x) PROVE Heads /\ Changes
  <2>1. changes[request[x].change].branch \in Branches
    BY <1>0, <1>5, ChangeOf DEF AnswerMerge, RequestFine, Asks, KnownChange
  <2> QED
    BY <1>4, <1>5, <1>u, <2>1 DEF AnswerMerge, provider
<1>6. ASSUME NEW p \in Publishes, PublishStep(p) PROVE Heads /\ Changes
  <2>1. PushCommit(p) \/ CreateChange(p) \/ (head' = head /\ changes' = changes)
    BY <1>6 DEF PublishStep, FindOpenChange, PublishFails, RecordPublish,
       RecordAndMerge, FinishImmediateMerge, provider
  <2> QED
    BY <2>1, <1>1, <1>2, <1>u
<1>7. ASSUME NEW m \in MergeCalls, MergeCallStep(m) PROVE Heads /\ Changes
  <2>1. head' = head /\ changes' = changes
    BY <1>7 DEF MergeCallStep, CallMerge, RequestMerge, FinishMergeCall, provider
  <2> QED
    BY <2>1, <1>u
<1>8. ASSUME NEW d \in Deliveries, ReceiveSuccess(d) \/ HandlerStep(d)
      PROVE  Heads /\ Changes
  <2>1. head' = head /\ changes' = changes
    BY <1>8 DEF HandlerStep, ReceiveSuccess, FindPending, FindNothing,
       GiveUpLooking, ClaimAutoMerge, ClaimLost, RecordMerge,
       RestoreAutoMergeClaim, ReleaseDelivery, provider
  <2> QED
    BY <2>1, <1>u
<1>9. ASSUME NEW x \in Tasks, ProviderStep(x) PROVE Heads /\ Changes
  <2>1. AcceptMerge(x) \/ AnswerMerge(x) \/ (head' = head /\ changes' = changes)
    BY <1>9 DEF ProviderStep, RefuseMerge, LoseAnswer, provider
  <2> QED
    BY <2>1, <1>3, <1>5, <1>u
<1> QED
  BY <1>u, <1>6, <1>7, <1>8, <1>9 DEF Next, Crash, vars, provider

-----------------------------------------------------------------------------
\* Attempts that are published once.

\* The only publish of its attempt.
Sole(p) == \A q \in Publishes : AttemptOf[q] = AttemptOf[p] => q = p

\* The claim of a gated attempt: nobody has it before the publish is recorded,
\* and then it is in one place.
Engaged(d, a) == at[d] \in {"claiming", "merging"} /\ request[d].attempt = a

ClaimFine(p, a) ==
  IF record[a].change = 0
    THEN /\ ~record[a].pending /\ ~record[a].merged
         /\ \A d \in Deliveries : ~Engaged(d, a)
    ELSE at[p] = "done" /\ InOnePlace(a)

ClaimInv ==
  \A p \in Publishes : Sole(p) /\ AttemptOf[p] \in GreenRequired
    => ClaimFine(p, AttemptOf[p])

\* Handlers leave the ungated attempts alone,
GatedOnly ==
  /\ \A a \in Attempts : record[a].pending => a \in GreenRequired
  /\ \A d \in Deliveries : Asks(d) => request[d].attempt \in GreenRequired

\* and the record of one names the change of its publish from the recording
\* on, which is the one its merges are asked for.
NumberFine(p, a) ==
  /\ record[a].change # 0 =>
       /\ at[p] \in {"merging", "done"}
       /\ record[a].change = request[p].change
  /\ record[a].merged => changes[record[a].change].state = "merged"
                         /\ record[a].change \in DOMAIN changes
  /\ \A m \in MergeCalls :
       AttemptOf[m] = a /\ request[m].answer # "none" =>
         record[a].change # 0 /\ request[m].change = record[a].change

NumberInv ==
  /\ GatedOnly
  /\ \A p \in Publishes : Sole(p) /\ AttemptOf[p] \notin GreenRequired
       => NumberFine(p, AttemptOf[p])

\* What stays as long as a record and the handlers' hold on it do.
LEMMA ClaimStays ==
  ASSUME NEW p, NEW a, ClaimFine(p, a),
         record'[a] = record[a],
         at[p] = "done" => at'[p] = "done",
         \A d \in Deliveries :
           (at'[d] = "merging" /\ request'[d].attempt = a)
             <=> (at[d] = "merging" /\ request[d].attempt = a),
         record[a].change = 0 => \A d \in Deliveries : ~Engaged(d, a)'
  PROVE  ClaimFine(p, a)'
<1>1. Holders(a)' = Holders(a)
  BY DEF Holders
<1>2. InOnePlace(a) => InOnePlace(a)'
  BY <1>1 DEF InOnePlace
<1> QED
  BY <1>2 DEF ClaimFine

\* A publish is recorded at a time when nobody can hold its claim.
LEMMA ClaimPublishStep ==
  ASSUME MergeInv, TypeOK', NEW p \in Publishes, Sole(p),
         AttemptOf[p] \in GreenRequired, ClaimFine(p, AttemptOf[p]),
         NEW q \in Publishes, PublishStep(q)
  PROVE  ClaimFine(p, AttemptOf[p])'
<1> DEFINE a == AttemptOf[p]
<1>0. /\ TypeOK /\ q \in Tasks /\ p \in Tasks /\ a \in Attempts
      /\ RequestFine(q) /\ q \notin Deliveries /\ AttemptOf[q] \in Attempts
  BY MergeAssumption DEF MergeInv, Tasks
<1>1. \A d \in Deliveries : at'[d] = at[d] /\ request'[d] = request[d]
  BY <1>0 DEF PublishStep, PushCommit, FindOpenChange, CreateChange,
     PublishFails, RecordPublish, RecordAndMerge, FinishImmediateMerge, Goes,
     TypeOK, Tasks
<1>2. at[p] = "done" => at'[p] = "done"
  BY <1>0 DEF PublishStep, PushCommit, FindOpenChange, CreateChange,
     PublishFails, RecordPublish, RecordAndMerge, FinishImmediateMerge, Goes,
     TypeOK
<1>3. CASE record'[a] = record[a]
  <2>1. record[a].change = 0 => \A d \in Deliveries : ~Engaged(d, a)'
    BY <1>1 DEF ClaimFine, Engaged
  <2> QED
    BY <1>1, <1>2, <1>3, <2>1, ClaimStays
<1>4. CASE RecordPublish(q) /\ record'[a] # record[a]
  <2>1. record' = [record EXCEPT ![AttemptOf[q]] = Published(q)]
    BY <1>4 DEF RecordPublish
  <2>2. AttemptOf[q] = a
    BY <1>0, <1>4, <2>1 DEF TypeOK
  <2>3. q = p
    BY <2>2 DEF Sole
  <2>4. record'[a] = Published(p)
    BY <1>0, <2>1, <2>3 DEF TypeOK
  <2>5. at[p] = "opened" /\ at'[p] = "done"
    BY <1>0, <1>4, <2>3 DEF RecordPublish, Goes, TypeOK
  <2>6. record[a].change = 0 /\ \A d \in Deliveries : ~Engaged(d, a)
    BY <2>5 DEF ClaimFine
  <2>7. Holders(a)' = {}
    BY <1>1, <2>6 DEF Holders, Engaged
  <2>8. request[p].change # 0
    <3>1. request[p].change \in DOMAIN changes /\ changes \in Seq(Change)
      BY <1>0, <2>3, <2>5 DEF RequestFine, Asks, KnownChange, TypeOK
    <3> QED
      BY <3>1
  <2>9. record'[a].change # 0 /\ record'[a].pending /\ ~record'[a].merged
    <3>1. Published(p).change = request[p].change
      BY DEF Published
    <3>2. Published(p).pending /\ ~Published(p).merged
      BY Zenon DEF Published
    <3> QED
      BY <2>4, <2>8, <3>1, <3>2
  <2> QED
    BY <2>5, <2>7, <2>9 DEF ClaimFine, InOnePlace
<1>5. CASE RecordAndMerge(q)
  BY <1>0, <1>3, <1>5 DEF RecordAndMerge, TypeOK
<1>6. CASE FinishImmediateMerge(q)
  <2>1. AttemptOf[q] \notin GreenRequired
    BY <1>0, <1>6 DEF FinishImmediateMerge, RequestFine, Asks, ToolEntitled
  <2>2. PICK r : record' = [record EXCEPT ![AttemptOf[q]] = r]
    BY <1>6 DEF FinishImmediateMerge
  <2>3. record'[a] = record[a]
    BY <1>0, <2>1, <2>2 DEF TypeOK
  <2> QED
    BY <2>3, <1>3
<1> QED
  BY <1>3, <1>4, <1>5, <1>6 DEF PublishStep, PushCommit, FindOpenChange,
     CreateChange, PublishFails

\* A handler passes the claim on: from the record to itself, and back.
LEMMA ClaimHandlerStep ==
  ASSUME MergeInv, TypeOK', NEW p \in Publishes,
         AttemptOf[p] \in GreenRequired, ClaimFine(p, AttemptOf[p]),
         NEW d \in Deliveries, ReceiveSuccess(d) \/ HandlerStep(d)
  PROVE  ClaimFine(p, AttemptOf[p])'
<1> DEFINE a == AttemptOf[p]
           b == request[d].attempt
<1>0. /\ TypeOK /\ d \in Tasks /\ p \in Tasks /\ p # d /\ a \in Attempts
      /\ RequestFine(d) /\ b \in Attempts /\ request[d] \in MergeRequest
  BY MergeAssumption DEF MergeInv, Tasks, TypeOK, MergeRequest
<1>1. at'[p] = at[p] /\ \A e \in Deliveries \ {d} :
                          at'[e] = at[e] /\ request'[e] = request[e]
  BY <1>0 DEF HandlerStep, ReceiveSuccess, FindPending, FindNothing,
     GiveUpLooking, ClaimAutoMerge, ClaimLost, RecordMerge,
     RestoreAutoMergeClaim, ReleaseDelivery, Goes, TypeOK, Tasks
<1>a. \A from, to : Goes(d, from, to) => at[d] = from /\ at'[d] = to
  BY <1>0 DEF Goes, TypeOK
<1>s. ASSUME record'[a] = record[a],
             (at'[d] = "merging" /\ request'[d].attempt = a)
               <=> (at[d] = "merging" /\ b = a),
             record[a].change = 0 => ~Engaged(d, a)'
      PROVE  ClaimFine(p, a)'
  <2>1. \A e \in Deliveries :
          (at'[e] = "merging" /\ request'[e].attempt = a)
            <=> (at[e] = "merging" /\ request[e].attempt = a)
    BY <1>1, <1>s
  <2>2. record[a].change = 0 => \A e \in Deliveries : ~Engaged(e, a)'
    BY <1>1, <1>s DEF ClaimFine, Engaged
  <2> QED
    BY <1>1, <1>s, <2>1, <2>2, ClaimStays
<1>2. CASE ReceiveSuccess(d) \/ GiveUpLooking(d) \/ ClaimLost(d)
           \/ ReleaseDelivery(d)
  <2>1. record' = record /\ at[d] # "merging"
        /\ at'[d] \notin {"claiming", "merging"}
    BY <1>2, <1>a DEF ReceiveSuccess, GiveUpLooking, ClaimLost, ReleaseDelivery
  <2> QED
    BY <1>s, <2>1 DEF Engaged
<1>3. CASE FindNothing(d)
  <2>1. record' = record /\ at[d] = "looking" /\ at' = at
    BY <1>3 DEF FindNothing
  <2> QED
    BY <1>s, <2>1 DEF Engaged
<1>4. CASE FindPending(d)
  <2>1. record' = record /\ at[d] = "looking" /\ at'[d] = "claiming"
    BY <1>4, <1>a DEF FindPending
  <2>2. PICK c \in PendingAutoMerge(d) :
          request' = [request EXCEPT ![d] =
                        ToMerge(c, record[c].change, record[c].commit)]
    BY <1>4 DEF FindPending
  <2>3. request'[d].attempt = c /\ record[c].change # 0
    BY <1>0, <2>2 DEF TypeOK, ToMerge, PendingAutoMerge
  <2> QED
    BY <1>s, <2>1, <2>3 DEF Engaged
<1>5. CASE ClaimAutoMerge(d)
  <2>1. /\ at[d] = "claiming" /\ at'[d] = "merging"
        /\ record[b].pending
        /\ record' = [record EXCEPT ![b] = WithPending(@, FALSE)]
        /\ request'[d] = Answered(request[d], "sent")
    BY <1>0, <1>5, <1>a DEF ClaimAutoMerge, TypeOK
  <2>2. request'[d].attempt = b
    BY <1>0, <2>1 DEF Answered, MergeRequest
  <2>3. CASE a # b
    BY <1>0, <1>s, <2>1, <2>2, <2>3 DEF Engaged, TypeOK
  <2>4. CASE a = b
    <3>1. record[a].change # 0
      BY <2>1, <2>4 DEF ClaimFine, Engaged
    <3>2. /\ record'[a] = WithPending(record[a], FALSE)
          /\ record[a] \in PublishRecord
      BY <1>0, <2>1, <2>4 DEF TypeOK
    <3>3. /\ record'[a].change = record[a].change
          /\ record'[a].merged = record[a].merged
          /\ record'[a].pending = FALSE
      BY <3>2 DEF WithPending, PublishRecord
    <3>4. ~record[a].merged /\ Holders(a) = {} /\ at[p] = "done"
      BY <2>1, <2>4, <3>1 DEF ClaimFine, InOnePlace
    <3>5. Holders(a)' = {d}
      BY <1>1, <2>1, <2>2, <2>4, <3>4 DEF Holders
    <3> QED
      BY <1>1, <3>1, <3>3, <3>4, <3>5 DEF ClaimFine, InOnePlace
  <2> QED
    BY <2>3, <2>4
<1>6. CASE RecordMerge(d) \/ RestoreAutoMergeClaim(d)
  <2>1. at[d] = "merging" /\ at'[d] \notin {"claiming", "merging"}
    <3>1. Goes(d, "merging", "idle") \/ Goes(d, "merging", "releasing")
      BY <1>6 DEF RecordMerge, RestoreAutoMergeClaim
    <3> QED
      BY <3>1, <1>a
  <2>2. PICK r : record' = [record EXCEPT ![b] = r]
    BY <1>6 DEF RecordMerge, RestoreAutoMergeClaim
  <2>3. CASE a # b
    <3>1. record'[a] = record[a]
      BY <1>0, <2>2, <2>3 DEF TypeOK
    <3> QED
      BY <1>s, <2>1, <2>3, <3>1 DEF Engaged
  <2>4. CASE a = b
    <3>1. record[a].change # 0
      BY <2>1, <2>4 DEF ClaimFine, Engaged
    <3>2. d \in Holders(a)
      BY <2>1, <2>4 DEF Holders
    <3>3. /\ ~record[a].pending /\ ~record[a].merged /\ at[p] = "done"
          /\ Holders(a) = {d}
      BY <3>1, <3>2 DEF ClaimFine, InOnePlace
    <3>4. Holders(a)' = {}
      BY <1>1, <2>1, <3>3 DEF Holders
    <3>5. CASE RecordMerge(d)
      <4>1. request[d].change \in DOMAIN changes /\ changes \in Seq(Change)
        BY <1>0, <3>5 DEF RecordMerge, RequestFine, Asks, KnownChange, TypeOK
      <4>2. request[d].change # 0
        BY <4>1
      <4>3. PICK commit \in {Squash, Absent} :
              record'[a] = Merged(commit, request[d].change)
        BY <1>0, <2>4, <3>5 DEF RecordMerge, TypeOK
      <4>4. /\ record'[a].change # 0 /\ record'[a].pending = FALSE
            /\ record'[a].merged = TRUE
        BY <4>2, <4>3 DEF Merged
      <4> QED
        BY <1>1, <3>3, <3>4, <4>4 DEF ClaimFine, InOnePlace
    <3>6. CASE RestoreAutoMergeClaim(d)
      <4>1. /\ record'[a] = WithPending(record[a], TRUE)
            /\ record[a] \in PublishRecord
        BY <1>0, <2>4, <3>6 DEF RestoreAutoMergeClaim, TypeOK
      <4>2. /\ record'[a].change = record[a].change
            /\ record'[a].merged = record[a].merged
            /\ record'[a].pending = TRUE
        BY <4>1 DEF WithPending, PublishRecord
      <4> QED
        BY <1>1, <3>1, <3>3, <3>4, <4>2 DEF ClaimFine, InOnePlace
    <3> QED
      BY <1>6, <3>5, <3>6
  <2> QED
    BY <2>3, <2>4
<1> QED
  BY <1>2, <1>3, <1>4, <1>5, <1>6 DEF HandlerStep

\* Nothing else touches the claim.
LEMMA ClaimStep ==
  ASSUME MergeInv, TypeOK', [Next]_vars, "crash" \notin Faults, ClaimInv
  PROVE  ClaimInv'
<1> SUFFICES ASSUME NEW p \in Publishes, Sole(p), AttemptOf[p] \in GreenRequired
             PROVE  ClaimFine(p, AttemptOf[p])'
  BY DEF ClaimInv, Sole
<1> DEFINE a == AttemptOf[p]
<1>0. /\ TypeOK /\ p \in Tasks /\ p \notin Deliveries /\ a \in Attempts
      /\ ClaimFine(p, a) /\ \A x \in Tasks : RequestFine(x)
  BY MergeAssumption DEF MergeInv, Tasks, ClaimInv
<1>s. ASSUME record'[a] = record[a], at'[p] = at[p],
             \A d \in Deliveries :
               at'[d] = at[d] /\ request'[d].attempt = request[d].attempt
      PROVE  ClaimFine(p, a)'
  <2>1. record[a].change = 0 => \A d \in Deliveries : ~Engaged(d, a)'
    BY <1>0, <1>s DEF ClaimFine, Engaged
  <2> QED
    BY <1>0, <1>s, <2>1, ClaimStays
<1>1. ASSUME NEW q \in Publishes, PublishStep(q) PROVE ClaimFine(p, a)'
  BY <1>0, <1>1, ClaimPublishStep
<1>2. ASSUME NEW m \in MergeCalls, MergeCallStep(m) PROVE ClaimFine(p, a)'
  <2>0. /\ m \in Tasks /\ m \notin Deliveries /\ m # p
        /\ AttemptOf[m] \in Attempts
    BY MergeAssumption DEF Tasks
  <2>1. /\ at'[p] = at[p]
        /\ \A d \in Deliveries : at'[d] = at[d] /\ request'[d] = request[d]
    BY <1>0, <1>2, <2>0 DEF MergeCallStep, CallMerge, RequestMerge,
       FinishMergeCall, Goes, TypeOK, Tasks
  <2>2. CASE CallMerge(m)
    BY <1>s, <2>1, <2>2 DEF CallMerge, RequestMerge
  <2>3. CASE FinishMergeCall(m)
    <3>1. AttemptOf[m] \notin GreenRequired
      BY <1>0, <2>0, <2>3 DEF FinishMergeCall, RequestFine, Asks, ToolEntitled
    <3>2. record'[a] = record[a]
      BY <1>0, <2>0, <2>3, <3>1 DEF FinishMergeCall, TypeOK
    <3> QED
      BY <1>s, <2>1, <3>2
  <2> QED
    BY <1>2, <2>2, <2>3 DEF MergeCallStep
<1>3. ASSUME NEW d \in Deliveries, ReceiveSuccess(d) \/ HandlerStep(d)
      PROVE  ClaimFine(p, a)'
  BY <1>0, <1>3, ClaimHandlerStep
<1>4. ASSUME NEW x \in Tasks, ProviderStep(x) PROVE ClaimFine(p, a)'
  <2>1. record' = record /\ at' = at
    BY <1>4 DEF ProviderStep, AcceptMerge, RefuseMerge, LoseAnswer, AnswerMerge
  <2>2. PICK answer :
          request' = [request EXCEPT ![x] = Answered(@, answer)]
    BY <1>4 DEF ProviderStep, AcceptMerge, RefuseMerge, LoseAnswer, AnswerMerge
  <2>3. \A y \in Tasks : request'[y].attempt = request[y].attempt
    BY <1>0, <2>2 DEF Answered, TypeOK, MergeRequest
  <2> QED
    BY <1>s, <2>1, <2>3 DEF Tasks
<1>5. CASE UNCHANGED vars
  BY <1>5, <1>s DEF vars
<1> QED
  BY <1>1, <1>2, <1>3, <1>4, <1>5 DEF Next, Crash

\* Only publishes that wait are pending, and handlers only deal with those.
LEMMA GatedStep ==
  ASSUME MergeInv, [Next]_vars, GatedOnly
  PROVE  GatedOnly'
<1> DEFINE Pending == \A a \in Attempts : record'[a].pending => a \in GreenRequired
           Asked == \A d \in Deliveries :
                      Asks(d)' => request'[d].attempt \in GreenRequired
<1>0. /\ TypeOK /\ \A x \in Tasks : RequestFine(x)
      /\ \A a \in Attempts : record[a].pending => a \in GreenRequired
      /\ \A d \in Deliveries : Asks(d) => request[d].attempt \in GreenRequired
  BY DEF MergeInv, GatedOnly
<1>w. ASSUME NEW a \in Attempts, NEW r, record' = [record EXCEPT ![a] = r],
             r.pending => a \in GreenRequired
      PROVE  Pending
  BY <1>0, <1>w DEF TypeOK
<1>u. ASSUME \A d \in Deliveries :
               /\ request'[d].attempt = request[d].attempt
               /\ Asks(d)' => Asks(d)
      PROVE  Asked
  BY <1>0, <1>u
<1>1. ASSUME NEW q \in Publishes, PublishStep(q) PROVE Pending /\ Asked
  <2>0. q \in Tasks /\ q \notin Deliveries /\ AttemptOf[q] \in Attempts
    BY MergeAssumption DEF Tasks
  <2>1. \A d \in Deliveries : at'[d] = at[d] /\ request'[d] = request[d]
    BY <1>0, <1>1, <2>0 DEF PublishStep, PushCommit, FindOpenChange,
       CreateChange, PublishFails, RecordPublish, RecordAndMerge,
       FinishImmediateMerge, Goes, TypeOK, Tasks
  <2>2. Published(q).pending => AttemptOf[q] \in GreenRequired
    BY Zenon DEF Published
  <2>3. \A commit, n : ~Merged(commit, n).pending
    BY DEF Merged
  <2>4. Pending
    BY <1>0, <1>1, <1>w, <2>0, <2>2, <2>3 DEF PublishStep, PushCommit,
       FindOpenChange, CreateChange, PublishFails, RecordPublish,
       RecordAndMerge, FinishImmediateMerge
  <2> QED
    BY <1>u, <2>1, <2>4 DEF Asks
<1>2. ASSUME NEW m \in MergeCalls, MergeCallStep(m) PROVE Pending /\ Asked
  <2>0. m \in Tasks /\ m \notin Deliveries /\ AttemptOf[m] \in Attempts
    BY MergeAssumption DEF Tasks
  <2>1. \A d \in Deliveries : at'[d] = at[d] /\ request'[d] = request[d]
    BY <1>0, <1>2, <2>0 DEF MergeCallStep, CallMerge, RequestMerge,
       FinishMergeCall, Goes, TypeOK, Tasks
  <2>2. \A commit, n : ~Merged(commit, n).pending
    BY DEF Merged
  <2>3. Pending
    BY <1>0, <1>2, <1>w, <2>0, <2>2 DEF MergeCallStep, CallMerge,
       RequestMerge, FinishMergeCall
  <2> QED
    BY <1>u, <2>1, <2>3 DEF Asks
<1>3. ASSUME NEW d \in Deliveries, ReceiveSuccess(d) \/ HandlerStep(d)
      PROVE  Pending /\ Asked
  <2> DEFINE b == request[d].attempt
  <2>0. /\ d \in Tasks /\ b \in Attempts /\ request[d] \in MergeRequest
        /\ record[b] \in PublishRecord
    <3>1. d \in Tasks /\ request[d] \in MergeRequest
      BY <1>0 DEF Tasks, TypeOK
    <3>2. b \in Attempts
      BY <3>1 DEF MergeRequest
    <3> QED
      BY <1>0, <3>1, <3>2 DEF TypeOK
  <2>1. \A e \in Deliveries \ {d} : at'[e] = at[e] /\ request'[e] = request[e]
    BY <1>0, <1>3, <2>0 DEF HandlerStep, ReceiveSuccess, FindPending,
       FindNothing, GiveUpLooking, ClaimAutoMerge, ClaimLost, RecordMerge,
       RestoreAutoMergeClaim, ReleaseDelivery, Goes, TypeOK, Tasks
  <2>s. ASSUME Asks(d)' => request'[d].attempt \in GreenRequired PROVE Asked
    BY <1>0, <2>1, <2>s DEF Asks
  <2>a. \A from, to : Goes(d, from, to) => at[d] = from /\ at'[d] = to
    BY <1>0, <2>0 DEF Goes, TypeOK
  <2>2. CASE ReceiveSuccess(d) \/ GiveUpLooking(d) \/ ClaimLost(d)
             \/ ReleaseDelivery(d)
    <3>1. record' = record /\ request' = request
          /\ at'[d] \notin {"claiming", "opened"}
      BY <2>2, <2>a DEF ReceiveSuccess, GiveUpLooking, ClaimLost, ReleaseDelivery
    <3> QED
      BY <1>0, <2>s, <3>1 DEF Asks
  <2>3. CASE FindNothing(d)
    BY <1>0, <1>u, <2>3 DEF FindNothing, Asks
  <2>4. CASE FindPending(d)
    <3>1. PICK c \in PendingAutoMerge(d) :
            request' = [request EXCEPT ![d] =
                          ToMerge(c, record[c].change, record[c].commit)]
      BY <2>4 DEF FindPending
    <3>2. request'[d].attempt = c /\ c \in GreenRequired
      BY <1>0, <2>0, <3>1 DEF TypeOK, ToMerge, PendingAutoMerge
    <3> QED
      BY <1>0, <2>4, <2>s, <3>2 DEF FindPending
  <2>5. CASE ClaimAutoMerge(d)
    <3>1. Asks(d)
      BY <2>5 DEF ClaimAutoMerge, Goes, Asks
    <3>2. request'[d] = Answered(request[d], "sent")
      BY <1>0, <2>0, <2>5 DEF ClaimAutoMerge, TypeOK
    <3>3. request'[d].attempt = b
      BY <2>0, <3>2 DEF Answered, MergeRequest
    <3>4. /\ record' = [record EXCEPT ![b] = WithPending(record[b], FALSE)]
          /\ b \in GreenRequired
      BY <1>0, <2>5, <3>1 DEF ClaimAutoMerge
    <3> QED
      BY <1>0, <1>w, <2>0, <2>s, <3>1, <3>3, <3>4
  <2>6. CASE RecordMerge(d) \/ RestoreAutoMergeClaim(d)
    <3>1. Asks(d) /\ request' = request
      BY <2>6 DEF RecordMerge, RestoreAutoMergeClaim, Asks
    <3>2. PICK r : record' = [record EXCEPT ![b] = r]
      BY <2>6 DEF RecordMerge, RestoreAutoMergeClaim
    <3> QED
      BY <1>0, <1>w, <2>0, <2>s, <3>1, <3>2
  <2> QED
    BY <1>3, <2>2, <2>3, <2>4, <2>5, <2>6 DEF HandlerStep
<1>4. ASSUME NEW x \in Tasks, ProviderStep(x) PROVE Pending /\ Asked
  <2>1. record' = record /\ at' = at /\ request[x].answer # "none"
    BY <1>4 DEF ProviderStep, AcceptMerge, RefuseMerge, LoseAnswer, AnswerMerge
  <2>2. PICK answer :
          request' = [request EXCEPT ![x] = Answered(@, answer)]
    BY <1>4 DEF ProviderStep, AcceptMerge, RefuseMerge, LoseAnswer, AnswerMerge
  <2>3. \A y \in Tasks : /\ request'[y].attempt = request[y].attempt
                         /\ y # x => request'[y] = request[y]
    BY <1>0, <2>2 DEF Answered, TypeOK, MergeRequest
  <2> QED
    BY <1>0, <1>u, <2>1, <2>3 DEF Asks, Tasks
<1>5. CASE Crash
  <2>1. \A d \in Deliveries : at'[d] = "idle"
    BY <1>5 DEF Crash, Tasks
  <2> QED
    BY <1>0, <1>5, <2>1 DEF Crash, Asks, GatedOnly
<1>6. CASE UNCHANGED vars
  BY <1>0, <1>6 DEF vars, Asks, GatedOnly
<1> QED
  BY <1>1, <1>2, <1>3, <1>4, <1>5, <1>6 DEF Next, GatedOnly

\* What stays as long as a record and what is asked for it do.
LEMMA NumberStays ==
  ASSUME ChangesEvolve, NEW p, NEW a, NumberFine(p, a),
         record'[a] = record[a],
         at[p] \in {"merging", "done"} =>
           at'[p] \in {"merging", "done"}
             /\ request'[p].change = request[p].change,
         \A m \in MergeCalls :
           AttemptOf[m] = a /\ request'[m].answer # "none" =>
             \/ /\ request[m].answer # "none"
                /\ request'[m].change = request[m].change
             \/ /\ record[a].change # 0
                /\ request'[m].change = record[a].change
  PROVE  NumberFine(p, a)'
<1>1. record[a].change # 0 => /\ at'[p] \in {"merging", "done"}
                              /\ record[a].change = request'[p].change
  BY DEF NumberFine
<1>2. record[a].merged => /\ changes'[record[a].change].state = "merged"
                          /\ record[a].change \in DOMAIN changes'
  BY DEF NumberFine, ChangesEvolve, Evolves
<1>3. ASSUME NEW m \in MergeCalls, AttemptOf[m] = a, request'[m].answer # "none"
      PROVE  record[a].change # 0 /\ request'[m].change = record[a].change
  BY <1>3 DEF NumberFine
<1> QED
  BY <1>1, <1>2, <1>3 DEF NumberFine

\* The publish records the change that it merges at once, and says that it
\* merged only what was.
LEMMA NumberPublishStep ==
  ASSUME MergeInv, ChangesEvolve, NEW p \in Publishes, Sole(p),
         NumberFine(p, AttemptOf[p]), NEW q \in Publishes, PublishStep(q)
  PROVE  NumberFine(p, AttemptOf[p])'
<1> DEFINE a == AttemptOf[p]
<1>0. /\ TypeOK /\ q \in Tasks /\ p \in Tasks /\ a \in Attempts
      /\ RequestFine(q) /\ AttemptOf[q] \in Attempts
      /\ request[p] \in MergeRequest
  BY MergeAssumption DEF MergeInv, Tasks, TypeOK
<1>1. \A m \in MergeCalls : request'[m] = request[m]
  BY <1>0, MergeAssumption DEF PublishStep, PushCommit, FindOpenChange,
     CreateChange, PublishFails, RecordPublish, RecordAndMerge,
     FinishImmediateMerge, TypeOK, Tasks
<1>2. at[p] \in {"merging", "done"} =>
        /\ at'[p] \in {"merging", "done"}
        /\ request'[p].change = request[p].change
  <2>1. CASE q # p
    BY <1>0, <2>1 DEF PublishStep, PushCommit, FindOpenChange, CreateChange,
       PublishFails, RecordPublish, RecordAndMerge, FinishImmediateMerge, Goes,
       TypeOK
  <2>2. CASE q = p
    <3>1. ASSUME at[p] \in {"merging", "done"} PROVE FinishImmediateMerge(p)
      BY <2>2, <3>1 DEF PublishStep, PushCommit, FindOpenChange, CreateChange,
         PublishFails, RecordPublish, RecordAndMerge, Goes
    <3> QED
      BY <1>0, <3>1 DEF FinishImmediateMerge, Goes, TypeOK
  <2> QED
    BY <2>1, <2>2
<1>3. CASE record'[a] = record[a]
  BY <1>1, <1>2, <1>3, NumberStays
<1>4. CASE record'[a] # record[a]
  <2>1. /\ RecordPublish(q) \/ RecordAndMerge(q) \/ FinishImmediateMerge(q)
        /\ AttemptOf[q] = a
    BY <1>0, <1>4 DEF PublishStep, PushCommit, FindOpenChange, CreateChange,
       PublishFails, RecordPublish, RecordAndMerge, FinishImmediateMerge, TypeOK
  <2>2. q = p
    BY <2>1 DEF Sole
  <2>3. request'[p].change = request[p].change
    BY <1>0, <2>1, <2>2 DEF RecordPublish, RecordAndMerge,
       FinishImmediateMerge, TypeOK, Answered, MergeRequest
  <2>4. at'[p] \in {"merging", "done"}
    BY <1>0, <2>1, <2>2 DEF RecordPublish, RecordAndMerge,
       FinishImmediateMerge, Goes, TypeOK
  <2>5. Asks(p)
    BY <2>1, <2>2 DEF RecordPublish, RecordAndMerge, FinishImmediateMerge,
       Goes, Asks
  <2>6. request[p].change \in DOMAIN changes /\ request[p].change # 0
    <3>1. request[p].change \in DOMAIN changes /\ changes \in Seq(Change)
      BY <1>0, <2>2, <2>5 DEF RequestFine, KnownChange, TypeOK
    <3> QED
      BY <3>1
  <2>7. /\ record'[a].change = request[p].change
        /\ record'[a].merged => request[p].answer = "merged"
    <3>1. /\ Published(p).change = request[p].change /\ ~Published(p).merged
          /\ \A commit : Merged(commit, request[p].change).change
                           = request[p].change
      BY DEF Published, Merged
    <3> QED
      BY <1>0, <2>1, <2>2, <3>1 DEF RecordPublish, RecordAndMerge,
         FinishImmediateMerge, TypeOK
  <2>8. record'[a].merged => changes'[request[p].change].state = "merged"
    BY <1>0, <2>2, <2>6, <2>7, KnownStays DEF RequestFine
  <2>9. \A m \in MergeCalls : AttemptOf[m] = a /\ request[m].answer # "none" =>
          request[m].change = request[p].change
    <3>1. ASSUME NEW m \in MergeCalls, AttemptOf[m] = a,
                 request[m].answer # "none"
          PROVE  request[m].change = request[p].change
      BY <3>1 DEF NumberFine
    <3> QED
      BY <3>1
  <2>10. request[p].change \in DOMAIN changes'
    BY <2>6 DEF ChangesEvolve
  <2> QED
    BY <1>1, <2>3, <2>4, <2>6, <2>7, <2>8, <2>9, <2>10 DEF NumberFine
<1> QED
  BY <1>3, <1>4

\* Nothing else gives the record another change.
LEMMA NumberStep ==
  ASSUME MergeInv, TypeOK', [Next]_vars, NumberInv
  PROVE  NumberInv'
<1>g. GatedOnly' /\ ChangesEvolve
  BY GatedStep, EvolveStep DEF NumberInv
<1> SUFFICES ASSUME NEW p \in Publishes, Sole(p), AttemptOf[p] \notin GreenRequired
             PROVE  NumberFine(p, AttemptOf[p])'
  BY <1>g DEF NumberInv, Sole
<1> DEFINE a == AttemptOf[p]
<1>0. /\ TypeOK /\ p \in Tasks /\ p \notin Deliveries /\ a \in Attempts
      /\ NumberFine(p, a) /\ GatedOnly /\ \A x \in Tasks : RequestFine(x)
  BY MergeAssumption DEF MergeInv, Tasks, NumberInv
<1>s. ASSUME record'[a] = record[a],
             at[p] \in {"merging", "done"} => at'[p] \in {"merging", "done"},
             request'[p].change = request[p].change,
             \A m \in MergeCalls :
               /\ request'[m].change = request[m].change
               /\ request[m].answer = "none" => request'[m].answer = "none"
      PROVE  NumberFine(p, a)'
  BY <1>0, <1>g, <1>s, NumberStays
<1>1. ASSUME NEW q \in Publishes, PublishStep(q) PROVE NumberFine(p, a)'
  BY <1>0, <1>g, <1>1, NumberPublishStep
<1>2. ASSUME NEW m \in MergeCalls, MergeCallStep(m) PROVE NumberFine(p, a)'
  <2>0. /\ m \in Tasks /\ m \notin Deliveries /\ m # p
        /\ AttemptOf[m] \in Attempts /\ request[m] \in MergeRequest
        /\ record[AttemptOf[m]] \in PublishRecord
    BY <1>0, MergeAssumption DEF Tasks, TypeOK
  <2>1. at'[p] = at[p] /\ request'[p] = request[p]
        /\ \A n \in MergeCalls \ {m} : request'[n] = request[n]
    BY <1>0, <1>2, <2>0 DEF MergeCallStep, CallMerge, RequestMerge,
       FinishMergeCall, Goes, TypeOK, Tasks
  <2>2. CASE CallMerge(m)
    <3>1. /\ record' = record
          /\ record[AttemptOf[m]].change # 0
          /\ request'[m] = Answered(ToMerge(AttemptOf[m],
                                            record[AttemptOf[m]].change,
                                            record[AttemptOf[m]].commit), "sent")
      BY <1>0, <2>0, <2>2 DEF CallMerge, RequestMerge, TypeOK
    <3>2. request'[m].change = record[AttemptOf[m]].change
      BY <3>1 DEF Answered, ToMerge
    <3> QED
      BY <1>0, <1>g, <2>1, <3>1, <3>2, NumberStays
  <2>3. CASE FinishMergeCall(m) /\ AttemptOf[m] # a
    <3>1. record'[a] = record[a] /\ request' = request
      BY <1>0, <2>0, <2>3 DEF FinishMergeCall, TypeOK
    <3> QED
      BY <1>s, <2>1, <3>1
  <2>4. CASE FinishMergeCall(m) /\ AttemptOf[m] = a
    <3>1. request' = request
      BY <2>4 DEF FinishMergeCall
    <3>2. CASE record' = record
      BY <1>s, <2>1, <3>1, <3>2
    <3>3. CASE request[m].answer = "merged" /\ record' # record
      <4>1. PICK commit \in {Squash, Absent} :
              record'[a] = Merged(commit, record[a].change)
        BY <1>0, <2>4, <3>3 DEF FinishMergeCall, TypeOK
      <4>2. /\ record[a].change # 0
            /\ request[m].change = record[a].change
        BY <1>0, <2>4, <3>3 DEF NumberFine
      <4>3. changes[record[a].change].state = "merged"
        BY <1>0, <2>0, <3>3, <4>2 DEF RequestFine
      <4>4. record[a].change \in DOMAIN changes
        BY <1>0, <2>0, <3>3, <4>2 DEF RequestFine, Asks, KnownChange
      <4>5. record'[a].change = record[a].change
        BY <4>1 DEF Merged
      <4>6. /\ changes'[record[a].change].state = "merged"
            /\ record[a].change \in DOMAIN changes'
        BY <1>g, <4>3, <4>4 DEF ChangesEvolve, Evolves
      <4> QED
        BY <1>0, <2>1, <3>1, <4>5, <4>6 DEF NumberFine
    <3> QED
      BY <2>4, <3>2, <3>3 DEF FinishMergeCall
  <2> QED
    BY <1>2, <2>2, <2>3, <2>4 DEF MergeCallStep
<1>3. ASSUME NEW d \in Deliveries, ReceiveSuccess(d) \/ HandlerStep(d)
      PROVE  NumberFine(p, a)'
  <2>0. d \in Tasks /\ d # p /\ d \notin MergeCalls
        /\ request[d].attempt \in Attempts
    BY <1>0, MergeAssumption DEF Tasks, TypeOK, MergeRequest
  <2>1. at'[p] = at[p] /\ \A x \in Tasks \ {d} : request'[x] = request[x]
    BY <1>0, <1>3, <2>0 DEF HandlerStep, ReceiveSuccess, FindPending,
       FindNothing, GiveUpLooking, ClaimAutoMerge, ClaimLost, RecordMerge,
       RestoreAutoMergeClaim, ReleaseDelivery, Goes, TypeOK
  <2>2. record'[a] = record[a]
    <3>1. CASE ClaimAutoMerge(d) \/ RecordMerge(d) \/ RestoreAutoMergeClaim(d)
      <4>1. Asks(d)
        BY <3>1 DEF ClaimAutoMerge, RecordMerge, RestoreAutoMergeClaim, Goes,
           Asks
      <4>2. request[d].attempt # a
        BY <1>0, <4>1 DEF GatedOnly
      <4>3. PICK r : record' = [record EXCEPT ![request[d].attempt] = r]
        BY <3>1 DEF ClaimAutoMerge, RecordMerge, RestoreAutoMergeClaim
      <4> QED
        BY <1>0, <4>2, <4>3 DEF TypeOK
    <3> QED
      BY <1>3, <3>1 DEF HandlerStep, ReceiveSuccess, FindPending, FindNothing,
         GiveUpLooking, ClaimLost, ReleaseDelivery
  <2> QED
    BY <1>0, <1>s, <2>0, <2>1, <2>2 DEF Tasks
<1>4. ASSUME NEW x \in Tasks, ProviderStep(x) PROVE NumberFine(p, a)'
  <2>1. record' = record /\ at' = at /\ request[x].answer # "none"
    BY <1>4 DEF ProviderStep, AcceptMerge, RefuseMerge, LoseAnswer, AnswerMerge
  <2>2. PICK answer :
          request' = [request EXCEPT ![x] = Answered(@, answer)]
    BY <1>4 DEF ProviderStep, AcceptMerge, RefuseMerge, LoseAnswer, AnswerMerge
  <2>3. \A y \in Tasks : /\ request'[y].change = request[y].change
                         /\ y # x => request'[y] = request[y]
    BY <1>0, <2>2 DEF Answered, TypeOK, MergeRequest
  <2> QED
    BY <1>0, <1>s, <2>1, <2>3 DEF Tasks
<1>5. CASE Crash
  <2>1. at[p] \in {"merging", "done"} => at'[p] = "done"
    BY <1>0, <1>5 DEF Crash
  <2> QED
    BY <1>5, <1>s, <2>1 DEF Crash
<1>6. CASE UNCHANGED vars
  BY <1>6, <1>s DEF vars
<1> QED
  BY <1>1, <1>2, <1>3, <1>4, <1>5, <1>6 DEF Next

-----------------------------------------------------------------------------
\* The theorems.

\* The invariant holds at first,
LEMMA MergeInit == Init => MergeInv
<1> SUFFICES ASSUME Init PROVE MergeInv
  OBVIOUS
<1>1. TypeOK
  BY InitType
<1>2. \A x \in Tasks : RequestFine(x)
  BY DEF Init, RequestFine, Asks, NoRequest
<1>3. \A a \in Attempts : RecordFine(a)
  <2>1. changes = <<>> /\ 0 \notin DOMAIN <<>>
    BY DEF Init
  <2>2. \A a \in Attempts : /\ record[a].change = 0 /\ ~record[a].merged
    BY DEF Init, NoPublish
  <2> QED
    BY <2>1, <2>2 DEF RecordFine, NotOpen
<1> QED
  BY <1>1, <1>2, <1>3 DEF Init, MergeInv

\* every step keeps it,
LEMMA MergeStep == MergeInv /\ [Next]_vars => MergeInv'
<1> SUFFICES ASSUME MergeInv, [Next]_vars PROVE MergeInv'
  OBVIOUS
<1>1. TypeOK' /\ ChangesEvolve
  BY TypeStep, EvolveStep
<1>2. /\ \A x \in Tasks : RequestFine(x)'
      /\ \A a \in Attempts : RecordFine(a)'
  BY <1>1, RequestStep, RecordStep
<1>3. /\ \A b \in Branches : head'[b] # Absent => CommitOfBranch(head'[b], b)
      /\ \A n \in DOMAIN changes' : ChangeFine(n)'
  BY <1>1, ProviderInvStep
<1> QED
  BY <1>1, <1>2, <1>3 DEF MergeInv, CommitOfBranch

\* so it always holds.
LEMMA MergeInvHolds == Spec => []MergeInv
BY MergeInit, MergeStep, PTL DEF Spec

\* The state is always well typed.
THEOREM TypeInvariant == Spec => []TypeOK
<1>1. MergeInv => TypeOK
  BY DEF MergeInv
<1> QED
  BY <1>1, MergeInvHolds, PTL

\* No commit that has to wait for its pipeline is merged before its success
\* was reported, whatever publishes, handlers, providers and crashes do.
THEOREM OnlyGreenIsMerged == Spec => []MergedWasGreen
<1>1. MergeInv => MergedWasGreen
  BY DEF MergeInv, ChangeFine, MergedWasGreen, MergedCommits, CommitOfBranch
<1> QED
  BY <1>1, MergeInvHolds, PTL

\* A merge that goes out unpinned cannot take place.
THEOREM UnpinnedCannotMerge == Spec => []UnpinnedIsHarmless
<1>1. ASSUME MergeInv, NEW x \in Tasks, request[x].answer = "sent",
             request[x].pin = Absent, Gated(BranchOf[request[x].attempt])
      PROVE  changes[request[x].change].state # "open"
  <2>1. /\ RequestFine(x) /\ Asks(x) /\ request[x].attempt \in Attempts
    BY <1>1 DEF MergeInv, Asks, TypeOK, MergeRequest
  <2>2. request[x].attempt \in GreenRequired
    BY <1>1, <2>1 DEF Gated
  <2>3. x \in Deliveries
    BY <1>1, <2>1, <2>2 DEF RequestFine, ToolEntitled
  <2>4. CommitOf[x] # Absent
    BY <2>3, MergeAssumption
  <2> QED
    BY <1>1, <2>1, <2>2, <2>3, <2>4 DEF RequestFine, HandlerEntitled, NotOpen,
       KnownChange
<1>2. MergeInv => UnpinnedIsHarmless
  BY <1>1 DEF UnpinnedIsHarmless
<1> QED
  BY <1>2, MergeInvHolds, PTL

\* Without crashes, the merge of an attempt published once is in one place.
THEOREM ClaimsAreKept == "crash" \notin Faults => (Spec => []ClaimIsKept)
<1> SUFFICES ASSUME "crash" \notin Faults PROVE Spec => []ClaimIsKept
  OBVIOUS
<1>1. Init => ClaimInv
  <2>1. ASSUME Init, NEW p \in Publishes PROVE ClaimFine(p, AttemptOf[p])
    BY <2>1, MergeAssumption DEF Init, ClaimFine, NoPublish, Engaged, Tasks
  <2> QED
    BY <2>1 DEF ClaimInv
<1>2. MergeInv /\ MergeInv' /\ ClaimInv /\ [Next]_vars => ClaimInv'
  BY ClaimStep DEF MergeInv
<1>3. ASSUME ClaimInv, NEW a \in GreenRequired, PublishedOnce(a),
             record[a].change # 0
      PROVE  InOnePlace(a)
  <2>1. PICK p \in Publishes : {q \in Publishes : AttemptOf[q] = a} = {p}
    BY <1>3 DEF PublishedOnce
  <2>2. AttemptOf[p] = a /\ Sole(p)
    BY <2>1 DEF Sole
  <2> QED
    BY <1>3, <2>2 DEF ClaimInv, ClaimFine
<1>4. ClaimInv => ClaimIsKept
  BY <1>3 DEF ClaimIsKept
<1> QED
  BY <1>1, <1>2, <1>4, MergeInvHolds, PTL DEF Spec

\* A record that tells of a merge names a change that was merged.
THEOREM RecordedMergesHappened == Spec => []RecordedMergeHappened
<1>1. Init => NumberInv
  <2>1. ASSUME Init PROVE GatedOnly
    BY <2>1, MergeAssumption DEF Init, GatedOnly, NoPublish, NoRequest, Asks, Tasks
  <2>2. ASSUME Init, NEW p \in Publishes PROVE NumberFine(p, AttemptOf[p])
    BY <2>2, MergeAssumption DEF Init, NumberFine, NoPublish, NoRequest, Tasks
  <2> QED
    BY <2>1, <2>2 DEF NumberInv
<1>2. MergeInv /\ MergeInv' /\ NumberInv /\ [Next]_vars => NumberInv'
  BY NumberStep DEF MergeInv
<1>3. ASSUME MergeInv, NumberInv, NEW a \in Attempts, record[a].merged,
             a \in GreenRequired \/ PublishedOnce(a)
      PROVE  changes[record[a].change].state = "merged"
  <2>1. CASE a \in GreenRequired
    BY <1>3, <2>1 DEF MergeInv, RecordFine
  <2>2. CASE a \notin GreenRequired
    <3>1. PICK p \in Publishes : {q \in Publishes : AttemptOf[q] = a} = {p}
      BY <1>3, <2>2 DEF PublishedOnce
    <3>2. AttemptOf[p] = a /\ Sole(p)
      BY <3>1 DEF Sole
    <3> QED
      BY <1>3, <2>2, <3>2 DEF NumberInv, NumberFine
  <2> QED
    BY <2>1, <2>2
<1>4. MergeInv /\ NumberInv => RecordedMergeHappened
  BY <1>3 DEF RecordedMergeHappened
<1> QED
  BY <1>1, <1>2, <1>4, MergeInvHolds, PTL DEF Spec

=============================================================================
