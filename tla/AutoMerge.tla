------------------------------ MODULE AutoMerge ------------------------------
(***************************************************************************)
(* How a repair is published and merged: the publish_fix and merge_change  *)
(* tools, and handleSuccessfulPipeline of agent/lib/repair-service.ts,     *)
(* which merges the fix once a webhook reports that the pipeline of its    *)
(* commit succeeded.  Between them stands the pendingAutoMerge flag of the *)
(* attempt record: publish_fix raises it, a success handler claims it with *)
(* claimAutoMerge and puts it back when its merge fails.                   *)
(*                                                                         *)
(* A task is one async activation: the handler of a success delivery, a    *)
(* call of publish_fix or a call of merge_change.  A step is what a task   *)
(* does between two awaits, or what the provider does with one request.    *)
(* Every publish makes one commit, so a publish also names its commit.     *)
(***************************************************************************)
EXTENDS Naturals, Sequences

CONSTANTS
  Attempts,            \* attempt keys
  Branches,            \* fix branches; buildFixBranchName names them by ref and
                       \* commit, so attempts of one commit share theirs
  BranchOf,            \* the fix branch of each attempt
  GreenRequired,       \* policy.autoMerge.requireSuccessfulPipeline
  Publishes,           \* calls of publish_fix that reach the provider
  MergeCalls,          \* calls of merge_change
  AttemptOf,           \* the attempt each of these calls is for
  Deliveries,          \* webhook deliveries that report a success
  CommitOf,            \* the commit each delivery reports on
  Untrusted,           \* deliveries verified by the GitLab secret token only,
                       \* under a policy that does not allow that
  LookupRetries,       \* SUCCESS_FOLLOWUP_LOOKUP_RETRIES
  DeleteSourceBranch,  \* policy.autoMerge.deleteSourceBranch
  Squash,              \* any merge commit
  Absent,              \* undefined
  Faults

\* crash        the process stops; the state file and the provider go on
\* merge_fails  the provider refuses a merge it could have done
\* answer_lost  the provider merges and its answer never arrives
FaultKinds == {"crash", "merge_fails", "answer_lost"}

ASSUME MergeAssumption ==
  /\ BranchOf \in [Attempts -> Branches]
  /\ GreenRequired \subseteq Attempts
  /\ AttemptOf \in [Publishes \cup MergeCalls -> Attempts]
  /\ CommitOf \in [Deliveries -> Publishes]
  /\ Untrusted \subseteq Deliveries
  /\ LookupRetries \in Nat
  /\ DeleteSourceBranch \in BOOLEAN
  /\ Faults \subseteq FaultKinds
  /\ Publishes \cap MergeCalls = {}
  /\ Deliveries \cap (Publishes \cup MergeCalls) = {}
  /\ Squash \notin Publishes /\ Absent \notin Publishes /\ Squash # Absent

VARIABLES
  record,     \* the published part of each attempt record, persisted
  processed,  \* state.processedDeliveries, persisted
  at,         \* where each task is suspended
  lookups,    \* how often each success handler has looked in vain
  request,    \* what each task would have merged, and the answer to it
  head,       \* the commit each fix branch points to, at the provider
  changes     \* the pull or merge requests, by number, at the provider

vars == <<record, processed, at, lookups, request, head, changes>>

provider == <<head, changes>>

-----------------------------------------------------------------------------

Tasks == Deliveries \cup Publishes \cup MergeCalls

\* A success handler looks, claims, merges, and on failure restores and
\* releases; publish_fix has pushed, found no open change, or opened one.
Stages ==
  {"idle", "looking", "claiming", "merging", "releasing",
   "pushed", "creating", "opened", "done"}

\* commitSha of a publish result; Squash and Absent are those of a merge,
\* GitLab leaving merge_commit_sha out when it merged by fast-forward.
Commit == Publishes \cup {Squash, Absent}

\* Of lastPublishResult its commitSha and whether it is the result of a merge;
\* changeNumber (0: undefined; publishedBranch is set with it) and
\* pendingAutoMerge.  lastTerminalAction, which the observation of a session
\* writes too and no merge reads, is left out.
PublishRecord ==
  [commit : Commit, change : Nat, pending : BOOLEAN, merged : BOOLEAN]

NoPublish ==
  [commit |-> Absent, change |-> 0, pending |-> FALSE, merged |-> FALSE]

\* What mergeChange is called with, and what became of the call.
MergeRequest ==
  [attempt : Attempts, change : Nat, pin : Commit,
   answer : {"none", "sent", "accepted", "merged", "error"}]

\* The tasks start with no request; the attempt of theirs is then any.
NoRequest ==
  [attempt |-> CHOOSE a \in Attempts : TRUE, change |-> 0, pin |-> Absent,
   answer |-> "none"]

Change ==
  [branch : Branches, state : {"open", "merged", "closed"}, commit : Commit]

TypeOK ==
  /\ record \in [Attempts -> PublishRecord]
  /\ processed \subseteq Deliveries
  /\ at \in [Tasks -> Stages]
  /\ lookups \in [Deliveries -> 0 .. LookupRetries]
  /\ request \in [Tasks -> MergeRequest]
  /\ head \in [Branches -> Publishes \cup {Absent}]
  /\ changes \in Seq(Change)

Init ==
  /\ record = [a \in Attempts |-> NoPublish]
  /\ processed = {}
  /\ at = [x \in Tasks |-> "idle"]
  /\ lookups = [d \in Deliveries |-> 0]
  /\ request = [x \in Tasks |-> NoRequest]
  /\ head = [b \in Branches |-> Absent]
  /\ changes = <<>>

Goes(x, from, to) == at[x] = from /\ at' = [at EXCEPT ![x] = to]

OpenChanges(b) ==
  {n \in DOMAIN changes : changes[n].branch = b /\ changes[n].state = "open"}

-----------------------------------------------------------------------------
\* publish_fix at the provider: ensureBranch and createCommit, then
\* createOrUpdatePullRequest or createOrUpdateMergeRequest.

FixBranch(p) == BranchOf[AttemptOf[p]]

\* The commit is made on top of the failed one and the branch forced to it.
PushCommit(p) ==
  /\ Goes(p, "idle", "pushed")
  /\ head' = [head EXCEPT ![FixBranch(p)] = p]
  /\ UNCHANGED <<record, processed, lookups, request, changes>>

ToMerge(a, n, commit) ==
  [attempt |-> a, change |-> n, pin |-> commit, answer |-> "none"]

Answered(r, answer) == [r EXCEPT !.answer = answer]

FindOpenChange(p) ==
  /\ UNCHANGED <<record, processed, lookups, provider>>
  /\ \/ /\ OpenChanges(FixBranch(p)) = {}
        /\ Goes(p, "pushed", "creating")
        /\ UNCHANGED request
     \/ \E n \in OpenChanges(FixBranch(p)) :
          /\ Goes(p, "pushed", "opened")
          /\ request' = [request EXCEPT ![p] = ToMerge(AttemptOf[p], n, p)]

\* The provider allows one open change per branch, and none of a branch that
\* is gone.
CreateChange(p) ==
  /\ Goes(p, "creating", "opened")
  /\ OpenChanges(FixBranch(p)) = {}
  /\ head[FixBranch(p)] # Absent
  /\ changes' = Append(changes, [branch |-> FixBranch(p), state |-> "open",
                                 commit |-> Absent])
  /\ request' = [request EXCEPT ![p] =
                   ToMerge(AttemptOf[p], Len(changes) + 1, p)]
  /\ UNCHANGED <<record, processed, lookups, head>>

\* A request fails, or its answer is lost: publish_fix throws and what it did
\* at the provider stays.
PublishFails(p) ==
  /\ \E stage \in {"pushed", "creating", "opened"} : Goes(p, stage, "done")
  /\ UNCHANGED <<record, processed, lookups, request, provider>>

-----------------------------------------------------------------------------
\* publish_fix and merge_change: their writes to the record.

Published(p) ==
  [commit |-> p, change |-> request[p].change, merged |-> FALSE,
   pending |-> AttemptOf[p] \in GreenRequired]

\* The publish waits for its pipeline.
RecordPublish(p) ==
  /\ AttemptOf[p] \in GreenRequired
  /\ Goes(p, "opened", "done")
  /\ record' = [record EXCEPT ![AttemptOf[p]] = Published(p)]
  /\ UNCHANGED <<processed, lookups, request, provider>>

\* Without requireSuccessfulPipeline it is recorded and merged at once.
\* lastPublishResult is the result of the publish until the merge has succeeded.
RecordAndMerge(p) ==
  /\ AttemptOf[p] \notin GreenRequired
  /\ Goes(p, "opened", "merging")
  /\ record' = [record EXCEPT ![AttemptOf[p]] = Published(p)]
  /\ request' = [request EXCEPT ![p] = Answered(@, "sent")]
  /\ UNCHANGED <<processed, lookups, provider>>

\* lastPublishResult, changeNumber and the outcome of a merge are written from
\* its result, over whatever the record says by then.
Merged(commit, n) ==
  [commit |-> commit, change |-> n, merged |-> TRUE, pending |-> FALSE]

FinishImmediateMerge(p) ==
  /\ Goes(p, "merging", "done")
  /\ \/ /\ request[p].answer = "merged"
        /\ \E commit \in {Squash, Absent} :
             record' = [record EXCEPT ![AttemptOf[p]] =
                          Merged(commit, request[p].change)]
     \/ /\ request[p].answer = "error"
        /\ record' = [record EXCEPT ![AttemptOf[p]] = Published(p)]
  /\ UNCHANGED <<processed, lookups, request, provider>>

\* merge_change, once the policy allows it.
RequestMerge(m) ==
  /\ Goes(m, "idle", "merging")
  /\ record[AttemptOf[m]].change # 0
  /\ request' = [request EXCEPT ![m] =
       Answered(ToMerge(AttemptOf[m], record[AttemptOf[m]].change,
                        record[AttemptOf[m]].commit), "sent")]
  /\ UNCHANGED <<record, processed, lookups, provider>>

CallMerge(m) == AttemptOf[m] \notin GreenRequired /\ RequestMerge(m)

\* merge_change does not write the change number; an error is thrown and not
\* recorded.
FinishMergeCall(m) ==
  /\ Goes(m, "merging", "done")
  /\ \/ /\ request[m].answer = "merged"
        /\ \E commit \in {Squash, Absent} :
             record' = [record EXCEPT ![AttemptOf[m]] =
                          Merged(commit, @.change)]
     \/ request[m].answer = "error" /\ UNCHANGED record
  /\ UNCHANGED <<processed, lookups, request, provider>>

-----------------------------------------------------------------------------
\* handleSuccessfulPipeline.

\* A pipeline runs once its commit is pushed.
ReceiveSuccess(d) ==
  /\ d \notin processed
  /\ at[CommitOf[d]] # "idle"
  /\ Goes(d, "idle", "looking")
  /\ processed' = processed \cup {d}
  /\ lookups' = [lookups EXCEPT ![d] = 0]
  /\ UNCHANGED <<record, request, provider>>

PublishedCommitMatches(r, commit) == r.commit \in {Absent, commit}

PendingAutoMerge(d) ==
  {a \in Attempts :
     /\ record[a].pending
     /\ record[a].change # 0
     /\ BranchOf[a] = FixBranch(CommitOf[d])
     /\ PublishedCommitMatches(record[a], CommitOf[d])}

\* Mutant: the policy is asked about the branch and not about the delivery.
FindPendingUntrusted(d) ==
  /\ Goes(d, "looking", "claiming")
  /\ \E a \in PendingAutoMerge(d) :
       request' = [request EXCEPT ![d] =
                     ToMerge(a, record[a].change, record[a].commit)]
  /\ UNCHANGED <<record, processed, lookups, provider>>

\* An attempt is pending only if its policy requires the success, so the
\* handler's own test of the policy always holds and is left out.
FindPending(d) ==
  /\ d \notin Untrusted
  /\ Goes(d, "looking", "claiming")
  /\ \E a \in PendingAutoMerge(d) :
       request' = [request EXCEPT ![d] =
                     ToMerge(a, record[a].change, record[a].commit)]
  /\ UNCHANGED <<record, processed, lookups, provider>>

\* Mutant: one lookup too many.
LookOnceMore(d) ==
  /\ at[d] = "looking"
  /\ PendingAutoMerge(d) = {}
  /\ lookups[d] <= LookupRetries
  /\ lookups' = [lookups EXCEPT ![d] = @ + 1]
  /\ UNCHANGED <<record, processed, at, request, provider>>

\* Looks again after SUCCESS_FOLLOWUP_LOOKUP_RETRY_DELAY_MS.
FindNothing(d) ==
  /\ at[d] = "looking"
  /\ PendingAutoMerge(d) = {}
  /\ lookups[d] < LookupRetries
  /\ lookups' = [lookups EXCEPT ![d] = @ + 1]
  /\ UNCHANGED <<record, processed, at, request, provider>>

\* Nothing to merge after all retries, or the policy rejects the delivery.
GiveUpLooking(d) ==
  /\ Goes(d, "looking", "releasing")
  /\ \/ PendingAutoMerge(d) = {} /\ lookups[d] = LookupRetries
     \/ PendingAutoMerge(d) # {} /\ d \in Untrusted
  /\ UNCHANGED <<record, processed, lookups, request, provider>>

WithPending(r, pending) == [r EXCEPT !.pending = pending]

\* Mutant: the pin is read again when the claim is won.
ClaimAndPinAnew(d) ==
  LET a == request[d].attempt IN
  /\ Goes(d, "claiming", "merging")
  /\ record[a].pending
  /\ record' = [record EXCEPT ![a] = WithPending(@, FALSE)]
  /\ request' = [request EXCEPT ![d] =
       Answered(ToMerge(a, record[a].change, record[a].commit), "sent")]
  /\ UNCHANGED <<processed, lookups, provider>>

\* The claim asks for the flag only; change and pin are those of the lookup.
ClaimAutoMerge(d) ==
  LET a == request[d].attempt IN
  /\ Goes(d, "claiming", "merging")
  /\ record[a].pending
  /\ record' = [record EXCEPT ![a] = WithPending(@, FALSE)]
  /\ request' = [request EXCEPT ![d] = Answered(@, "sent")]
  /\ UNCHANGED <<processed, lookups, provider>>

\* Claimed by another success handler; the delivery stays marked.
ClaimLost(d) ==
  /\ Goes(d, "claiming", "idle")
  /\ ~record[request[d].attempt].pending
  /\ UNCHANGED <<record, processed, lookups, request, provider>>

\* Mutant: the change number is left as it is, as merge_change leaves it.
RecordMergeOnly(d) ==
  /\ Goes(d, "merging", "idle")
  /\ request[d].answer = "merged"
  /\ \E commit \in {Squash, Absent} :
       record' = [record EXCEPT ![request[d].attempt] =
                    Merged(commit, @.change)]
  /\ UNCHANGED <<processed, lookups, request, provider>>

RecordMerge(d) ==
  /\ Goes(d, "merging", "idle")
  /\ request[d].answer = "merged"
  /\ \E commit \in {Squash, Absent} :
       record' = [record EXCEPT ![request[d].attempt] =
                    Merged(commit, request[d].change)]
  /\ UNCHANGED <<processed, lookups, request, provider>>

\* Mutant: a failed merge leaves the claim taken.
ReleaseOnly(d) ==
  /\ Goes(d, "merging", "releasing")
  /\ request[d].answer = "error"
  /\ UNCHANGED <<record, processed, lookups, request, provider>>

RestoreAutoMergeClaim(d) ==
  /\ Goes(d, "merging", "releasing")
  /\ request[d].answer = "error"
  /\ record' = [record EXCEPT ![request[d].attempt] = WithPending(@, TRUE)]
  /\ UNCHANGED <<processed, lookups, request, provider>>

\* Mutant: the handler returns with its delivery marked.
ReturnMarked(d) ==
  /\ Goes(d, "releasing", "idle")
  /\ UNCHANGED <<record, processed, lookups, request, provider>>

ReleaseDelivery(d) ==
  /\ Goes(d, "releasing", "idle")
  /\ processed' = processed \ {d}
  /\ UNCHANGED <<record, lookups, request, provider>>

-----------------------------------------------------------------------------
\* The provider answers a merge request.

HeadMatches(x) ==
  request[x].pin \in {Absent, head[changes[request[x].change].branch]}

Mergeable(x) ==
  changes[request[x].change].state = "open" /\ HeadMatches(x)

MergedAt(change, commit) ==
  [change EXCEPT !.state = "merged", !.commit = commit]

AcceptMerge(x) ==
  LET n == request[x].change IN
  /\ request[x].answer = "sent"
  /\ Mergeable(x)
  /\ changes' = [changes EXCEPT ![n] = MergedAt(@, head[@.branch])]
  /\ request' = [request EXCEPT ![x] = Answered(@, "accepted")]
  /\ UNCHANGED <<record, processed, at, lookups, head>>

RefuseMerge(x) ==
  /\ request[x].answer = "sent"
  /\ ~Mergeable(x) \/ "merge_fails" \in Faults
  /\ request' = [request EXCEPT ![x] = Answered(@, "error")]
  /\ UNCHANGED <<record, processed, at, lookups, provider>>

LoseAnswer(x) ==
  /\ "answer_lost" \in Faults
  /\ request[x].answer = "accepted"
  /\ request' = [request EXCEPT ![x] = Answered(@, "error")]
  /\ UNCHANGED <<record, processed, at, lookups, provider>>

Closed(change) == [change EXCEPT !.state = "closed"]

\* Deleting a branch closes the change that is open for it.
DeleteBranch(b) ==
  /\ head' = [head EXCEPT ![b] = Absent]
  /\ changes' = [n \in DOMAIN changes |->
                   IF n \in OpenChanges(b) THEN Closed(changes[n])
                                           ELSE changes[n]]

\* The source branch is deleted after the merge if the policy says so; that
\* this failed is ignored.
AnswerMerge(x) ==
  /\ at[x] = "merging"
  /\ request[x].answer = "accepted"
  /\ request' = [request EXCEPT ![x] = Answered(@, "merged")]
  /\ \/ DeleteSourceBranch /\ DeleteBranch(changes[request[x].change].branch)
     \/ UNCHANGED provider
  /\ UNCHANGED <<record, processed, at, lookups>>

\* Requests that were sent reach the provider even so.
Crash ==
  /\ "crash" \in Faults
  /\ \E x \in Tasks : at[x] \notin {"idle", "done"}
  /\ at' = [x \in Tasks |-> IF x \in Deliveries \/ at[x] = "idle"
                              THEN "idle" ELSE "done"]
  /\ UNCHANGED <<record, processed, lookups, request, provider>>

-----------------------------------------------------------------------------

PublishStep(p) ==
  \/ PushCommit(p) \/ FindOpenChange(p) \/ CreateChange(p) \/ PublishFails(p)
  \/ RecordPublish(p) \/ RecordAndMerge(p) \/ FinishImmediateMerge(p)

MergeCallStep(m) == CallMerge(m) \/ FinishMergeCall(m)

HandlerStep(d) ==
  \/ FindPending(d) \/ FindNothing(d) \/ GiveUpLooking(d)
  \/ ClaimAutoMerge(d) \/ ClaimLost(d)
  \/ RecordMerge(d) \/ RestoreAutoMergeClaim(d) \/ ReleaseDelivery(d)

ProviderStep(x) ==
  AcceptMerge(x) \/ RefuseMerge(x) \/ LoseAnswer(x) \/ AnswerMerge(x)

Next ==
  \/ \E p \in Publishes : PublishStep(p)
  \/ \E m \in MergeCalls : MergeCallStep(m)
  \/ \E d \in Deliveries : ReceiveSuccess(d) \/ HandlerStep(d)
  \/ \E x \in Tasks : ProviderStep(x)
  \/ Crash

Spec == Init /\ [][Next]_vars

\* Every await of a success handler settles and a released delivery is sent
\* again; the provider answers, and does not refuse forever what it can merge.
\* Nothing is assumed of the tools.
Fairness ==
  \A d \in Deliveries :
    /\ WF_vars(HandlerStep(d)) /\ WF_vars(ReceiveSuccess(d))
    /\ WF_vars(ProviderStep(d)) /\ SF_vars(AcceptMerge(d))

FairSpec == Spec /\ Fairness

-----------------------------------------------------------------------------

MergedCommits == {changes[n].commit : n \in {m \in DOMAIN changes :
                                               changes[m].state = "merged"}}

\* The commits whose success a delivery reports that the policy accepts.
Green == {CommitOf[d] : d \in Deliveries \ Untrusted}

PublishedOnce(a) ==
  \E p \in Publishes : {q \in Publishes : AttemptOf[q] = a} = {p}

\* Every attempt that publishes to the branch has to wait for its pipeline.
Gated(b) == \A a \in Attempts : BranchOf[a] = b => a \in GreenRequired

\* Where the policy requires it, no commit is merged that has not been
\* reported green, however publishes, handlers, lost answers and crashes
\* interleave (publishedCommitMatches, expectedCommitSha; README:
\* "auto-merge waits for a later successful pipeline webhook").
MergedWasGreen ==
  \A commit \in MergedCommits :
    Gated(FixBranch(commit)) => commit \in Green

\* A merge goes out unpinned only for a change that can no longer be merged:
\* a claim that is restored over the record of a finished merge matches any
\* success (publishedCommitMatches: an undefined commit matches).
UnpinnedIsHarmless ==
  \A x \in Tasks :
    request[x].answer = "sent" /\ request[x].pin = Absent =>
      \/ ~Gated(BranchOf[request[x].attempt])
      \/ changes[request[x].change].state # "open"

\* A merge that a record tells of did happen, to the change the record names,
\* even when another publish is recorded while it is under way
\* (handleSuccessfulPipeline).  merge_change leaves the number alone, so this
\* needs attempts it may merge to be published once.
RecordedMergeHappened ==
  \A a \in Attempts :
    record[a].merged /\ (a \in GreenRequired \/ PublishedOnce(a))
      => changes[record[a].change].state = "merged"

\* The merge of an attempt that was published once is in exactly one place:
\* pending, held by one success handler, or recorded as done.  It is never
\* claimed twice and, short of a crash, never lost (claimAutoMerge,
\* restoreAutoMergeClaim).
Holders(a) == {d \in Deliveries : at[d] = "merging" /\ request[d].attempt = a}

InOnePlace(a) ==
  \/ record[a].pending /\ ~record[a].merged /\ Holders(a) = {}
  \/ record[a].merged /\ ~record[a].pending /\ Holders(a) = {}
  \/ /\ ~record[a].pending /\ ~record[a].merged
     /\ \E d \in Deliveries : Holders(a) = {d}

ClaimIsKept ==
  \A a \in GreenRequired :
    "crash" \notin Faults /\ PublishedOnce(a) /\ record[a].change # 0
      => InOnePlace(a)

\* A green commit whose publish is recorded is merged in the end, unless
\* another commit has taken its branch (findPendingAutoMergeAttemptAfterSettle,
\* releaseDelivery).
GreenIsMerged ==
  \A p \in Green :
    "crash" \notin Faults /\ PublishedOnce(AttemptOf[p]) =>
      (record[AttemptOf[p]].pending
         ~> p \in MergedCommits \/ head[FixBranch(p)] # p)

=============================================================================
