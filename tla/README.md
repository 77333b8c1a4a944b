# Hootline in TLA+

Hootline receives webhooks about failed CI pipelines, starts an Eve agent
session to repair each of them, watches that session and publishes its fix.
This directory models the parts of it whose correctness depends on order:
which webhooks start repairs, what overlapping repairs, stale sessions and
crashes can do to the persisted attempt records, when a fix is merged, and what
the benchmark that runs the whole service against a simulated provider may
conclude from it.
Every definition follows the source under `src/`; PROJECT.json maps each one
to the lines it stands for.

## The system

| Component | State | Operations | Interacts with |
|---|---|---|---|
| Webhook channel (`agent/channels/ci.ts`, `lib/webhooks.ts`) | none | verify, normalise, dispatch | calls the orchestrator |
| Orchestrator (`lib/repair-service.ts`) | one async task per delivery | dispatch, start session, retry, continue, release, merge on success | ledger, monitor, Eve, providers |
| Ledger (`lib/state.ts`) | the state file: processed deliveries, attempt records | mark, release, claim slot, claim merge, claim rerun, update | everything reads and writes it |
| Session monitor (`lib/session-monitor.ts`) | counters of one stream | observe, classify | Eve stream; verdict to the orchestrator |
| Agent tools (`agent/tools/*`) | none of their own | stage, edit, check, publish, rerun, comment, merge | ledger by attempt key, sandbox, providers |
| Sandbox (`lib/sandbox.ts`, `lib/archive.ts`) | work tree, snapshot marker, network policy | stage, run checks, collect changes | tools |
| Providers (`lib/providers/*`) | branches, changes, pipelines at GitHub or GitLab | publish, merge, rerun, comment | tools, orchestrator |
| Simulated provider (`lib/providers/simulated-github.ts`) | one state file, a lock directory | the provider calls, each an update of the file | tools, tests, benchmark runner |
| Benchmark runner (`scripts/simulated-benchmark.mjs`, `scripts/benchmarks/common.mjs`) | workers, their polls and rows | add a sample, deliver, poll, deliver again, make a row | starts the service; reads the ledger, shares the simulator's file |
| Configuration, policy, telemetry, model settings | read once, or write-only | | |

What is hard here: webhooks of one commit arrive together and again; a
delivery handler waits many times (network, timers, streams, the promise-chain
mutex) and acts afterwards on what it read before; Eve sessions and their tools
are not stopped when the service gives up on them and name their attempt only
by its key; the process may stop anywhere while only the state file survives;
the success webhook of a fix races the record of its publication.

What makes each component correct:

* ledger and orchestrator: one repair per commit, a cap on attempts, a
  delivery marked exactly while it is handled or done with, a released delivery
  that can be repaired again, retries that end, published work that stays;
* session monitor: every stream yields a verdict that agrees with the
  terminal action in it, within its deadline;
* auto-merge: only a commit whose pipeline succeeded is merged, the claim to
  merge is neither doubled nor lost;
* sandbox: the network is closed again after every command, a snapshot is used
  only for the attempt it was staged for, what is published was verified;
* providers: a publish leaves one open change per fix branch;
* simulated provider: an update is made as a whole or not at all, by whichever
  process, and a caller is told which;
* benchmark runner: it delivers only what the service can accept, a row says
  what happened to its own sample, and the benchmark ends.

PROJECT.json lists the places where these are at risk, under `hazards`, each
with the properties that would catch it.

## Modules

* `RepairState`: the attempt ledger. An attempt record keeps the number of
  attempts, whether `lastSeenAt` is recent, which started-work fields are set,
  session status, terminal action, whether something is published, and the
  rerun requests. Its operators are the questions of the claim guards
  (`IsActiveRepairAttempt`, `CountAttemptsForSha`, `WithinAttemptCap`) and the
  updates of a record. The sum over records is a cardinality
  (`RecordedAttempts`), which both TLC and the proofs can work with.
* `RepairService`: the orchestrator. `job[d]` is the async handler of delivery
  `d`, at the await where it is suspended; `ledger` and `processed` are the
  state file; `live` are Eve sessions whose turn is running, `calls` tool calls
  between their guard and their write, `reruns` what the provider was asked
  for. One action is what runs between two awaits that really wait.
* `RepairSlot`, `RepairSlotRefinement`: the abstract promise, a slot per
  commit that one delivery holds at a time, at most `maxAttemptsPerSha` times
  and never after a publish, and the refinement mapping under which
  `RepairService` implements it.
* `AutoMerge`: how a repair is published and merged. `record[a]` is the
  published part of an attempt record (commit, change number, pending flag, and
  whether the last publish result is that of a merge); `at[x]` is where a task is suspended: a success delivery
  (`handleSuccessfulPipeline`), a call of `publish_fix` or one of
  `merge_change`; `request[x]` is the merge it asks for, with the change and the
  commit it read beforehand; `head` and `changes` are the provider's branches
  and pull or merge requests. A publish makes one commit and gives it its name.
  RepairService keeps of all this only that something was published.
* `SessionMonitor`: what observeRepairSession makes of one turn. `stream` is
  what the session has emitted, whether it is watched or not, `read` how much of
  it the monitor has read, `obs` its ObservationState, and `outcome` the
  observation with what the callers do about it (settle, continue, retry, give
  up). An event stands for all events the monitor treats alike.
* `TurnVerdict`: what the orchestrator relies on, a verdict on a turn without
  the events: the same choices that ObserveStop, ObserveFailure, MonitorGivesUp
  and StreamEnds of RepairService make. SessionMonitor implements it.
* `Workspace`: the sandbox of one session, `/workspace/repo` with its git
  baseline and snapshot marker and the network policy, and the tool calls that
  work in it: stage, edit, check, publish. `at[c]` is the await on the sandbox
  where call `c` is suspended, with what it has read until then (`text`,
  `verified`, `changed`, `collected`). The content of a file is the set of calls
  whose edits are in it. Two history variables, which no action reads, let the
  properties speak of what met: `overlap[c]`, the calls that were under way
  together with call `c`, and `leftOpen`, those that ended without closing the
  network. RepairService and AutoMerge keep of all this only that
  a publish happened or did not.
* `TextEdit`: how `edit_repo_file` and `replace_repo_lines` change a file. A
  model quotes the text it wants replaced from memory, so the code tries
  readings of it (decoded, out of a fence, without line numbers, with the file's
  line endings, whatever the indentation) until one is found. A text is a
  sequence of tokens, and each function of the code an operator. Workspace keeps
  of an edit only whose it is. What a model was shown is part of two properties:
  `QuotedAlike` says when both texts of a call are quoted in one way (plain, with
  the numbers read_file puts before lines, in a fence, or both), and `AsAsked`
  lets what a fence says of itself, the language it names, be left out.
* `SimulatorState`: the simulator's file as a value, and what each request does
  to it. A job stands for a sample and its commit.
* `SimulatedGitHub`: the abstract promise of the simulated provider, requests
  that are carried out one after another, as a whole or not at all.
* `SimulatorStore`: `updateSimulatorState` call by call of the file system.
  `locked` is the lock directory, `db` the file, `pc[p]` where process `p` is in
  its update and `copy[p]` what it is about to put in the file's place. With its
  own next-state relation, in which anybody asks for anything, it is a component;
  callers that are known compose its steps with theirs.
* `BenchmarkService`: the service as the benchmark runner can see it, an attempt
  record per job (`attempt`, `marked`), the handler of its delivery, live
  sessions and the one tool call that waits for the provider. A step is one
  write to either file, finer than RepairService, because the runner reads
  between any two; the claims that RepairService interleaves are one step here,
  because a job has one delivery.
* `SimulatedBenchmark`: the runner composed with BenchmarkService and the store.
  `work[j]` is what a worker knows of job `j` (where it is in
  `runScenarioSample`, the attempt it last saw, its redeliveries and its row),
  `post[j]` its webhook request, `run` what `main` is doing.
* `MCRepairService`, `MCAutoMerge`, `MCSessionMonitor`, `MCWorkspace`,
  `MCTextEdit`, `MCSimulatedBenchmark`: instances for TLC.
* `RepairServiceProofs`, `RepairSlotProofs`, `AutoMergeProofs`,
  `SessionMonitorProofs`, `WorkspaceProofs`, `TextEditProofs`,
  `SimulatorStoreProofs`, `SimulatedBenchmarkProofs`: the theorems.

Definitions headed `Mutant:` are faulty variants of the definition below
them. No module uses them; PROJECT.json pairs each with the property it breaks.

## Runs

| Run | Question | Instance |
|---|---|---|
| `repair_faults` | What survives crashes, expired windows, early stream ends, refused continuations? | 1 pipeline, 2 deliveries (symmetric), cap 2, 1 continuation, all faults |
| `repair_retries` | Do two pipelines of one commit ever repair it at once, is a released slot free, is the abstract slot implemented? Do retries and continuations end, is a failing commit repaired until resolved? | 2 pipelines of 1 commit, 3 deliveries of which one is rejected, cap 2, 1 retry, 1 continuation, redeliveries, monitors may give up, tools that act at once |
| `continuation_refused` | violated: a refused continuation leaves the slot taken | 1 pipeline, continuation may be refused |
| `merge_claim` | Is the claim to merge doubled or lost, is a green commit merged? | 2 attempts of 1 commit on 1 branch, published once each, 3 success webhooks of which one is not trusted, merges may fail or lose their answer |
| `merge_overlap` | What may be merged when publishes overlap with merges? | a gated attempt published twice, an ungated one published once, a call of `merge_change` for each, 2 success webhooks of the first commit, crashes and lost answers |
| `monitor_faults` | Is work repeated, is an idle turn dropped, is a turn started beside another, is the verdict one RepairService knows? | turns of 5 events, 3 failed edits stop it, 1 continuation, 1 retry, all faults |
| `workspace_sequence` | Does a publish make the snapshot into the verified tree, in sessions that stage again? | 4 tool calls in sequence, 2 files, stagings that fail anywhere, writing commands, other sessions, crashes |
| `workspace_overlap` | When tool calls overlap, who closes the network, what gets between a verification and its publish, and which edits can be lost? | 3 overlapping tool calls, 2 files of which one is allowed, an allowlist with fallback, all faults |
| `restaging_fails` | violated: the snapshot guard accepts what a failed restaging has left | 3 calls in sequence, stagings may fail |
| `text_edit` | Does every edit replace what was quoted by what was asked for, and nothing else? | files of up to 3 lines, calls that quote 7 snippets in 5 ways and give 5 replacements in 5 ways, or in a fence that names a language, or name a range of lines |
| `edit_twice` | violated: a text that occurs twice, overlapping itself, is replaced | the same |
| `simulated_benchmark` | Is an update of the shared file lost, is a webhook refused without reason, does a row speak of its own sample, does the benchmark end? | 2 samples, 2 at a time, cap 2, 1 continuation, 1 retry, 2 published changes, merging at once, failing disks, six courses of events |

Bounds. Two deliveries are enough for a winner and a loser of every race, and
a cap of 2 lets a session of a first attempt outlive it and write into the
record of the second. `MaxToolCalls` bounds only tool calls in flight at once;
a tool call that a session never makes is a behaviour of every run. All
retries, continuations and attempts are bounded by the code itself, so the
models need no other bound. In AutoMerge a task is a constant: two publishes
of an attempt give a merge that was read from the first and is under way during
the second, whose commit no webhook reports, and two webhooks of the first a
winner and a loser. Crashes, failed merges and lost answers are not counted. In SessionMonitor five
events hold three failed edits with a success among them and an ending; the
verdict depends on no more of a turn than which events it has and which was
last, and the proofs are for turns of any length. In Workspace three calls are a
staging and two calls that meet, which reaches a publish with an unverified
edit in it and an edit that another one overwrites; four are a staging, an edit or a staging that
fails, and a publish, with one call to spare; two files tell a tree that is whole
from one that is not. In TextEdit an edit depends on nothing but the file and
the call, so one call suffices (`MaxCalls`); three lines hold a block, a line
beside it and a second place where a block of two can be found; two indentations
of a word make indentation matter; and a limit of 12 tokens lets replacements
run into it. Replacements that end in one or two line endings, and fences that
name a language, are there because edits with them differ: the one may leave a
file a line less, the other has a word that is not to be written
(`BlockKeepsLayout` and `AsAsked` account for both). In SimulatedBenchmark two jobs let one update or publish while the
other does; `MaxChanges` 2 lets a job publish again after a merge or from a stale
session, or both publish once; a first fix that fails its checks and a second
that passes tell their rows apart. All faults and endings at once are out of
reach, so `Courses` names six combinations of what may happen to the two jobs,
each of which brings together what interferes: turns that are retried
(`Retried`), a session that outlives its monitor and its window (`Stray`),
comments and reruns beside a send that fails (`Declined`), streams cut off and
continuations refused (`Cut`), a merge asked for twice (`Remerged`), a service
that dies and a fixture that is broken (`Broken`). The theorems hold for all
courses. Deadlock is not checked: the service may come to
rest when every delivery is handled.

Fairness. `FairSpec` assumes weak fairness of the steps of each handler, as
every await of a handler settles: provider requests and stream reads have
deadlines, the backoff sleep ends, `withStateLock` survives rejections. It
assumes that a released delivery is sent again, which is what releasing it is
for. It assumes nothing of sessions and tools: they may never act. A turn that
never ends is ended for the handler by the monitor's timeout
(`monitor_gives_up`), which the liveness run `repair_retries` therefore includes.

In AutoMerge `FairSpec` assumes weak fairness of the success handlers, of the
redelivery of a released webhook and of the provider's answers to them, and
strong fairness of `AcceptMerge`: a provider may refuse a merge it could do, but
not every time. Nothing is assumed of publish_fix and merge_change, which run in
a session; `GreenIsMerged` therefore starts from a publish that is recorded.

In SimulatedBenchmark `FairSpec` assumes weak fairness of `main`, of the workers
together, of every update and of a tool that has its answer: an event loop that
has something to do does it, and a call of the file system returns. A handler
that has recorded an observation goes on, as no await follows. A webhook gets
strong fairness, as the service may be in an update or an observation every time
it would be received. Nothing is assumed of models, turns and sends, nor of a
retry of `mkdir`: `BenchmarkEnds` rests on the deadlines.

## Proofs

`RepairServiceProofs` proves, for any number of commits, pipelines and
deliveries, any cap and limits and any set of faults, from `LedgerAssumption`
and `ServiceAssumption` alone:

* `TypeInvariant`, one lemma per group of actions. The updates of a record
  are operators, so that each has one small typing lemma.
* `CapHolds`. `AttemptsWithinCap` speaks of a cardinality, which is inductive
  only with the finiteness of the set counted (`CapInv`): a claim adds exactly
  one pair to it (`ClaimAddsOne`) and no other step changes it (`StepKeeps`).
* `PublishedStays`: a published record is active, so the claim guard refuses
  its whole commit; no other step resets a record.
* `AttemptsAreExclusive`, from `AttemptInv`: the attempt a handler runs has
  been counted, so the number the next claim takes is new.
* `RerunsAreBounded`, from `RerunInv`: reruns never exceed the attempts that
  are over plus the requests recorded for the current one, and a session can
  only ask for an attempt that exists.
* `DeliveriesAreHeld`, and `RepairsAreExclusive` from `SlotInv`: while no
  repair outlives the recent window, the record of a running repair carries the
  dispatch marker and is neither failed nor abandoned, and no tool of any
  session can change that.
* `ReleasedCanRetry`, where Eve refuses no continuation and no stream ends early,
  from `ReleaseInv`: from the moment a handler gives up until its delivery is
  released, the record is freed or has been acted on (`Freed`), or somebody
  repairs the pipeline again. What sessions write meanwhile keeps a record freed
  (`FreedStays`, `ActedFreed`), and a repair that takes the slot ends by freeing
  it (`EndsFreed`). Both conditions are needed: a refused continuation leaves its
  record active, the disagreement of `continuation_refused`, and an early end of
  the stream may leave one running.

`RepairSlotProofs` proves that RepairService implements RepairSlot under the
same condition (`SlotIsImplemented`), from `RefInv`: the invariants above, and
that tool calls, like sessions, belong to attempts that were recorded. A claim
is an `Acquire` (`ClaimAcquires`): the record of any repair of the commit would
have refused it, and it adds one to a finite set of attempts. Every other step
keeps the count, and either sets the published flag of one record and moves no
handler (`PublishSteps`), which is a `Publish`, or lets some handlers leave and
moves none in, which is a `Vacate`.

`AutoMergeProofs` proves, for any attempts, publishes, webhooks, retries and
faults, from `MergeAssumption` alone:

* `TypeInvariant`, by group of actions.
* `OnlyGreenIsMerged` and `UnpinnedCannotMerge`, from `MergeInv`. Neither
  property is inductive: that a handler merges the right commit follows from
  what it read at its lookup. `MergeInv` says of each handler's request that
  its pin is the commit its webhook reported, or that it has no pin and its
  change is not open any more (`RequestFine`); of each gated record that one
  which lost its commit, or says merged, names a change that is not open, or is
  merged (`RecordFine`); that heads are commits of their branch, open changes
  have a branch, and merged changes carry a green commit (`ChangeFine`). What is not open
  never opens again (`EvolveStep`), so both survive every step of the provider.
* `ClaimsAreKept`, where the service does not crash, from `ClaimInv`: for an
  attempt with one publish, what was claimed is held in exactly one place, the
  record or the handler that took it, from the moment it is recorded
  (`ClaimFine`). A crash loses what a handler holds, so the condition is needed.
* `RecordedMergesHappened`, for gated attempts from `RecordFine`, for ungated ones
  from `NumberInv`: the record of an ungated attempt
  with one publish names the change of that publish, its merges are asked for
  that change, and no handler of a webhook touches it (`GatedOnly`).

`SessionMonitorProofs` proves the four properties of SessionMonitor and its
refinement of TurnVerdict, for turns of any length, any limits and counts and
any faults, from `MonitorAssumption` alone. `MonitorInv` ties the state to what
was read: `acted` holds exactly if a terminal action was read, `length` only if
an output limit was, a monitor still watching has read no ending, and one that
has concluded shows the outcome of the state it ended with and a provider error
only after an ending. The refinement also needs that an ending is the last
event of its turn (`EndIsLast`): what the monitor has not read can then no
longer be a terminal action of a turn that it saw end.

`WorkspaceProofs` proves, for any number of calls, any files and policy, any
faults and whether or not calls overlap, from `WorkspaceAssumption`:

* `TypeInvariant`, and `NetworkIsClosed`, which is inductive with the types, as
  only a verification touches the network.
* `VerifiedIsPublished` and `EditsStay`, from `OverlapInv`. That calls which are
  under way together are in each other's `overlap` (`OverlapFits`) is what
  singles out who can interfere. From a verification that passed to the publish,
  the work tree and what was collected from it differ from what was verified
  only by writes of calls in that set (`VerifiedFits`); a finished edit is in its
  file, and in what every later edit has read of the file, unless an edit in that
  set wrote over it (`EditFits`). Both need that nobody has seen the write of a
  call that has not written yet (`WritesFit`), and that each await belongs to its
  tools and files are removed as a whole (`PointsFit`). The exceptions in the two properties are
  needed: publish_fix collects the changes after its verification has ended, and
  an edit writes back the file that it read before an await.
* `PublishesAreExact`, from `ExactInv`: a marker was written by a staging that
  got that far, so the tree under it is whole and its baseline the snapshot
  (`MarkedBy`, `StagingFits`), a staging that fails later is a restaging, and
  what a publish reports as changed is where the tree differs from the baseline
  (`PublishFits`). Calls other than stagings may overlap; with a staging beside
  it a publish may find half a snapshot, which TLC shows when `StagedAlone` is
  dropped.

`SimulatorStoreProofs` proves, for any processes and any requests, from
`StoreInv`, that the lock is exclusive and that the store implements
SimulatedGitHub (`StoreRefinesProvider`). Exclusion alone is not enough: the
refinement needs that the copy of the process about to save is the effect of its
request on the file as it is now (`CopyIsCurrent`), which holds because nobody
else can have saved since; a request is then carried out by the rename, and a
process that stops on either side of it has made it or not.

`SimulatedBenchmarkProofs` proves four of the properties of the run
`simulated_benchmark`, its type invariant among them, and the refinement, for any
number of jobs and workers, any limits, any courses and faults, from the
assumptions of the three modules. `BenchmarkInv` says of every number that
somebody keeps (a record, a worker, the answer of a publish, a row) that a change
made for that job has it, and that numbers are given once (`Names`, `Numbered`),
from which rows are right; of the runner, that whoever has a request out has its
sample in the file and an attempt left (`SampleThere`, `CapKept`); and of the
service, that a delivery is marked only while its attempt has acted, is handled
or was left running, and that a record nobody works on is neither waiting nor
completed without an action (`MarkFits`). A refused webhook then contradicts one
of these unless the attempt is engaged (`RefusalIsJustified`). Every step of the
composition is a step of the store or leaves it alone (`StoreSteps`), so the
refinement carries over.

`TextEditProofs` proves all six properties of TextEdit, for any words, files,
texts and calls, in any number, from `EditAssumption` alone. The invariant is
simple: the last answer is the one its handler gives on the file it met, and the
file is what that answer left (`IInv`, proved in `EditInvariant`; `FileStaysText`
is the part that bounds its size). What the work goes into is what the handlers
compute, for every text:

* Induction. The induction theorems of the library take an operator, which no
  prover here can instantiate, but the existence of a minimal element does not
  (`NatHasMin`), and induction over a set follows from it (`UpTo`,
  `SeqInduction`). A recursive function is unfolded by exhibiting a function
  that satisfies its equations (`FoldExists`, `SplitFoldExists`).
  `splitLogicalLines` is therefore a recursive function, not an operator.
* Lines. Splitting and joining are inverse (`SplitIsLines`, `SplitOfLines`), and
  behind a complete line the lines begin anew (`SplitConcat`): so the lines
  around a range that is replaced are found again (`RangeReplacedOf`), and so
  are those of a block whose lines get other texts but keep their endings
  (`Relined`).
* Words. Decoding, normalising, removing numbers and indenting change no word
  (`DecodeOf`, `NormalizeOf`, `StripNumbersOf`, `AdjustOf`). Every reading of a
  call hence says what the call says (`Fits`, `VariantsOf`), and any plan made
  from one replaces a stretch of the file that says so too (`Plan`, `PlanOf`).
* Once. `countOccurrences` is unfolded the same way (`JumpsExist`): a text it
  counts at most once stands only at its first occurrence and where it overlaps
  that (`CountedOnce`), so no edit but one found in spite of its indentation had
  a second place to go to. It is the overlap that `MatchedExactlyOnce` is refuted
  by.
* Quoting. A text as read_file numbers it loses the numbers, one in a fence the
  fence, and neither loses an escaped line break (`UnnumberedQuotes`,
  `UnfencedIs`); what is not quoted so is left alone (`UnfencedStays`,
  `UnnumberedStays`). Texts that are quoted alike lose their quoting in the same
  readings (`QuotingReadings`), so a replacement is written with its quoting only
  where the expected text was found with it (`KeepsQuoting`).
* Agreement. The plan that is made does not depend on the order, because all
  that can be made have the same content (`AgreedOf`, `ReversedAlike`).

Only model-checked: the liveness properties. `MatchedExactlyOnce` is refuted.

## Where code and documents disagree

Three disagreements are shown by runs (`findings` in PROJECT.json):

* `continuation_refused`: the delivery is released for another try, but the
  attempt it leaves behind keeps the slot, so that the try is refused until the
  recent window is over.
* `restaging_fails`: a snapshot whose restaging failed is taken for staged.
* `edit_twice`: `edit_repo_file` promises to replace text "that occurs exactly
  once", but does not count occurrences that overlap.

More were met while reading and have no run. The README of the repository
(line 262) explains `maxAttemptsPerSha` as a cap per pipeline, while
`claimRepairSlot` (`state.ts`, line 428) counts the attempts of all pipelines of
the commit; the models follow the code. And `session-monitor.ts` (lines 226 to
230) stops a session after a number of failed edits of the turn, also if some
succeeded between them, with the message "failed repeatedly without a
successful edit". publish_fix promises to "Publish verified sandbox changes",
but an edit that overlaps with it can come between its verification and the
collection of the changes (`sandbox.ts`, line 126), and is then published
unverified; of two overlapping edits of one file, the one that had read the file
earlier and writes last undoes the other (`sandbox.ts`, lines 187 to 205).
`PublishedWasVerified` and `EditsAreKept` name both as their exceptions. A
redelivery that the benchmark runner makes between two writes of the service is
refused and ends the benchmark (`simulated-benchmark.mjs`, line 373);
`RefusedOnlyIfActed` leaves it aside.

## Not modelled

Parsing and signature checks of webhooks, HTTP plumbing, telemetry, logging,
redaction and model configuration: they hold no state that control flow reads.
The same goes for the development scripts (session inspection, fixture
generation). Of the state file, the write itself (temporary file and rename) is
atomic in RepairState; SimulatorStore models the write of the simulator's file,
which processes share, call by call.

* RepairService: `repair_retries` has no tool call in flight
  (`MaxToolCalls = 0`, a tool acts at once). Tool calls in flight beside several
  pipelines are covered by the theorems `RepairsAreExclusive` and
  `SlotIsImplemented`, and on one pipeline by `repair_faults`.
* Providers: of the clients, publishing, finding, merging and rerunning are
  modelled as AutoMerge and RepairService need them; reading logs, pagination
  and HTTP retries are not.
* Simulated provider: requests that only read (work tree, failure context,
  archive) and the lists of comments, reruns and merges, which no request reads.
  `push_branch` writes nothing to the file by itself. What a verification
  command does is an outcome, success or failure.
* Benchmark runner: dry runs, a server that is already running
  (`--server-url`), the writing of reports, and fixture preparation beyond
  whether it succeeded. stopBenchmarkServer waits for the npm process, or for
  five seconds; the service under it may stop before the runner exits or go on
  after it.
* Workspace: a setNetworkPolicy that throws has had no effect, verification
  commands write files but neither delete nor create any, the commands of one
  verification count as one, and archives that exceed their limits are stagings
  that fail.
* SessionMonitor: token usage, the tool sequence and the timestamps are left
  out, and the stream of a continued session is taken to start with its own turn.
* AutoMerge: lastTerminalAction is left out, as no merge reads it and session
  observations write it too; whether something is merged is read off the last
  publish result. A provider's list of open changes is current, as GitHub's search is
  only in the end, and a branch that is created but never gets its commit is
  left out.

## Plan

1. Abstract specifications of AutoMerge (a change is merged once, with its pin)
   and of Workspace (a tree that is staged, verified and published), and proofs
   that the modules implement them.
2. Providers: the requests of GitHub and GitLab for branches, commits and changes
   one by one, as far as a partial publish can be seen by the next.
3. Pure algorithms: git status entries, globs, path correction, backoff,
   normalisation of a loaded state file.
