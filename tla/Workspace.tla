------------------------------ MODULE Workspace ------------------------------
(***************************************************************************)
(* The sandbox of one repair session and the tools that work in it:        *)
(* stage_repository_snapshot fills /workspace/repo, edit_repo_file changes *)
(* it, run_repo_checks runs the verification commands with the network     *)
(* that the policy allows, publish_fix does the same and then publishes    *)
(* what git status reports.  One action is what happens at one await on    *)
(* the sandbox.  A model step of Eve requests several actions at once      *)
(* (actions.requested carries a list): where Parallel holds, tool calls    *)
(* overlap.                                                                *)
(***************************************************************************)
EXTENDS Naturals, FiniteSets

CONSTANTS
  MaxCalls,      \* bound on the tool calls of the session
  Files,         \* the files of the snapshot
  AllowedFiles,  \* those that policy.allowedFileGlobs match
  Allowlist,     \* policy.sandboxNetworkAllow is not empty
  Fallback,      \* HOOTLINE_ALLOW_UNSUPPORTED_SANDBOX_ALLOWLIST_FALLBACK
  Parallel,      \* tool calls may overlap
  Faults

\* stage_fails     a request of the staging fails, at any point
\* policy_fails    setNetworkPolicy throws, without effect
\* commands_write  verification commands change files of the repository
\* other_sessions  sessions of other attempts write repoStagedAt
\* crash           the process stops
FaultKinds ==
  {"stage_fails", "policy_fails", "commands_write", "other_sessions", "crash"}

ASSUME WorkspaceAssumption ==
  /\ MaxCalls \in Nat /\ Files # {}
  /\ AllowedFiles \subseteq Files
  /\ Allowlist \in BOOLEAN /\ Fallback \in BOOLEAN /\ Parallel \in BOOLEAN
  /\ Faults \subseteq FaultKinds

Calls == 1 .. MaxCalls

VARIABLES
  tree,       \* /workspace/repo
  git,        \* its repository: none, initialised, or with a baseline commit
  base,       \* the tree of that commit
  marker,     \* .hootline/staged-repository.json names this attempt
  stagedAt,   \* the attempt record has repoStagedAt
  network,    \* the network policy in force
  tool,       \* tool[c]: what call c is of
  at,         \* at[c]: the await where it is
  file,       \* file[c]: the file that an edit is of
  text,       \* text[c]: what the edit has read
  todo,       \* todo[c]: the files still to be copied or read
  verified,   \* verified[c]: the tree that the commands have passed on
  changed,    \* changed[c]: the paths that git status reported
  collected,  \* collected[c]: what was read of them
  overlap,    \* overlap[c]: the calls that were under way together with c
  leftOpen    \* the calls that ended without closing the network again

\* No action reads overlap or leftOpen: they record what has happened.
sandbox == <<tree, git, base, marker, network>>
edits == <<file, text>>
publishing == <<verified, changed, collected>>
history == <<overlap, leftOpen>>
vars == <<sandbox, stagedAt, tool, at, edits, todo, publishing, history>>

-----------------------------------------------------------------------------
\* What a file holds: the snapshot's text with the edits of some calls.
Content == [present : BOOLEAN, edits : SUBSET Calls]

Absent == [present |-> FALSE, edits |-> {}]

Original == [present |-> TRUE, edits |-> {}]

Edited(content, c) == [present |-> TRUE, edits |-> content.edits \cup {c}]

Tree == [Files -> Content]

With(t, f, content) == [t EXCEPT ![f] = content]

EmptyTree == [f \in Files |-> Absent]

Snapshot == [f \in Files |-> Original]

Tools == {"stage", "edit", "checks", "publish"}

\* The awaits of a staging, of verification commands under their network
\* policy, and of publishing.
Staging == {"remove", "copy", "init", "commit", "mark", "record"}
Verifying == {"run", "passed", "not_passed"}
Publishing == {"status", "collect", "publish"}

InFlight ==
  Staging \cup {"guard", "read", "write", "apply"} \cup Verifying \cup Publishing

Ended == {"done", "failed", "published"}

Init ==
  /\ tree = EmptyTree
  /\ git = "none"
  /\ base = EmptyTree
  /\ marker = FALSE
  /\ stagedAt = FALSE
  /\ network = "deny-all"
  /\ tool = [c \in Calls |-> "stage"]
  /\ at = [c \in Calls |-> "idle"]
  /\ file = [c \in Calls |-> CHOOSE f \in Files : TRUE]
  /\ text = [c \in Calls |-> Absent]
  /\ todo = [c \in Calls |-> {}]
  /\ verified = [c \in Calls |-> EmptyTree]
  /\ changed = [c \in Calls |-> {}]
  /\ collected = [c \in Calls |-> EmptyTree]
  /\ overlap = [c \in Calls |-> {}]
  /\ leftOpen = {}

\* The types; and a call that copies or collects files has one left.
TypeOK ==
  /\ tree \in Tree
  /\ git \in {"none", "init", "baseline"}
  /\ base \in Tree
  /\ marker \in BOOLEAN /\ stagedAt \in BOOLEAN
  /\ network \in {"deny-all", "allowlist", "allow-all"}
  /\ tool \in [Calls -> Tools]
  /\ at \in [Calls -> {"idle"} \cup InFlight \cup Ended]
  /\ file \in [Calls -> Files]
  /\ text \in [Calls -> Content]
  /\ todo \in [Calls -> SUBSET Files]
  /\ verified \in [Calls -> Tree]
  /\ changed \in [Calls -> SUBSET Files]
  /\ collected \in [Calls -> Tree]
  /\ overlap \in [Calls -> SUBSET Calls]
  /\ leftOpen \in SUBSET Calls
  /\ \A c \in Calls : at[c] \in {"copy", "collect"} => todo[c] # {}

-----------------------------------------------------------------------------
At(c, point) == at[c] = point

Goto(c, point) == at' = [at EXCEPT ![c] = point]

Fails(c) == Goto(c, "failed")

UnderWay == {c \in Calls : at[c] \in InFlight}

\* Call c begins beside those under way.
OverlapWith(c) ==
  [d \in Calls |-> IF d = c THEN UnderWay
                   ELSE IF d \in UnderWay THEN overlap[d] \cup {c}
                   ELSE overlap[d]]

\* Eve calls a tool.  Staging asks nothing of the record and downloads the
\* archive; the other tools need repoStagedAt (assertSnapshotStaged).  An edit
\* of a path that the policy does not allow is refused.
Begin(c) ==
  /\ At(c, "idle")
  /\ \A d \in Calls : d < c => at[d] # "idle"
  /\ Parallel \/ \A d \in Calls : at[d] \notin InFlight
  /\ \E t \in Tools :
       /\ tool' = [tool EXCEPT ![c] = t]
       /\ file' \in IF t = "edit" THEN {[file EXCEPT ![c] = f] : f \in AllowedFiles}
                                  ELSE {file}
       /\ Goto(c, IF t = "stage" THEN "remove"
                  ELSE IF stagedAt THEN "guard" ELSE "failed")
  /\ overlap' = OverlapWith(c)
  /\ UNCHANGED <<sandbox, stagedAt, text, todo, publishing, leftOpen>>

\* Mutant: the record alone is asked.
TrustRecord(c) ==
  /\ At(c, "guard")
  /\ Goto(c, IF tool[c] = "edit" THEN "read" ELSE "apply")
  /\ UNCHANGED <<sandbox, stagedAt, tool, edits, todo, publishing, history>>

\* assertSandboxSnapshotReady: the marker must match, and repo must be inside a
\* git work tree.
AssertSnapshotReady(c) ==
  /\ At(c, "guard")
  /\ Goto(c, IF ~marker \/ git = "none" THEN "failed"
             ELSE IF tool[c] = "edit" THEN "read" ELSE "apply")
  /\ UNCHANGED <<sandbox, stagedAt, tool, edits, todo, publishing, history>>

-----------------------------------------------------------------------------
\* stage_repository_snapshot, extractTarGzToSandbox

Without(gone) == [f \in Files |-> IF f \in gone THEN Absent ELSE tree[f]]

RemoveTree(c) ==
  /\ At(c, "remove")
  /\ tree' = EmptyTree /\ git' = "none"
  /\ todo' = [todo EXCEPT ![c] = Files]
  /\ Goto(c, "copy")
  /\ UNCHANGED <<base, marker, network, stagedAt, tool, edits, publishing,
                 history>>

\* A removal that fails may have removed some of it.
RemovalFails(c) ==
  /\ "stage_fails" \in Faults
  /\ At(c, "remove")
  /\ \E gone \in SUBSET Files : tree' = Without(gone)
  /\ git' \in {git, "none"}
  /\ Fails(c)
  /\ UNCHANGED <<base, marker, network, stagedAt, tool, edits, todo,
                 publishing, history>>

CopyFile(c) ==
  /\ At(c, "copy")
  /\ \E f \in todo[c] :
       /\ tree' = With(tree, f, Original)
       /\ todo' = [todo EXCEPT ![c] = @ \ {f}]
       /\ Goto(c, IF todo[c] = {f} THEN "init" ELSE "copy")
  /\ UNCHANGED <<git, base, marker, network, stagedAt, tool, edits,
                 publishing, history>>

\* The command of initializeGitBaseline first makes the repository and then
\* commits what is there.
InitRepository(c) ==
  /\ At(c, "init")
  /\ git' = IF git = "none" THEN "init" ELSE git
  /\ Goto(c, "commit")
  /\ UNCHANGED <<tree, base, marker, network, stagedAt, tool, edits, todo,
                 publishing, history>>

CommitBaseline(c) ==
  /\ At(c, "commit")
  /\ git # "none"
  /\ git' = "baseline" /\ base' = tree
  /\ Goto(c, "mark")
  /\ UNCHANGED <<tree, marker, network, stagedAt, tool, edits, todo,
                 publishing, history>>

WriteSnapshotMarker(c) ==
  /\ At(c, "mark")
  /\ marker' = TRUE
  /\ Goto(c, "record")
  /\ UNCHANGED <<tree, git, base, network, stagedAt, tool, edits, todo,
                 publishing, history>>

RecordStaged(c) ==
  /\ At(c, "record")
  /\ stagedAt' = TRUE
  /\ Goto(c, "done")
  /\ UNCHANGED <<sandbox, tool, edits, todo, publishing, history>>

\* A staging that fails leaves the sandbox as far as it got.
StagingFails(c) ==
  /\ \/ "stage_fails" \in Faults
     \/ At(c, "commit") /\ git = "none"
  /\ at[c] \in {"copy", "init", "commit", "mark", "record"}
  /\ Fails(c)
  /\ UNCHANGED <<sandbox, stagedAt, tool, edits, todo, publishing, history>>

-----------------------------------------------------------------------------
\* edit_repo_file, replace_repo_lines

\* An edit whose text does not match changes nothing.
ReadFile(c) ==
  /\ At(c, "read")
  /\ \/ /\ tree[file[c]].present
        /\ text' = [text EXCEPT ![c] = tree[file[c]]]
        /\ Goto(c, "write")
     \/ Fails(c) /\ UNCHANGED text
  /\ UNCHANGED <<sandbox, stagedAt, tool, file, todo, publishing, history>>

\* Mutant: the edit is made in the text of the snapshot.
WriteFromSnapshot(c) ==
  /\ At(c, "write")
  /\ tree' = With(tree, file[c], Edited(Original, c))
  /\ Goto(c, "done")
  /\ UNCHANGED <<git, base, marker, network, stagedAt, tool, edits, todo,
                 publishing, history>>

\* The whole file is written, with the edit made in the text that was read.
WriteFile(c) ==
  /\ At(c, "write")
  /\ tree' = With(tree, file[c], Edited(text[c], c))
  /\ Goto(c, "done")
  /\ UNCHANGED <<git, base, marker, network, stagedAt, tool, edits, todo,
                 publishing, history>>

-----------------------------------------------------------------------------
\* runVerificationCommandsWithPolicy

ApplyNetworkPolicy(c) ==
  /\ At(c, "apply")
  /\ network' = IF Allowlist THEN "allowlist" ELSE "deny-all"
  /\ Goto(c, "run")
  /\ UNCHANGED <<tree, git, base, marker, stagedAt, tool, edits, todo,
                 publishing, history>>

FallBackToAllowAll(c) ==
  /\ "policy_fails" \in Faults
  /\ Allowlist /\ Fallback
  /\ At(c, "apply")
  /\ network' = "allow-all"
  /\ Goto(c, "run")
  /\ UNCHANGED <<tree, git, base, marker, stagedAt, tool, edits, todo,
                 publishing, history>>

\* Neither the policy nor the fallback, if there is one, can be applied: no
\* command is run, and nothing published.
SkipVerification(c) ==
  /\ "policy_fails" \in Faults
  /\ At(c, "apply")
  /\ Goto(c, "done")
  /\ UNCHANGED <<sandbox, stagedAt, tool, edits, todo, publishing, history>>

\* The commands run; what they change they leave changed.
WrittenBy(c, written) ==
  [f \in Files |-> IF f \in written /\ tree[f].present
                     THEN Edited(tree[f], c) ELSE tree[f]]

RunCommands(c) ==
  /\ At(c, "run")
  /\ \E written \in IF "commands_write" \in Faults THEN SUBSET Files ELSE {{}} :
       tree' = WrittenBy(c, written)
  /\ \/ Goto(c, "passed") /\ verified' = [verified EXCEPT ![c] = tree']
     \/ Goto(c, "not_passed") /\ UNCHANGED verified
  /\ UNCHANGED <<git, base, marker, network, stagedAt, tool, edits, todo,
                 changed, collected, history>>

\* Mutant: what the runner throws is passed on, the policy not restored.
RunnerThrowsThrough(c) ==
  /\ At(c, "run")
  /\ Fails(c)
  /\ UNCHANGED <<sandbox, stagedAt, tool, edits, todo, publishing, history>>

\* The runner throws: no verdict, and the policy is restored all the same.
RunnerThrows(c) ==
  /\ At(c, "run")
  /\ Goto(c, "not_passed")
  /\ UNCHANGED <<sandbox, stagedAt, tool, edits, todo, publishing, history>>

\* Mutant: publish_fix does not ask what the verification says.
PublishRegardless(c, ok) == Goto(c, IF tool[c] = "publish" THEN "status" ELSE "done")

\* What follows a verification: publish_fix goes on if it is ok.
AfterVerification(c, ok) ==
  Goto(c, IF ok /\ tool[c] = "publish" THEN "status" ELSE "done")

RestoreDenyAll(c) ==
  /\ at[c] \in {"passed", "not_passed"}
  /\ network' = "deny-all"
  /\ AfterVerification(c, At(c, "passed"))
  /\ UNCHANGED <<tree, git, base, marker, stagedAt, tool, edits, todo,
                 publishing, history>>

\* A verification whose network stayed open is not ok.
RestoreFails(c) ==
  /\ "policy_fails" \in Faults
  /\ at[c] \in {"passed", "not_passed"}
  /\ AfterVerification(c, FALSE)
  /\ leftOpen' = leftOpen \cup {c}
  /\ UNCHANGED <<sandbox, stagedAt, tool, edits, todo, publishing, overlap>>

-----------------------------------------------------------------------------
\* publish_fix, collectSandboxChanges

\* git status of the tree: against the baseline commit, or everything if there
\* is none.
StatusEntries ==
  {f \in Files : IF git = "baseline" THEN tree[f] # base[f] ELSE tree[f].present}

Present(paths) == {f \in paths : tree[f].present}

\* Mutant: that all paths may be deletions is forgotten.
ReportToRead(c, entries) ==
  IF entries \subseteq AllowedFiles
    THEN /\ changed' = [changed EXCEPT ![c] = entries]
         /\ todo' = [todo EXCEPT ![c] = Present(entries)]
         /\ Goto(c, IF entries = {} THEN "done" ELSE "collect")
    ELSE Fails(c) /\ UNCHANGED <<changed, todo>>

\* Mutant: paths outside the policy are left out, the others published.
ReportAllowedOnly(c, entries) ==
  LET allowed == entries \cap AllowedFiles IN
    /\ changed' = [changed EXCEPT ![c] = allowed]
    /\ todo' = [todo EXCEPT ![c] = Present(allowed)]
    /\ Goto(c, IF allowed = {} THEN "done"
               ELSE IF Present(allowed) = {} THEN "publish" ELSE "collect")

\* One path outside the policy refuses them all.
Report(c, entries) ==
  IF entries \subseteq AllowedFiles
    THEN /\ changed' = [changed EXCEPT ![c] = entries]
         /\ todo' = [todo EXCEPT ![c] = Present(entries)]
         /\ Goto(c, IF entries = {} THEN "done"
                    ELSE IF Present(entries) = {} THEN "publish" ELSE "collect")
    ELSE Fails(c) /\ UNCHANGED <<changed, todo>>

CollectStatus(c) ==
  /\ At(c, "status")
  /\ IF git = "none" THEN Fails(c) /\ UNCHANGED <<changed, todo>>
                     ELSE Report(c, StatusEntries)
  /\ collected' = [collected EXCEPT ![c] = EmptyTree]
  /\ UNCHANGED <<sandbox, stagedAt, tool, edits, verified, history>>

Collects(c, f) ==
  /\ collected' = [collected EXCEPT ![c] = With(@, f, tree[f])]
  /\ todo' = [todo EXCEPT ![c] = @ \ {f}]
  /\ Goto(c, IF todo[c] = {f} THEN "publish" ELSE "collect")

\* A reported file that is gone by now refuses the publish.
CollectFile(c) ==
  /\ At(c, "collect")
  /\ \E f \in todo[c] :
       IF tree[f].present THEN Collects(c, f)
                          ELSE Fails(c) /\ UNCHANGED <<collected, todo>>
  /\ UNCHANGED <<sandbox, stagedAt, tool, edits, verified, changed, history>>

PublishFix(c) ==
  /\ At(c, "publish")
  /\ Goto(c, "published") \/ Fails(c)
  /\ UNCHANGED <<sandbox, stagedAt, tool, edits, todo, publishing, history>>

-----------------------------------------------------------------------------
\* Around the session.

\* recordAttempt resets the record for another attempt, a session of another
\* attempt stages its own sandbox: repoStagedAt is theirs as well.
OtherSessions ==
  /\ "other_sessions" \in Faults
  /\ stagedAt' \in BOOLEAN
  /\ UNCHANGED <<sandbox, tool, at, edits, todo, publishing, history>>

\* The calls under way end where they are, the sandbox stays as it is.
Crash ==
  /\ "crash" \in Faults
  /\ \E c \in Calls : at[c] \in InFlight
  /\ at' = [c \in Calls |-> IF at[c] \in InFlight THEN "failed" ELSE at[c]]
  /\ leftOpen' = leftOpen \cup {c \in Calls : at[c] \in Verifying}
  /\ UNCHANGED <<sandbox, stagedAt, tool, edits, todo, publishing, overlap>>

StageStep(c) ==
  \/ RemoveTree(c) \/ RemovalFails(c) \/ CopyFile(c) \/ InitRepository(c)
  \/ CommitBaseline(c) \/ WriteSnapshotMarker(c) \/ RecordStaged(c)
  \/ StagingFails(c)

VerifyStep(c) ==
  \/ ApplyNetworkPolicy(c) \/ FallBackToAllowAll(c) \/ SkipVerification(c)
  \/ RunCommands(c) \/ RunnerThrows(c) \/ RestoreDenyAll(c) \/ RestoreFails(c)

PublishStep(c) == CollectStatus(c) \/ CollectFile(c) \/ PublishFix(c)

Next ==
  \/ \E c \in Calls :
       \/ Begin(c) \/ AssertSnapshotReady(c)
       \/ StageStep(c) \/ ReadFile(c) \/ WriteFile(c)
       \/ VerifyStep(c) \/ PublishStep(c)
  \/ OtherSessions \/ Crash

Spec == Init /\ [][Next]_vars

-----------------------------------------------------------------------------

\* While no verification is under way the network is closed, unless one ended
\* without closing it and said so (runVerificationCommandsWithPolicy): however
\* many verifications overlap, the last one closes behind all of them.
ClosedWhenIdle ==
  network # "deny-all" => leftOpen # {} \/ \E c \in Calls : at[c] \in Verifying

Published(c) == at[c] = "published"

\* What came to a publish while it was under way: a staging beside it, or a write
\* of a call beside it that what was read of the file shows.
WrittenBeside(c, f) ==
  \E d \in overlap[c] :
    tool[d] = "stage" \/ d \in collected[c][f].edits \ verified[c][f].edits

\* The changes are collected some awaits after the commands have passed.  What is
\* published of a file is all the same what they passed on, unless a call that
\* overlapped with the publish has written that file since; and a verification
\* that left the network open publishes nothing (publish_fix: "Publish verified
\* sandbox changes").
PublishedWasVerified ==
  \A c \in Calls : Published(c) =>
    /\ c \notin leftOpen
    /\ \A f \in changed[c] :
         collected[c][f] = verified[c][f] \/ WrittenBeside(c, f)

\* A staging failed that was not the first: how far the earlier one had come is
\* not asked.
FailedRestaging ==
  \E c, d \in Calls : d < c /\ tool[c] = "stage" /\ tool[d] = "stage"
                        /\ at[c] = "failed" /\ at[d] # "idle"

StagedAlone == \A d \in Calls : tool[d] = "stage" => overlap[d] = {}

\* As long as no restaging fails or overlaps with another call, a publish makes
\* the snapshot into the tree that was verified, and touches no file that
\* nothing has edited, whatever edits and commands run beside it
\* (assertSandboxSnapshotReady, initializeGitBaseline, collectSandboxChanges).
PublishIsExact ==
  \A c \in Calls : Published(c) /\ ~FailedRestaging /\ StagedAlone =>
    \A f \in Files :
      IF f \in changed[c] THEN collected[c][f].edits # {}
                          ELSE verified[c][f] = Original

RestagedOver(c) ==
  \E d \in Calls : /\ tool[d] = "stage" /\ at[d] # "idle"
                   /\ d > c \/ d \in overlap[c]

\* Edit d, which overlapped with edit c of the same file, has written the file as
\* it was without c.
WrittenOver(c, d) ==
  /\ d \in overlap[c] /\ tool[d] = "edit" /\ at[d] = "done" /\ file[d] = file[c]
  /\ c \notin text[d].edits

\* An edit that was reported as done is in its file until the next staging.  Only
\* an edit of the same file that overlapped with it, and had read the file
\* before it was written, can take it away: no later edit, no command and no
\* publish does (edit_repo_file, replace_repo_lines).
EditsAreKept ==
  \A c \in Calls :
    tool[c] = "edit" /\ at[c] = "done" /\ ~RestagedOver(c) =>
      c \in tree[file[c]].edits \/ \E d \in Calls : WrittenOver(c, d)

\* assertSandboxSnapshotReady "proves the sandbox actually holds this attempt's
\* staged work tree": a call that has just passed it finds the whole snapshot,
\* under a baseline commit.
ReadySnapshotIsWhole ==
  \A c \in Calls : at[c] \in {"read", "apply"} =>
    git = "baseline" /\ \A f \in Files : tree[f].present

=============================================================================
