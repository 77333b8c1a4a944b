---------------------------- MODULE SimulatorStore ----------------------------
(***************************************************************************)
(* updateSimulatorState, which the provider and the benchmark runner each  *)
(* have a copy of: the lock directory is made, the state file read, a copy *)
(* changed and put in place of the file, the lock directory removed.  A    *)
(* step is one call to the file system, as another process can observe it. *)
(*                                                                         *)
(* The whole update is synchronous, its waiting included: a Node process   *)
(* does nothing else in between.  Readers take no lock.                    *)
(***************************************************************************)
EXTENDS SimulatorState

CONSTANTS
  Processes,    \* Node processes that share the file
  NoRequest,
  StoreFaults   \* "disk_fails": a call to the file system may throw

ASSUME StoreAssumption ==
  /\ NoRequest \notin Request
  /\ StoreFaults \subseteq {"disk_fails"}

VARIABLES
  locked,    \* the lock directory exists
  db,        \* the state file
  pc,        \* where each process is in its update
  request,   \* what it wants done
  copy,      \* the state it has read and changed
  number,    \* the number its publish was given
  done       \* its update was carried out

storeVars == <<locked, db, pc, request, copy, number, done>>

-----------------------------------------------------------------------------

\* waiting    trying mkdir        holding   has the lock
\* saving     has changed a copy  leaving   is about to remove the lock
\* answered   the caller has not yet gone on
\* stopped    the process is gone
Stages ==
  {"idle", "waiting", "holding", "saving", "leaving", "answered", "stopped"}

StoreTypeOK ==
  /\ locked \in BOOLEAN
  /\ db \in Db
  /\ pc \in [Processes -> Stages]
  /\ request \in [Processes -> Request \cup {NoRequest}]
  /\ copy \in [Processes -> Db]
  /\ number \in [Processes -> Nat]
  /\ done \in [Processes -> BOOLEAN]

StoreInit ==
  /\ locked = FALSE
  /\ db = EmptyDb
  /\ pc = [p \in Processes |-> "idle"]
  /\ request = [p \in Processes |-> NoRequest]
  /\ copy = [p \in Processes |-> EmptyDb]
  /\ number = [p \in Processes |-> 0]
  /\ done = [p \in Processes |-> FALSE]

Holds(p) == pc[p] \in {"holding", "saving", "leaving"}

-----------------------------------------------------------------------------

\* A process that is not in an update, or has just had the answer of one.
Begin(p, r) ==
  /\ pc[p] \in {"idle", "answered"}
  /\ pc' = [pc EXCEPT ![p] = "waiting"]
  /\ request' = [request EXCEPT ![p] = r]
  /\ number' = [number EXCEPT ![p] = 0]
  /\ done' = [done EXCEPT ![p] = FALSE]
  /\ UNCHANGED <<locked, db, copy>>

\* Mutant: a lock directory that is there already is no obstacle.
TakeAnyLock(p) ==
  /\ pc[p] = "waiting"
  /\ locked' = TRUE
  /\ pc' = [pc EXCEPT ![p] = "holding"]
  /\ UNCHANGED <<db, request, copy, number, done>>

\* mkdir of the lock directory succeeds.
TakeLock(p) ==
  /\ pc[p] = "waiting"
  /\ ~locked
  /\ locked' = TRUE
  /\ pc' = [pc EXCEPT ![p] = "holding"]
  /\ UNCHANGED <<db, request, copy, number, done>>

\* Mutant: a lock that is held for 30 seconds is taken to be stale.
BreakLock(p) ==
  /\ pc[p] = "waiting"
  /\ locked
  /\ pc' = [pc EXCEPT ![p] = "holding"]
  /\ UNCHANGED <<locked, db, request, copy, number, done>>

\* Mutant: the deadline is never reached.
WaitForever(p) ==
  /\ pc[p] = "waiting"
  /\ FALSE
  /\ UNCHANGED storeVars

\* mkdir has said EEXIST for 30 seconds, or fails for another reason, and the
\* update ends without a lock.  The lock stays, whoever made it.
MkdirThrows(p) ==
  /\ pc[p] = "waiting"
  /\ locked \/ "disk_fails" \in StoreFaults
  /\ pc' = [pc EXCEPT ![p] = "answered"]
  /\ UNCHANGED <<locked, db, request, copy, number, done>>

\* The file is read and the copy changed in memory.
MutateCopy(p) ==
  /\ pc[p] = "holding"
  /\ Accepts(db, request[p])
  /\ copy' = [copy EXCEPT ![p] = Effect(db, request[p])]
  /\ number' = [number EXCEPT ![p] = db.next]
  /\ pc' = [pc EXCEPT ![p] = "saving"]
  /\ UNCHANGED <<locked, db, request, done>>

\* A temporary file is renamed over the state file.
Save(p) ==
  /\ pc[p] = "saving"
  /\ db' = copy[p]
  /\ copy' = [copy EXCEPT ![p] = EmptyDb]
  /\ done' = [done EXCEPT ![p] = TRUE]
  /\ pc' = [pc EXCEPT ![p] = "leaving"]
  /\ UNCHANGED <<locked, request, number>>

\* The mutator, the read or the write throws; the lock is removed all the same.
UpdateThrows(p) ==
  /\ \/ pc[p] = "holding" /\ ~Accepts(db, request[p])
     \/ pc[p] \in {"holding", "saving"} /\ "disk_fails" \in StoreFaults
  /\ copy' = [copy EXCEPT ![p] = EmptyDb]
  /\ pc' = [pc EXCEPT ![p] = "leaving"]
  /\ UNCHANGED <<locked, db, request, number, done>>

\* rmSync in the finally block.
ReleaseLock(p) ==
  /\ pc[p] = "leaving"
  /\ locked' = FALSE
  /\ pc' = [pc EXCEPT ![p] = "answered"]
  /\ UNCHANGED <<db, request, copy, number, done>>

\* The caller goes on with the answer.
Return(p) ==
  /\ pc[p] = "answered"
  /\ pc' = [pc EXCEPT ![p] = "idle"]
  /\ request' = [request EXCEPT ![p] = NoRequest]
  /\ number' = [number EXCEPT ![p] = 0]
  /\ done' = [done EXCEPT ![p] = FALSE]
  /\ UNCHANGED <<locked, db, copy>>

\* The process is gone.  Its lock directory, if it has one, is not removed.
StopProcess(p) ==
  /\ pc[p] # "stopped"
  /\ pc' = [pc EXCEPT ![p] = "stopped"]
  /\ request' = [request EXCEPT ![p] = NoRequest]
  /\ copy' = [copy EXCEPT ![p] = EmptyDb]
  /\ number' = [number EXCEPT ![p] = 0]
  /\ done' = [done EXCEPT ![p] = FALSE]
  /\ UNCHANGED <<locked, db>>

\* What the file system does for a process that is in an update.
UpdateStep(p) ==
  \/ TakeLock(p) \/ MkdirThrows(p)
  \/ MutateCopy(p) \/ Save(p) \/ UpdateThrows(p) \/ ReleaseLock(p)

\* Callers that ask for anything at any time; a caller that is known composes
\* Begin, Return and StopProcess with its own steps.
StoreNext ==
  \E p \in Processes :
    \/ UpdateStep(p) \/ Return(p) \/ StopProcess(p)
    \/ \E r \in Request : Begin(p, r)

StoreSpec == StoreInit /\ [][StoreNext]_storeVars

-----------------------------------------------------------------------------
\* The store implements SimulatedGitHub: a request is carried out when its copy
\* is put in place of the file.

Phase(p) ==
  CASE pc[p] \in {"idle", "stopped"}                 -> pc[p]
    [] pc[p] \in {"waiting", "holding", "saving"}    -> "asked"
    [] pc[p] \in {"leaving", "answered"} /\ done[p]  -> "performed"
    [] OTHER                                         -> "refused"

Provider ==
  INSTANCE SimulatedGitHub WITH
    asked <- request, phase <- [p \in Processes |-> Phase(p)]

\* No update is lost or half done, although the runner and the server read,
\* change and replace one file and may be stopped at any point
\* (withSimulatorStateLock, saveSimulatorStateUnlocked).
ImplementsSimulatedGitHub == Provider!Spec

=============================================================================
