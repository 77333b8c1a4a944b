--------------------------- MODULE SimulatedGitHub ---------------------------
(***************************************************************************)
(* What the simulated provider promises: every request is carried out as   *)
(* a whole or not at all, one after another, and a caller is told which.   *)
(* A caller may stop at any time; a request it has not been answered may   *)
(* then have been carried out or not.                                      *)
(***************************************************************************)
EXTENDS SimulatorState

CONSTANTS Processes, NoRequest

VARIABLES
  db,      \* the state all requests act on
  asked,   \* the request each process waits for
  phase    \* how far it is

vars == <<db, asked, phase>>

Init ==
  /\ db = EmptyDb
  /\ asked = [p \in Processes |-> NoRequest]
  /\ phase = [p \in Processes |-> "idle"]

\* The answer of one request may come with the next request of the same caller.
Ask(p) ==
  /\ phase[p] \in {"idle", "performed", "refused"}
  /\ asked'[p] \in Request
  /\ asked' = [asked EXCEPT ![p] = asked'[p]]
  /\ phase' = [phase EXCEPT ![p] = "asked"]
  /\ UNCHANGED db

Perform(p) ==
  /\ phase[p] = "asked"
  /\ Accepts(db, asked[p])
  /\ db' = Effect(db, asked[p])
  /\ phase' = [phase EXCEPT ![p] = "performed"]
  /\ UNCHANGED asked

Refuse(p) ==
  /\ phase[p] = "asked"
  /\ phase' = [phase EXCEPT ![p] = "refused"]
  /\ UNCHANGED <<db, asked>>

Answer(p) ==
  /\ phase[p] \in {"performed", "refused"}
  /\ asked' = [asked EXCEPT ![p] = NoRequest]
  /\ phase' = [phase EXCEPT ![p] = "idle"]
  /\ UNCHANGED db

Stop(p) ==
  /\ asked' = [asked EXCEPT ![p] = NoRequest]
  /\ phase' = [phase EXCEPT ![p] = "stopped"]
  /\ UNCHANGED db

Next ==
  \E p \in Processes :
    \/ Ask(p) \/ Perform(p) \/ Refuse(p) \/ Answer(p) \/ Stop(p)

Spec == Init /\ [][Next]_vars

=============================================================================
