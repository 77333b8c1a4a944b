---------------------------- MODULE SimulatorState ----------------------------
(***************************************************************************)
(* What the simulated GitHub provider keeps in its state file              *)
(* (agent/lib/providers/simulated-github.ts), and what each request does   *)
(* to it.  The benchmark runner (scripts/simulated-benchmark.mjs) puts     *)
(* samples into the same file.                                             *)
(*                                                                         *)
(* A job stands for one sample of the benchmark and the commit that fails  *)
(* in it.  The entries appended to comments, reruns and merges are left    *)
(* out: nothing reads them.                                                *)
(***************************************************************************)
EXTENDS Naturals

CONSTANT Jobs   \* one per sample

-----------------------------------------------------------------------------

\* What the verification commands and the changed files of a published fix
\* amount to: all commands succeed and the files are those expected, all
\* succeed but other files were changed, or one command fails.
Verdicts == {"success", "unexpected_files", "failure"}

Change == [number : Nat, job : Jobs, verdict : Verdicts, merged : BOOLEAN]

Db == [samples : SUBSET Jobs, changes : SUBSET Change, next : Nat]

EmptyDb == [samples |-> {}, changes |-> {}, next |-> 1]

\* The updates callers ask for.  A merge names the change, the others the
\* commit of their event.
Request ==
  [kind : {"sample", "comment", "rerun"}, job : Jobs]
    \cup [kind : {"publish"}, job : Jobs, verdict : Verdicts]
    \cup [kind : {"merge"}, job : Jobs, number : Nat]

-----------------------------------------------------------------------------

ChangesNumbered(s, n) == {c \in s.changes : c.number = n}

\* appendSimulatorSample
WithSample(s, r) == [s EXCEPT !.samples = @ \cup {r.job}]

\* Mutant: the number is not used up.
WithChangeRenumbered(s, r) ==
  [s EXCEPT
     !.changes = @ \cup {[number |-> s.next, job |-> r.job,
                          verdict |-> r.verdict, merged |-> FALSE]}]

\* publishFix: the next number names the change, whatever branch it is for.
WithChange(s, r) ==
  [s EXCEPT
     !.changes = @ \cup {[number |-> s.next, job |-> r.job,
                          verdict |-> r.verdict, merged |-> FALSE]},
     !.next = @ + 1]

\* mergeChange: the record is replaced by a merged one.
WithMerge(s, r) ==
  [s EXCEPT
     !.changes = (s.changes \ ChangesNumbered(s, r.number))
                   \cup {[c EXCEPT !.merged = TRUE] :
                           c \in ChangesNumbered(s, r.number)}]

\* The mutator of mergeChange throws when the change does not exist.
Accepts(s, r) == r.kind = "merge" => ChangesNumbered(s, r.number) # {}

Effect(s, r) ==
  CASE r.kind = "sample"  -> WithSample(s, r)
    [] r.kind = "publish" -> WithChange(s, r)
    [] r.kind = "merge"   -> WithMerge(s, r)
    [] OTHER              -> s

=============================================================================
