--------------------------- MODULE ConvergenceLoop ---------------------------
(***************************************************************************)
(* What the fixer's main loop (run_dynamic_fix) promises, stated without   *)
(* any of its diagnostics: a bounded diagnose-correct-rebuild cycle.       *)
(*                                                                         *)
(*   status  "build"     round `round` is about to run the build tool      *)
(*           "correct"   the build failed; corrections are being applied   *)
(*           "succeeded" | "stuck" | "exhausted"   terminal                *)
(*   round   the 1-based iteration index                                   *)
(*   tree    the project on disk (an element of Trees)                     *)
(*                                                                         *)
(* The tree may change only after a failed build and before the next one, *)
(* and the loop runs at most MaxIter builds.                               *)
(***************************************************************************)
EXTENDS Naturals

CONSTANTS MaxIter, Trees, Tree0

ASSUME MaxIterAssumption == MaxIter \in Nat \ {0}
ASSUME TreeAssumption == Tree0 \in Trees

VARIABLES status, round, tree

vars == <<status, round, tree>>

Terminal == {"succeeded", "stuck", "exhausted"}

Init ==
    /\ status = "build"
    /\ round = 1
    /\ tree = Tree0

\* The build of this round passes: stop with success, tree untouched.
BuildSucceeds ==
    /\ status = "build"
    /\ status' = "succeeded"
    /\ UNCHANGED <<round, tree>>

\* The build fails (or the build tool cannot be run).
BuildFails ==
    /\ status = "build"
    /\ status' = "correct"
    /\ UNCHANGED <<round, tree>>

\* Fault model: corrections start before the build result is known.
CorrectEarly ==
    /\ status \in {"build", "correct"}
    /\ tree' \in Trees
    /\ UNCHANGED <<status, round>>

\* One corrective action rewrites the tree.
Correct ==
    /\ status = "correct"
    /\ tree' \in Trees
    /\ UNCHANGED <<status, round>>

\* No corrective action applied in this round.
Stall ==
    /\ status = "correct"
    /\ status' = "stuck"
    /\ UNCHANGED <<round, tree>>

\* Fault model: the round bound tested with <= (range(1, 9)).
AdvancePastBound ==
    /\ status = "correct"
    /\ round <= MaxIter
    /\ status' = "build"
    /\ round' = round + 1
    /\ UNCHANGED tree

\* Another round follows.
Advance ==
    /\ status = "correct"
    /\ round < MaxIter
    /\ status' = "build"
    /\ round' = round + 1
    /\ UNCHANGED tree

\* The last round failed: the loop falls out and reports failure.
Exhaust ==
    /\ status = "correct"
    /\ round = MaxIter
    /\ status' = "exhausted"
    /\ UNCHANGED <<round, tree>>

\* The program has returned; it does nothing more.
Done ==
    /\ status \in Terminal
    /\ UNCHANGED vars

Next ==
    \/ BuildSucceeds \/ BuildFails \/ Correct \/ Stall \/ Advance \/ Exhaust
    \/ Done

Spec == Init /\ [][Next]_vars

TypeOK ==
    /\ status \in {"build", "correct"} \cup Terminal
    /\ round \in 1..MaxIter
    /\ tree \in Trees

(***************************************************************************)
(* Spec section 8: if the first build succeeds the loop makes no change to *)
(* the project at all.                                                     *)
(***************************************************************************)
FirstRoundSuccessUntouched ==
    (status = "succeeded" /\ round = 1) => tree = Tree0

\* The strengthening that makes it inductive: before the first failed build
\* nothing has been written.
IInv ==
    /\ TypeOK
    /\ (round = 1 /\ status \in {"build", "succeeded"}) => tree = Tree0
=============================================================================
