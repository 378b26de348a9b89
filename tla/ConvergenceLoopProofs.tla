------------------------- MODULE ConvergenceLoopProofs -------------------------
(***************************************************************************)
(* Proofs about the abstract convergence loop of run_dynamic_fix, for      *)
(* every bound MaxIter and every set of trees.                             *)
(***************************************************************************)
EXTENDS ConvergenceLoop, TLAPS

\* The initial state satisfies the inductive invariant: the first build has
\* not run and the tree is the one the fixer found.
LEMMA InitIInv == Init => IInv
BY MaxIterAssumption, TreeAssumption DEF Init, IInv, TypeOK, Terminal

\* Every step keeps it: the tree is written only in status "correct", which
\* round 1 reaches only by a failed build, and Advance leaves round 1.
LEMMA NextIInv == IInv /\ [Next]_vars => IInv'
<1> SUFFICES ASSUME IInv, [Next]_vars PROVE IInv'
    OBVIOUS
<1> USE MaxIterAssumption DEF IInv, TypeOK, Terminal
<1>1. CASE BuildSucceeds
    BY <1>1 DEF BuildSucceeds
<1>2. CASE BuildFails
    BY <1>2 DEF BuildFails
<1>3. CASE Correct
    BY <1>3 DEF Correct
<1>4. CASE Stall
    BY <1>4 DEF Stall
<1>5. CASE Advance
    BY <1>5 DEF Advance
<1>6. CASE Exhaust
    BY <1>6 DEF Exhaust
<1>7. CASE Done
    BY <1>7 DEF Done, vars
<1>8. CASE UNCHANGED vars
    BY <1>8 DEF vars
<1>9. QED
    BY <1>1, <1>2, <1>3, <1>4, <1>5, <1>6, <1>7, <1>8 DEF Next

\* Spec section 8: if the first build of run_dynamic_fix succeeds, the loop
\* has made no change to the project; and the loop's state stays well typed.
THEOREM FirstRoundSuccessUntouchedThm == Spec => []FirstRoundSuccessUntouched
<1>1. IInv => FirstRoundSuccessUntouched
    BY DEF IInv, FirstRoundSuccessUntouched
<1>2. QED
    BY <1>1, InitIInv, NextIInv, PTL DEF Spec

\* The loop's variables keep their types: in particular round never leaves
\* 1..MaxIter, so at most MaxIter builds run.
THEOREM TypeCorrect == Spec => []TypeOK
<1>1. IInv => TypeOK
    BY DEF IInv
<1>2. QED
    BY <1>1, InitIInv, NextIInv, PTL DEF Spec

\* The loop's inductive invariant: typing, and a first-round build that is
\* running or has succeeded runs on the untouched initial tree.
THEOREM IInvThm == Spec => []IInv
    BY InitIInv, NextIInv, PTL DEF Spec
=============================================================================
