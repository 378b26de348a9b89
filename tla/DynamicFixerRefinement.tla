------------------------ MODULE DynamicFixerRefinement ------------------------
(***************************************************************************)
(* run_dynamic_fix implements the abstract convergence loop: under the     *)
(* mapping of DynamicFixer (status from pc, round = iteration, tree = the  *)
(* project variables) every step of the fixer is a step of ConvergenceLoop *)
(* or leaves its variables unchanged.                                      *)
(***************************************************************************)
EXTENDS DynamicFixerProofs

\* The abstract status of each control point of run_dynamic_fix.
LEMMA AbsStatusValues ==
    /\ pc \in {"start", "build"} => AbsStatus = "build"
    /\ pc \in Terminal => AbsStatus = pc
    /\ pc \in {"fix1", "fix2", "fix3", "fix4", "fix5", "fix6", "decide"}
       => AbsStatus = "correct"
BY DEF AbsStatus, Terminal

\* The first state of the fixer is the first state of the loop.
LEMMA InitRefines == Init => Abs!Init
<1> SUFFICES ASSUME Init PROVE Abs!Init
    OBVIOUS
<1>1. AbsStatus = "build"
    BY AbsStatusValues DEF Init
<1>2. iteration = 1 /\ projVars = Project0
    BY DEF Init, ProjectInit, projVars, Project0
<1>3. QED
    BY <1>1, <1>2 DEF Abs!Init

\* Every step of the fixer is a step of the loop or a stutter of it: the
\* build steps map to the loop's build steps, each fix to a correction,
\* the decision to Stall, Exhaust or Advance.
LEMMA NextRefines == IInv /\ IInv' /\ [Next]_vars => [Abs!Next]_(Abs!vars)
<1> SUFFICES ASSUME IInv, IInv', [Next]_vars PROVE [Abs!Next]_(Abs!vars)
    OBVIOUS
<1>1. CASE CreateBackup
    <2>1. AbsStatus = "build" /\ AbsStatus' = "build"
        BY <1>1 DEF CreateBackup, AbsStatus, Terminal
    <2>2. UNCHANGED <<iteration, projVars>>
        BY <1>1 DEF CreateBackup
    <2>3. QED
        BY <2>1, <2>2 DEF Abs!vars
<1>2. CASE BuildSucceeds
    <2>1. AbsStatus = "build" /\ AbsStatus' = "succeeded"
        BY <1>2 DEF BuildSucceeds, AbsStatus, Terminal
    <2>2. UNCHANGED <<iteration, projVars>>
        BY <1>2 DEF BuildSucceeds
    <2>3. QED
        BY <2>1, <2>2 DEF Abs!BuildSucceeds, Abs!Next
<1>3. CASE BuildFails \/ BuildToolFails
    <2>1. AbsStatus = "build" /\ AbsStatus' = "correct"
        BY <1>3 DEF BuildFails, BuildToolFails, AbsStatus, Terminal
    <2>2. UNCHANGED <<iteration, projVars>>
        BY <1>3 DEF BuildFails, BuildToolFails
    <2>3. QED
        BY <2>1, <2>2 DEF Abs!BuildFails, Abs!Next
<1>4. CASE \/ FixMissingRule \/ FixForwardDecl \/ FixMultipleDef
           \/ FixUndefinedRef \/ FixConstants \/ FixMacros
    <2>1. /\ pc \in {"fix1", "fix2", "fix3", "fix4", "fix5", "fix6"}
          /\ pc' \in {"fix2", "fix3", "fix4", "fix5", "fix6", "decide"}
          /\ UNCHANGED iteration
        BY <1>4, PcsValues
        DEF FixMissingRule, FixForwardDecl, FixMultipleDef, FixUndefinedRef,
            FixConstants, FixMacros, FixStep
    <2>2. AbsStatus = "correct" /\ AbsStatus' = "correct"
        BY <2>1 DEF AbsStatus, Terminal
    <2>3. projVars' \in ProjectSpace
        BY DEF IInv, TypeOK, ProjectTypeOK, projVars, ProjectSpace
    <2>4. QED
        BY <2>1, <2>2, <2>3 DEF Abs!Correct, Abs!Next
<1>5. CASE Decide
    <2>1. AbsStatus = "correct"
        BY <1>5 DEF Decide, AbsStatus, Terminal
    <2>2. UNCHANGED projVars
        BY <1>5 DEF Decide
    <2>3. iteration \in 1..MaxIter
        BY DEF IInv, TypeOK
    <2>4. CASE fixes = 0
        <3>1. pc' = "stuck" /\ UNCHANGED iteration
            BY <1>5, <2>4 DEF Decide
        <3>2. AbsStatus' = "stuck"
            BY <3>1 DEF AbsStatus, Terminal
        <3>3. QED
            BY <2>1, <2>2, <3>1, <3>2 DEF Abs!Stall, Abs!Next
    <2>5. CASE fixes # 0 /\ iteration = MaxIter
        <3>1. pc' = "exhausted" /\ UNCHANGED iteration
            BY <1>5, <2>3, <2>5 DEF Decide
        <3>2. AbsStatus' = "exhausted"
            BY <3>1 DEF AbsStatus, Terminal
        <3>3. QED
            BY <2>1, <2>2, <2>5, <3>1, <3>2 DEF Abs!Exhaust, Abs!Next
    <2>6. CASE fixes # 0 /\ iteration # MaxIter
        <3>1. pc' = "build" /\ iteration < MaxIter /\ iteration' = iteration + 1
            BY <1>5, <2>3, <2>6 DEF Decide
        <3>2. AbsStatus' = "build"
            BY <3>1 DEF AbsStatus, Terminal
        <3>3. QED
            BY <2>1, <2>2, <3>1, <3>2 DEF Abs!Advance, Abs!Next
    <2>7. QED
        BY <2>4, <2>5, <2>6
<1>6. CASE Done \/ UNCHANGED vars
    <2>1. UNCHANGED <<pc, iteration, projVars>>
        BY <1>6 DEF Done, vars, loopVars
    <2>2. AbsStatus' = AbsStatus
        BY <2>1 DEF AbsStatus
    <2>3. QED
        BY <2>1, <2>2 DEF Abs!vars
<1>7. QED
    BY <1>1, <1>2, <1>3, <1>4, <1>5, <1>6 DEF Next

\* Spec section 4.4: run_dynamic_fix implements the bounded convergence
\* loop.  The tree changes only between a failed build and the next build,
\* at most MaxIter builds run, and STUCK and EXHAUSTED are entered only
\* from a round that failed; with FirstRoundSuccessUntouchedThm this gives
\* spec section 8's "if round 1's build succeeds, zero source mutations".
THEOREM RefinesLoopThm == Spec => RefinesLoop
<1>1. Spec => []IInv
    BY InitIInv, NextIInv, PTL DEF Spec
<1>2. QED
    BY <1>1, InitRefines, NextRefines, PTL DEF Spec, RefinesLoop, Abs!Spec
=============================================================================
