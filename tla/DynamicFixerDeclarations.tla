----------------------- MODULE DynamicFixerDeclarations -----------------------
(***************************************************************************)
(* Forward declarations.  fix_forward_declaration_errors runs once per     *)
(* round, right after the build, on the functions the build reported       *)
(* "undeclared here".  For each one it declares the function in up to as   *)
(* many files as the message occurs, choosing among the files that call it *)
(* without declaring it and whose last #include is past offset 0.  This    *)
(* module proves that, when every such function is reported at file scope  *)
(* and every file has an #include past its first line, fix 2 leaves no     *)
(* reported function called and declared nowhere.                          *)
(***************************************************************************)
EXTENDS DynamicFixerMacros, FiniteSetTheorems

\* Every function a file names before declaring it is reported with the
\* "undeclared here" message, and every file's last #include is past its
\* first line.
DeclHyp ==
    /\ \A f \in Files : \A s \in SymRefs[f] : Scope[s] = "here"
    /\ \A f \in Files : InclPos0[f] = "later"

\* The output reports no function with the "first use" message.
FirstSpares(out) == UndeclaredFirst(out) \cap Sym = {}

\* Every file's last #include stays past its first line.
AllLater == \A f \in Files : inclPos[f] = "later"

\* The inductive invariant of ForwardDeclared.
DeclInv == IInv /\ FirstSpares(output) /\ AllLater /\ ForwardDeclared

-----------------------------------------------------------------------------
\* Under DeclHyp no failed build reports a function as undeclared at first
\* use.
LEMMA BuildOutputFirst ==
    ASSUME DeclHyp, ProjectTypeOK, NEW out \in FailureOutputs
    PROVE  FirstSpares(out)
<1> SUFFICES ASSUME NEW s \in UndeclaredFirst(out) \cap Sym PROVE FALSE
    BY DEF FirstSpares
<1>1. PICK d \in out : d.kind = "undecl_first" /\ d.subj = s
    BY DEF UndeclaredFirst, Subjects
<1>2. PICK g \in Files : d \in CompileErrors(g) \cup CompileWarnings(g)
    BY <1>1, FailureOutputsOrigin
<1>3. d \notin CompileWarnings(g)
    BY <1>1 DEF CompileWarnings
<1>4. PICK x \in UndeclaredIn(g) :
        d = [kind |-> IF Scope[x] = "here" THEN "undecl_here" ELSE "undecl_first",
             subj |-> x]
    BY <1>2, <1>3 DEF CompileErrors
<1>5. x = s /\ s \in Sym
    BY <1>1, <1>4
<1>6. s \in SymRefs[g]
    BY <1>4, <1>5, NamesAssumption, TextAssumption DEF UndeclaredIn, ProjectTypeOK
<1>7. QED
    BY <1>1, <1>4, <1>5, <1>6 DEF DeclHyp

\* The only step into "fix3" is fix 2's turn; a step taken at "fix3" that
\* stays there is a stutter.
LEMMA IntoFix3 ==
    ASSUME [Next]_vars, pc' = "fix3"
    PROVE  FixForwardDecl \/ UNCHANGED vars
<1>1. CASE FixMissingRule \/ FixMultipleDef \/ FixUndefinedRef
           \/ FixConstants \/ FixMacros
    BY <1>1, PcsValues DEF FixMissingRule, FixMultipleDef, FixUndefinedRef,
                           FixConstants, FixMacros, FixStep
<1>2. CASE CreateBackup \/ BuildSucceeds \/ BuildFails \/ BuildToolFails \/ Decide
    BY <1>2 DEF CreateBackup, BuildSucceeds, BuildFails, BuildToolFails, Decide
<1>3. CASE Done
    BY <1>3 DEF Done
<1>4. QED
    BY <1>1, <1>2, <1>3 DEF Next

\* No step moves an #include to the start of a file: fixes 1 and 4 give a
\* new file "later", and fix 5 turns only a file without #include into one
\* that starts with it.
LEMMA NextAllLater ==
    ASSUME AllLater, IInv, [Next]_vars
    PROVE  AllLater'
<1>0. inclPos \in [Files -> Positions]
    BY DEF IInv, TypeOK, ProjectTypeOK
<1>1. CASE FixMissingRule /\ TriggerMissingRule(output)
    BY <1>1, Zenon DEF FixMissingRule, FixStep, FixMakefileMissingRule, AllLater
<1>2. CASE FixUndefinedRef /\ TriggerUndefinedRef(output)
    <2>1. inclPos' = [inclPos EXCEPT ![StubsFile] = "later"]
        BY <1>2, Zenon DEF FixUndefinedRef, FixStep, CreateComprehensiveStubs
    <2>2. QED
        BY <1>0, <2>1 DEF AllLater
<1>3. CASE FixConstants /\ TriggerConstants(output)
    BY <1>3, Zenon DEF FixConstants, FixStep, CreateConstantsFile, AllLater
<1>4. CASE /\ ~(FixMissingRule /\ TriggerMissingRule(output))
           /\ ~(FixUndefinedRef /\ TriggerUndefinedRef(output))
           /\ ~(FixConstants /\ TriggerConstants(output))
    <2>1. inclPos' = inclPos
        <3>1. CASE FixMissingRule
            BY <1>4, <3>1 DEF FixMissingRule, FixStep, projVars
        <3>2. CASE FixUndefinedRef
            BY <1>4, <3>2 DEF FixUndefinedRef, FixStep, projVars
        <3>3. CASE FixConstants
            BY <1>4, <3>3 DEF FixConstants, FixStep, projVars
        <3>4. CASE FixForwardDecl
            BY <3>4 DEF FixForwardDecl, FixStep, FixForwardDeclarationErrors, projVars
        <3>5. CASE FixMultipleDef
            BY <3>5 DEF FixMultipleDef, FixStep, FixMultipleDefinitions, projVars
        <3>6. CASE FixMacros
            BY <3>6 DEF FixMacros, FixStep, RemoveDuplicateMacros, projVars
        <3>7. CASE CreateBackup \/ BuildSucceeds \/ BuildFails \/ BuildToolFails
                   \/ Decide \/ Done \/ UNCHANGED vars
            BY <3>7 DEF CreateBackup, BuildSucceeds, BuildFails, BuildToolFails,
                        Decide, Done, vars, projVars
        <3>8. QED
            BY <1>4, <3>1, <3>2, <3>3, <3>4, <3>5, <3>6, <3>7 DEF Next
    <2>2. QED
        BY <2>1 DEF AllLater
<1>5. QED
    BY <1>1, <1>2, <1>3, <1>4

\* Every step keeps the output free of "first use" reports of functions.
LEMMA NextFirstSpares ==
    ASSUME DeclHyp, IInv, FirstSpares(output), [Next]_vars
    PROVE  FirstSpares(output')
<1>1. CASE BuildFails
    BY <1>1, BuildOutputFirst DEF BuildFails, IInv, TypeOK
<1>2. CASE BuildToolFails
    BY <1>2 DEF BuildToolFails, FirstSpares, UndeclaredFirst, Subjects
<1>3. CASE ~BuildFails /\ ~BuildToolFails
    <2>1. output' = output
        BY <1>3 DEF Next, CreateBackup, BuildSucceeds, FixMissingRule, FixForwardDecl,
                    FixMultipleDef, FixUndefinedRef, FixConstants, FixMacros, FixStep,
                    Decide, Done, vars, loopVars
    <2>2. QED
        BY <2>1
<1>4. QED
    BY <1>1, <1>2, <1>3

\* Fix 2's turn leaves every reported function that some file calls
\* declared in some file.  A caller that did not declare it and received no
\* declaration in this turn is eligible, so fix 2 picked at least one file
\* to declare it in.
LEMMA Fix2Declares ==
    ASSUME IInv, AllLater, FirstSpares(output), FixForwardDecl
    PROVE  ForwardDeclared'
<1>0. /\ fwd \in [Files -> SUBSET Sym] /\ exists \subseteq Files
      /\ pc' = "fix3" /\ output' = output
    BY PcsValues DEF IInv, TypeOK, ProjectTypeOK, FixForwardDecl, FixStep
<1> DEFINE D == (UndeclaredHere(output) \cup UndeclaredFirst(output)) \cap Sym
<1>1. CASE ~TriggerForwardDecl(output)
    <2>1. D = {}
        BY <1>1 DEF TriggerForwardDecl, FirstSpares
    <2>2. QED
        BY <1>0, <2>1 DEF ForwardDeclared
<1>2. CASE TriggerForwardDecl(output)
    <2> DEFINE Passes(x) == (IF x \in UndeclaredHere(output) THEN 1 ELSE 0)
                            + (IF x \in UndeclaredFirst(output) THEN 1 ELSE 0)
               Eligible(x) == {f \in Files : DeclEligible(f, x)}
               Takes(x) == IF Passes(x) < Cardinality(Eligible(x))
                           THEN Passes(x) ELSE Cardinality(Eligible(x))
    <2>1. PICK pick \in [D -> SUBSET Files] :
              /\ \A x \in D : /\ pick[x] \subseteq Eligible(x)
                              /\ Cardinality(pick[x]) = Takes(x)
              /\ fwd' = [f \in Files |-> fwd[f] \cup {x \in D : f \in pick[x]}]
              /\ UNCHANGED <<exists, manifest, defs, mdefs, hdr, hdrIncl, inclPos>>
        BY <1>2, Zenon DEF FixForwardDecl, FixStep, FixForwardDeclarationErrors
    <2> SUFFICES ASSUME NEW s \in D, NEW f \in exists, HasCallSite(f, s)'
                 PROVE  \E g \in exists' : HasDeclaration(g, s)'
        BY <1>0, <2>1 DEF ForwardDeclared
    <2> DEFINE S == {s} \cup EndsWith[s]
    <2>2. f \in Files /\ fwd[f] \subseteq fwd'[f]
        BY <1>0, <2>1
    <2>3. CASE HasDeclaration(f, s)
        BY <2>1, <2>2, <2>3 DEF HasDeclaration
    <2>4. CASE S \cap (fwd'[f] \ fwd[f]) # {}
        BY <2>1, <2>4 DEF HasDeclaration
    <2>5. CASE ~HasDeclaration(f, s) /\ S \cap (fwd'[f] \ fwd[f]) = {}
        <3>1. HasCallSite(f, s)
            BY <2>1, <2>5 DEF HasCallSite
        <3>2. f \in Eligible(s)
            BY <2>2, <2>5, <3>1 DEF DeclEligible, AllLater
        <3>3. IsFiniteSet(Eligible(s)) /\ Cardinality(Eligible(s)) \in Nat
            BY <1>0, FilesAssumption, FS_Subset, FS_CardinalityType
        <3>4. Cardinality(Eligible(s)) # 0
            BY <3>2, <3>3, FS_EmptySet
        <3>5. Passes(s) >= 1
            BY DEF TriggerForwardDecl
        <3>6. Takes(s) >= 1
            BY <3>3, <3>4, <3>5
        <3>7. pick[s] # {}
            <4>1. Cardinality(pick[s]) >= 1
                BY <2>1, <3>6
            <4>2. QED
                BY <4>1, FS_EmptySet
        <3>8. PICK g \in pick[s] : TRUE
            BY <3>7
        <3>9. g \in exists /\ g \in Files /\ s \in fwd'[g]
            BY <2>1, <3>8 DEF DeclEligible
        <3>10. QED
            BY <2>1, <3>9 DEF HasDeclaration
    <2>6. QED
        BY <2>3, <2>4, <2>5
<1>3. QED
    BY <1>1, <1>2

\* Every step keeps ForwardDeclared.
LEMMA NextForwardDeclared ==
    ASSUME DeclInv, [Next]_vars
    PROVE  ForwardDeclared'
<1>1. CASE pc' # "fix3"
    BY <1>1 DEF ForwardDeclared
<1>2. CASE pc' = "fix3" /\ FixForwardDecl
    BY <1>2, Fix2Declares DEF DeclInv
<1>3. CASE pc' = "fix3" /\ UNCHANGED vars
    BY <1>3 DEF DeclInv, ForwardDeclared, HasCallSite, HasDeclaration,
                vars, loopVars, projVars
<1>4. QED
    BY <1>1, <1>2, <1>3, IntoFix3

\* Spec section 4.2: for each undeclared symbol fix 2 inserts a forward
\* declaration in a file that calls it.  Under DeclHyp, once fix 2's turn
\* of a round has passed, every function the build reported undeclared that
\* some file calls is declared, by fix_forward_declaration_errors's own
\* test, in some file.
THEOREM ForwardDeclaredThm ==
    ASSUME DeclHyp
    PROVE  Spec => []ForwardDeclared
<1>1. Init => DeclInv
    <2> SUFFICES ASSUME Init PROVE DeclInv
        OBVIOUS
    <2>1. FirstSpares(output)
        BY DEF Init, FirstSpares, UndeclaredFirst, Subjects
    <2>2. AllLater
        BY DEF Init, ProjectInit, AllLater, DeclHyp
    <2>3. ForwardDeclared
        BY DEF Init, ForwardDeclared
    <2>4. QED
        BY <2>1, <2>2, <2>3, InitIInv DEF DeclInv
<1>2. DeclInv /\ [Next]_vars => DeclInv'
    BY NextIInv, NextFirstSpares, NextAllLater, NextForwardDeclared DEF DeclInv
<1>3. QED
    BY <1>1, <1>2, PTL DEF Spec, DeclInv
=============================================================================
