--------------------------- MODULE DynamicFixerProofs ---------------------------
(***************************************************************************)
(* Proofs about run_dynamic_fix and its synthesizers, for every project   *)
(* (every value of the constants of Project) and every bound MaxIter.     *)
(***************************************************************************)
EXTENDS DynamicFixer, TLAPS

\* Each kind of diagnostic quotes its own kind of name.
LEMMA DiagSubj ==
    ASSUME NEW d \in Diag
    PROVE  /\ d.kind = "norule" => d.subj \in Names
           /\ d.kind \in {"multidef", "undefref"} => d.subj \in Sym
           /\ d.kind = "redefined" => d.subj \in Ident
           /\ d.subj \in Names \cup Sym \cup Ident
BY DEF Diag

\* The subjects a well-formed build output quotes have the types the fixes
\* expect: file names, functions, macros.
LEMMA SubjectsType ==
    ASSUME NEW out \in SUBSET Diag
    PROVE  /\ MissingTargets(out) \subseteq Names
           /\ UndefinedRefs(out) \subseteq Sym
           /\ MultipleDefs(out) \subseteq Sym
           /\ Redefined(out) \subseteq Ident
<1>1. MissingTargets(out) \subseteq Names
    BY DiagSubj DEF MissingTargets, Subjects
<1>2. UndefinedRefs(out) \subseteq Sym
    BY DiagSubj DEF UndefinedRefs, Subjects
<1>3. MultipleDefs(out) \subseteq Sym
    BY DiagSubj DEF MultipleDefs, Subjects
<1>4. Redefined(out) \subseteq Ident
    BY DiagSubj DEF Redefined, Subjects
<1>5. QED
    BY <1>1, <1>2, <1>3, <1>4

\* The warnings of a unit are well formed.
LEMMA CompileWarningsType ==
    ASSUME ProjectTypeOK, NEW f \in Files
    PROVE  CompileWarnings(f) \subseteq Diag
BY DEF CompileWarnings, Diag, ProjectTypeOK

\* What one unit prints is a set of well-formed diagnostics.
LEMMA UnitOutputType ==
    ASSUME ProjectTypeOK, NEW f \in Files
    PROVE  UnitOutput(f) \subseteq Diag
<1>1. CompileErrors(f) \subseteq Diag
    BY TextAssumption DEF CompileErrors, UndeclaredIn, Diag, ProjectTypeOK
<1>2. [kind |-> "norule", subj |-> f.name] \in Diag
    BY DEF Diag, Names
<1>3. QED
    BY <1>1, <1>2, CompileWarningsType DEF UnitOutput

\* The link errors quote functions.
LEMMA LinkErrorsType == LinkErrors \subseteq Diag
BY DEF LinkErrors, Diag

\* Every output a failing build can print is well formed.
LEMMA FailureOutputsType ==
    ASSUME ProjectTypeOK
    PROVE  FailureOutputs \subseteq SUBSET Diag
<1>1. Listed \subseteq Files
    BY DEF Listed
<1>2. CASE Failing # {}
    <2>1. \A V \in SUBSET Listed : UNION {UnitOutput(f) : f \in V} \subseteq Diag
        BY <1>1, UnitOutputType
    <2>2. Failing \subseteq Listed
        BY DEF Failing
    <2>3. SUFFICES ASSUME NEW U \in (SUBSET Failing) \ {{}},
                          NEW P \in SUBSET (Listed \ Failing)
                   PROVE  UNION {UnitOutput(f) : f \in U \cup P} \subseteq Diag
        BY <1>2 DEF FailureOutputs
    <2>4. U \cup P \in SUBSET Listed
        BY <2>2
    <2>5. QED
        BY <2>1, <2>4
<1>3. CASE Failing = {}
    <2>1. UNION {CompileWarnings(f) : f \in Listed} \subseteq Diag
        BY <1>1, CompileWarningsType
    <2>2. QED
        BY <1>3, <2>1, LinkErrorsType DEF FailureOutputs
<1>4. QED
    BY <1>2, <1>3

\* add_source_to_makefile keeps every path's count a natural number.
LEMMA AddSourceType ==
    ASSUME NEW man \in [Files -> Nat], NEW ns
    PROVE  AddSourceToMakefile(man, ns) \in [Files -> Nat]
BY NamesAssumption DEF AddSourceToMakefile

\* Fix 1 creates only files of the tree, from templates of functions.
LEMMA FixMakefileMissingRuleType ==
    ASSUME ProjectTypeOK, NEW out \in SUBSET Diag, FixMakefileMissingRule(out)
    PROVE  ProjectTypeOK'
<1> DEFINE Created == {SrcFile(n) : n \in {m \in MissingTargets(out) : ~SourceFound(m)}}
<1>1. Created \subseteq Files
    BY SubjectsType, FilesAssumption
<1>2. \A n \in Names : Template(n) \subseteq Sym
    BY NamesAssumption DEF Template
<1>3. \A f \in Files : f.name \in Names
    BY DEF Names
<1>4. QED
    BY <1>1, <1>2, <1>3, AddSourceType
    DEF FixMakefileMissingRule, ProjectTypeOK, Positions

\* Fix 2 declares only functions.
LEMMA FixForwardDeclarationErrorsType ==
    ASSUME ProjectTypeOK, NEW out \in SUBSET Diag,
           FixForwardDeclarationErrors(out)
    PROVE  ProjectTypeOK'
BY DEF FixForwardDeclarationErrors, ProjectTypeOK

\* Fix 3 only removes definitions.
LEMMA FixMultipleDefinitionsType ==
    ASSUME ProjectTypeOK, NEW out \in SUBSET Diag, FixMultipleDefinitions(out)
    PROVE  ProjectTypeOK'
BY DEF FixMultipleDefinitions, ProjectTypeOK

\* Fix 4 writes stubs for the functions the linker quoted.
LEMMA CreateComprehensiveStubsType ==
    ASSUME ProjectTypeOK, NEW out \in SUBSET Diag,
           CreateComprehensiveStubs(out)
    PROVE  ProjectTypeOK'
BY SubjectsType, AddSourceType, FilesAssumption
DEF CreateComprehensiveStubs, ProjectTypeOK, Positions

\* Fix 5 writes only project constants to the header.
LEMMA CreateConstantsFileType ==
    ASSUME ProjectTypeOK, NEW out \in SUBSET Diag, CreateConstantsFile(out)
    PROVE  ProjectTypeOK'
BY NamesAssumption DEF CreateConstantsFile, MissingConstants, ProjectTypeOK, Positions

\* Fix 6 only removes macros.
LEMMA RemoveDuplicateMacrosType ==
    ASSUME ProjectTypeOK, NEW out \in SUBSET Diag, RemoveDuplicateMacros(out)
    PROVE  ProjectTypeOK'
BY DEF RemoveDuplicateMacros, ProjectTypeOK

\* The names of the fix steps are distinct.
LEMMA FixPcsDistinct ==
    /\ \A i, j \in 1..7 : FixPcs[i] = FixPcs[j] => i = j
    /\ \A i \in 1..6 : FixPcs[i] \notin {"start", "build", "decide"} \cup Terminal
BY DEF FixPcs, Terminal

\* run_dynamic_fix starts in a well-typed state.
LEMMA InitIInv == Init => IInv
<1> SUFFICES ASSUME Init PROVE IInv
    OBVIOUS
<1>1. ProjectTypeOK
    BY InitialProjectAssumption DEF Init, ProjectInit, ProjectTypeOK
<1>2. pc \in Pcs /\ iteration \in 1..MaxIter /\ fixes \in 0..6
    BY MaxIterAssumption DEF Init, Pcs
<1>3. output \subseteq Diag /\ backupDone \in BOOLEAN /\ backup \in {<<>>} \cup ProjectSpace
      /\ exports \in [Phases -> SUBSET Files]
      /\ changed \in BOOLEAN
    BY Zenon DEF Init
<1>4. \A i \in 1..6 : pc = FixPcs[i] => fixes < i
    BY DEF Init
<1>5. QED
    BY <1>1, <1>2, <1>3, <1>4 DEF IInv, TypeOK

\* The control points of run_dynamic_fix, spelled out.
LEMMA PcsValues ==
    /\ Pcs = {"start", "build", "fix1", "fix2", "fix3", "fix4", "fix5", "fix6",
              "decide", "succeeded", "stuck", "exhausted"}
    /\ FixPcs[1] = "fix1" /\ FixPcs[2] = "fix2" /\ FixPcs[3] = "fix3"
    /\ FixPcs[4] = "fix4" /\ FixPcs[5] = "fix5" /\ FixPcs[6] = "fix6"
    /\ FixPcs[7] = "decide"
BY DEF Pcs, FixPcs, Terminal

\* IInv' from its parts.
LEMMA IInvPrimed ==
    ASSUME ProjectTypeOK', pc' \in Pcs, iteration' \in 1..MaxIter,
           output' \subseteq Diag, fixes' \in 0..6,
           backupDone' \in BOOLEAN, backup' \in {<<>>} \cup ProjectSpace,
           exports' \in [Phases -> SUBSET Files], changed' \in BOOLEAN,
           \A i \in 1..6 : pc' = FixPcs[i] => fixes' < i
    PROVE  IInv'
BY Zenon DEF IInv, TypeOK

\* A well-typed project is one of the trees create_backup can copy.
LEMMA ProjectInSpace == ProjectTypeOK => projVars \in ProjectSpace
BY DEF ProjectTypeOK, projVars, ProjectSpace

\* create_exports_structure copies only source files into the two phases.
LEMMA ExportType ==
    ASSUME ProjectTypeOK, NEW ex \in [Phases -> SUBSET Files]
    PROVE  CreateExportsStructure(ex) \in [Phases -> SUBSET Files]
BY DEF CreateExportsStructure, ExportOf, EntryCopies, ProjectTypeOK

\* Every step of run_dynamic_fix keeps IInv.
LEMMA NextIInv == IInv /\ [Next]_vars => IInv'
<1> SUFFICES ASSUME IInv, [Next]_vars PROVE IInv'
    OBVIOUS
<1>0. /\ ProjectTypeOK /\ pc \in Pcs /\ iteration \in 1..MaxIter
      /\ output \subseteq Diag /\ fixes \in 0..6
      /\ backupDone \in BOOLEAN /\ backup \in {<<>>} \cup ProjectSpace
      /\ exports \in [Phases -> SUBSET Files] /\ changed \in BOOLEAN
      /\ \A i \in 1..6 : pc = FixPcs[i] => fixes < i
    BY Zenon DEF IInv, TypeOK
<1>1. CASE CreateBackup
    <2>1. backup' \in {<<>>} \cup ProjectSpace
        BY <1>0, <1>1, ProjectInSpace, Zenon DEF CreateBackup
    <2>2. /\ ProjectTypeOK' /\ iteration' \in 1..MaxIter /\ output' \subseteq Diag
          /\ fixes' \in 0..6 /\ exports' \in [Phases -> SUBSET Files] /\ changed' \in BOOLEAN
          /\ backupDone' \in BOOLEAN /\ pc' = "build"
        BY <1>0, <1>1, Zenon DEF CreateBackup, ProjectTypeOK, projVars
    <2>3. QED
        BY <2>1, <2>2, PcsValues, FixPcsDistinct, IInvPrimed
<1>2. CASE BuildSucceeds
    <2>1. exports' \in [Phases -> SUBSET Files]
        BY <1>0, <1>2, ExportType DEF BuildSucceeds
    <2>2. /\ ProjectTypeOK' /\ iteration' \in 1..MaxIter /\ output' \subseteq Diag
          /\ fixes' \in 0..6 /\ changed' \in BOOLEAN
          /\ backupDone' \in BOOLEAN /\ backup' \in {<<>>} \cup ProjectSpace /\ pc' = "succeeded"
        BY <1>0, <1>2, Zenon DEF BuildSucceeds, ProjectTypeOK, projVars
    <2>3. QED
        BY <2>1, <2>2, PcsValues, FixPcsDistinct, IInvPrimed
<1>3. CASE BuildFails
    <2>1. output' \subseteq Diag
        BY <1>0, <1>3, FailureOutputsType DEF BuildFails
    <2>2. /\ ProjectTypeOK' /\ iteration' \in 1..MaxIter
          /\ fixes' = 0 /\ exports' \in [Phases -> SUBSET Files] /\ changed' \in BOOLEAN
          /\ backupDone' \in BOOLEAN /\ backup' \in {<<>>} \cup ProjectSpace /\ pc' = "fix1"
        BY <1>0, <1>3, Zenon DEF BuildFails, ProjectTypeOK, projVars
    <2>3. QED
        BY <2>1, <2>2, PcsValues, FixPcsDistinct, IInvPrimed
<1>4. CASE BuildToolFails
    <2>1. /\ ProjectTypeOK' /\ iteration' \in 1..MaxIter /\ output' \subseteq Diag
          /\ fixes' = 0 /\ exports' \in [Phases -> SUBSET Files] /\ changed' \in BOOLEAN
          /\ backupDone' \in BOOLEAN /\ backup' \in {<<>>} \cup ProjectSpace /\ pc' = "fix1"
        BY <1>0, <1>4, Zenon DEF BuildToolFails, ProjectTypeOK, projVars
    <2>2. QED
        BY <2>1, PcsValues, FixPcsDistinct, IInvPrimed
<1>5. CASE FixMissingRule
    <2>1. ProjectTypeOK'
        <3>1. CASE TriggerMissingRule(output) /\ FixMakefileMissingRule(output)
            BY <1>0, <3>1, FixMakefileMissingRuleType
        <3>2. CASE UNCHANGED projVars
            BY <1>0, <3>2 DEF ProjectTypeOK, projVars
        <3>3. QED
            BY <1>5, <3>1, <3>2 DEF FixMissingRule, FixStep
    <2>2. /\ pc = FixPcs[1] /\ pc' = FixPcs[2] /\ fixes' \in {fixes, fixes + 1}
          /\ changed' \in BOOLEAN
        <3>1. pc = FixPcs[1] /\ pc' = FixPcs[2]
            BY <1>5 DEF FixMissingRule, FixStep
        <3>2. fixes' \in {fixes, fixes + 1}
            BY <1>5 DEF FixMissingRule, FixStep
        <3>3. changed' \in BOOLEAN
            BY <1>0, <1>5, Zenon DEF FixMissingRule, FixStep
        <3>4. QED
            BY <3>1, <3>2, <3>3
    <2>3. /\ iteration' \in 1..MaxIter /\ output' \subseteq Diag
          /\ exports' \in [Phases -> SUBSET Files] /\ backupDone' \in BOOLEAN /\ backup' \in {<<>>} \cup ProjectSpace
        BY <1>0, <1>5, Zenon DEF FixMissingRule, FixStep
    <2>4. fixes' \in 0..6 /\ \A j \in 1..6 : pc' = FixPcs[j] => fixes' < j
        BY <1>0, <2>2, PcsValues, FixPcsDistinct
    <2>5. QED
        BY <2>1, <2>2, <2>3, <2>4, PcsValues, IInvPrimed
<1>6. CASE FixForwardDecl
    <2>1. ProjectTypeOK'
        <3>1. CASE TriggerForwardDecl(output) /\ FixForwardDeclarationErrors(output)
            BY <1>0, <3>1, FixForwardDeclarationErrorsType
        <3>2. CASE UNCHANGED projVars
            BY <1>0, <3>2 DEF ProjectTypeOK, projVars
        <3>3. QED
            BY <1>6, <3>1, <3>2 DEF FixForwardDecl, FixStep
    <2>2. /\ pc = FixPcs[2] /\ pc' = FixPcs[3] /\ fixes' \in {fixes, fixes + 1}
          /\ changed' \in BOOLEAN
        <3>1. pc = FixPcs[2] /\ pc' = FixPcs[3]
            BY <1>6 DEF FixForwardDecl, FixStep
        <3>2. fixes' \in {fixes, fixes + 1}
            BY <1>6 DEF FixForwardDecl, FixStep
        <3>3. changed' \in BOOLEAN
            BY <1>0, <1>6, Zenon DEF FixForwardDecl, FixStep
        <3>4. QED
            BY <3>1, <3>2, <3>3
    <2>3. /\ iteration' \in 1..MaxIter /\ output' \subseteq Diag
          /\ exports' \in [Phases -> SUBSET Files] /\ backupDone' \in BOOLEAN /\ backup' \in {<<>>} \cup ProjectSpace
        BY <1>0, <1>6, Zenon DEF FixForwardDecl, FixStep
    <2>4. fixes' \in 0..6 /\ \A j \in 1..6 : pc' = FixPcs[j] => fixes' < j
        BY <1>0, <2>2, PcsValues, FixPcsDistinct
    <2>5. QED
        BY <2>1, <2>2, <2>3, <2>4, PcsValues, IInvPrimed
<1>7. CASE FixMultipleDef
    <2>1. ProjectTypeOK'
        <3>1. CASE TriggerMultipleDef(output) /\ FixMultipleDefinitions(output)
            BY <1>0, <3>1, FixMultipleDefinitionsType
        <3>2. CASE UNCHANGED projVars
            BY <1>0, <3>2 DEF ProjectTypeOK, projVars
        <3>3. QED
            BY <1>7, <3>1, <3>2 DEF FixMultipleDef, FixStep
    <2>2. /\ pc = FixPcs[3] /\ pc' = FixPcs[4] /\ fixes' \in {fixes, fixes + 1}
          /\ changed' \in BOOLEAN
        <3>1. pc = FixPcs[3] /\ pc' = FixPcs[4]
            BY <1>7 DEF FixMultipleDef, FixStep
        <3>2. fixes' \in {fixes, fixes + 1}
            BY <1>7 DEF FixMultipleDef, FixStep
        <3>3. changed' \in BOOLEAN
            BY <1>0, <1>7, Zenon DEF FixMultipleDef, FixStep
        <3>4. QED
            BY <3>1, <3>2, <3>3
    <2>3. /\ iteration' \in 1..MaxIter /\ output' \subseteq Diag
          /\ exports' \in [Phases -> SUBSET Files] /\ backupDone' \in BOOLEAN /\ backup' \in {<<>>} \cup ProjectSpace
        BY <1>0, <1>7, Zenon DEF FixMultipleDef, FixStep
    <2>4. fixes' \in 0..6 /\ \A j \in 1..6 : pc' = FixPcs[j] => fixes' < j
        BY <1>0, <2>2, PcsValues, FixPcsDistinct
    <2>5. QED
        BY <2>1, <2>2, <2>3, <2>4, PcsValues, IInvPrimed
<1>8. CASE FixUndefinedRef
    <2>1. ProjectTypeOK'
        <3>1. CASE TriggerUndefinedRef(output) /\ CreateComprehensiveStubs(output)
            BY <1>0, <3>1, CreateComprehensiveStubsType
        <3>2. CASE UNCHANGED projVars
            BY <1>0, <3>2 DEF ProjectTypeOK, projVars
        <3>3. QED
            BY <1>8, <3>1, <3>2 DEF FixUndefinedRef, FixStep
    <2>2. /\ pc = FixPcs[4] /\ pc' = FixPcs[5] /\ fixes' \in {fixes, fixes + 1}
          /\ changed' \in BOOLEAN
        <3>1. pc = FixPcs[4] /\ pc' = FixPcs[5]
            BY <1>8 DEF FixUndefinedRef, FixStep
        <3>2. fixes' \in {fixes, fixes + 1}
            BY <1>8 DEF FixUndefinedRef, FixStep
        <3>3. changed' \in BOOLEAN
            BY <1>0, <1>8, Zenon DEF FixUndefinedRef, FixStep
        <3>4. QED
            BY <3>1, <3>2, <3>3
    <2>3. /\ iteration' \in 1..MaxIter /\ output' \subseteq Diag
          /\ exports' \in [Phases -> SUBSET Files] /\ backupDone' \in BOOLEAN /\ backup' \in {<<>>} \cup ProjectSpace
        BY <1>0, <1>8, Zenon DEF FixUndefinedRef, FixStep
    <2>4. fixes' \in 0..6 /\ \A j \in 1..6 : pc' = FixPcs[j] => fixes' < j
        BY <1>0, <2>2, PcsValues, FixPcsDistinct
    <2>5. QED
        BY <2>1, <2>2, <2>3, <2>4, PcsValues, IInvPrimed
<1>9. CASE FixConstants
    <2>1. ProjectTypeOK'
        <3>1. CASE TriggerConstants(output) /\ CreateConstantsFile(output)
            BY <1>0, <3>1, CreateConstantsFileType
        <3>2. CASE UNCHANGED projVars
            BY <1>0, <3>2 DEF ProjectTypeOK, projVars
        <3>3. QED
            BY <1>9, <3>1, <3>2 DEF FixConstants, FixStep
    <2>2. /\ pc = FixPcs[5] /\ pc' = FixPcs[6] /\ fixes' \in {fixes, fixes + 1}
          /\ changed' \in BOOLEAN
        <3>1. pc = FixPcs[5] /\ pc' = FixPcs[6]
            BY <1>9 DEF FixConstants, FixStep
        <3>2. fixes' \in {fixes, fixes + 1}
            BY <1>9 DEF FixConstants, FixStep
        <3>3. changed' \in BOOLEAN
            BY <1>0, <1>9, Zenon DEF FixConstants, FixStep
        <3>4. QED
            BY <3>1, <3>2, <3>3
    <2>3. /\ iteration' \in 1..MaxIter /\ output' \subseteq Diag
          /\ exports' \in [Phases -> SUBSET Files] /\ backupDone' \in BOOLEAN /\ backup' \in {<<>>} \cup ProjectSpace
        BY <1>0, <1>9, Zenon DEF FixConstants, FixStep
    <2>4. fixes' \in 0..6 /\ \A j \in 1..6 : pc' = FixPcs[j] => fixes' < j
        BY <1>0, <2>2, PcsValues, FixPcsDistinct
    <2>5. QED
        BY <2>1, <2>2, <2>3, <2>4, PcsValues, IInvPrimed
<1>10. CASE FixMacros
    <2>1. ProjectTypeOK'
        <3>1. CASE TriggerMacros(output) /\ RemoveDuplicateMacros(output)
            BY <1>0, <3>1, RemoveDuplicateMacrosType
        <3>2. CASE UNCHANGED projVars
            BY <1>0, <3>2 DEF ProjectTypeOK, projVars
        <3>3. QED
            BY <1>10, <3>1, <3>2 DEF FixMacros, FixStep
    <2>2. /\ pc = FixPcs[6] /\ pc' = FixPcs[7] /\ fixes' \in {fixes, fixes + 1}
          /\ changed' \in BOOLEAN
        <3>1. pc = FixPcs[6] /\ pc' = FixPcs[7]
            BY <1>10 DEF FixMacros, FixStep
        <3>2. fixes' \in {fixes, fixes + 1}
            BY <1>10 DEF FixMacros, FixStep
        <3>3. changed' \in BOOLEAN
            BY <1>0, <1>10, Zenon DEF FixMacros, FixStep
        <3>4. QED
            BY <3>1, <3>2, <3>3
    <2>3. /\ iteration' \in 1..MaxIter /\ output' \subseteq Diag
          /\ exports' \in [Phases -> SUBSET Files] /\ backupDone' \in BOOLEAN /\ backup' \in {<<>>} \cup ProjectSpace
        BY <1>0, <1>10, Zenon DEF FixMacros, FixStep
    <2>4. fixes' \in 0..6 /\ \A j \in 1..6 : pc' = FixPcs[j] => fixes' < j
        BY <1>0, <2>2, PcsValues, FixPcsDistinct
    <2>5. QED
        BY <2>1, <2>2, <2>3, <2>4, PcsValues, IInvPrimed
<1>11. CASE Decide
    <2>1. /\ ProjectTypeOK' /\ output' \subseteq Diag
          /\ fixes' \in 0..6 /\ exports' \in [Phases -> SUBSET Files] /\ changed' \in BOOLEAN
          /\ backupDone' \in BOOLEAN /\ backup' \in {<<>>} \cup ProjectSpace /\ pc' \in {"stuck", "exhausted", "build"}
        BY <1>0, <1>11, Zenon DEF Decide, ProjectTypeOK, projVars
    <2>2. iteration' \in 1..MaxIter
        BY <1>0, <1>11, MaxIterAssumption DEF Decide
    <2>3. QED
        BY <2>1, <2>2, PcsValues, FixPcsDistinct, IInvPrimed
<1>12. CASE Done \/ UNCHANGED vars
    <2>1. UNCHANGED vars
        BY <1>12 DEF Done
    <2>2. QED
        BY <1>0, <2>1, Zenon DEF vars, loopVars, projVars, IInv, TypeOK, ProjectTypeOK
<1>13. QED
    BY <1>1, <1>2, <1>3, <1>4, <1>5, <1>6, <1>7, <1>8, <1>9, <1>10, <1>11, <1>12 DEF Next

\* The state of run_dynamic_fix stays well typed: every build output the
\* fixes read is well formed, fixes_applied stays within 0..6 and the loop
\* index within 1..MaxIter, and every rewrite leaves a well-formed project.
THEOREM TypeCorrect == Spec => []TypeOK
<1>1. IInv => TypeOK
    BY DEF IInv
<1>2. QED
    BY <1>1, InitIInv, NextIInv, PTL DEF Spec

\* The pc-indexed invariant of run_dynamic_fix: whenever the loop stands at
\* the k-th fix attempt (pc = FixPcs[k]), fewer than k fixes have been
\* applied this round, so the "fixes_applied += 1" of each attempt never
\* counts a fix twice and never exceeds six.
THEOREM IInvThm == Spec => []IInv
    BY InitIInv, NextIInv, PTL DEF Spec

-----------------------------------------------------------------------------
(***************************************************************************)
(* Manifest idempotence.  Only add_source_to_makefile writes the Makefile, *)
(* from fix 1 and fix 4, and it inserts a path only when the path is not   *)
(* there yet.  With one source list that its regex hits (InsertCount = 1)  *)
(* the count of every path the fixer touches is therefore one.             *)
(***************************************************************************)

\* How a step may change the Makefile.
LEMMA ManifestStep ==
    ASSUME [Next]_vars
    PROVE  \/ manifest' = manifest
           \/ \E ns : manifest' = AddSourceToMakefile(manifest, ns)
<1>1. CASE CreateBackup
    BY <1>1 DEF CreateBackup, projVars
<1>2. CASE BuildSucceeds
    BY <1>2 DEF BuildSucceeds, projVars
<1>3. CASE BuildFails
    BY <1>3 DEF BuildFails, projVars
<1>4. CASE BuildToolFails
    BY <1>4 DEF BuildToolFails, projVars
<1>5. CASE Decide
    BY <1>5 DEF Decide, projVars
<1>6. CASE FixMissingRule
    BY <1>6, Zenon DEF FixMissingRule, FixStep, FixMakefileMissingRule, projVars
<1>7. CASE FixForwardDecl
    BY <1>7 DEF FixForwardDecl, FixStep, FixForwardDeclarationErrors, projVars
<1>8. CASE FixMultipleDef
    BY <1>8 DEF FixMultipleDef, FixStep, FixMultipleDefinitions, projVars
<1>9. CASE FixUndefinedRef
    BY <1>9, Zenon DEF FixUndefinedRef, FixStep, CreateComprehensiveStubs, projVars
<1>10. CASE FixConstants
    BY <1>10 DEF FixConstants, FixStep, CreateConstantsFile, projVars
<1>11. CASE FixMacros
    BY <1>11 DEF FixMacros, FixStep, RemoveDuplicateMacros, projVars
<1>12. CASE Done \/ UNCHANGED vars
    BY <1>12 DEF Done, vars, projVars
<1>13. QED
    BY <1>1, <1>2, <1>3, <1>4, <1>5, <1>6, <1>7, <1>8, <1>9, <1>10, <1>11, <1>12 DEF Next

\* One insertion keeps every count at its initial value or at one.
LEMMA AddSourceIdempotent ==
    ASSUME InsertCount = 1, NEW man \in [Files -> Nat],
           \A f \in Files : man[f] = Manifest0[f] \/ man[f] = 1,
           NEW ns
    PROVE  \A f \in Files : AddSourceToMakefile(man, ns)[f] = Manifest0[f]
                            \/ AddSourceToMakefile(man, ns)[f] = 1
BY DEF AddSourceToMakefile

\* Spec section 8: inserting a path that is already listed leaves its count
\* at one.  add_source_to_makefile is the only writer of the Makefile, and
\* with one matching source list every path is listed at most once or as
\* the project had it, over every run of fixes 1 and 4.
THEOREM ManifestIdempotentThm ==
    ASSUME InsertCount = 1
    PROVE  Spec => []ManifestIdempotent
<1> DEFINE MI == IInv /\ ManifestIdempotent
<1>1. Init => MI
    BY InitIInv DEF Init, ProjectInit, ManifestIdempotent
<1>2. MI /\ [Next]_vars => MI'
    <2> SUFFICES ASSUME IInv, ManifestIdempotent, [Next]_vars PROVE MI'
        OBVIOUS
    <2>1. IInv'
        BY NextIInv
    <2>2. manifest \in [Files -> Nat]
        BY DEF IInv, TypeOK, ProjectTypeOK
    <2>3. ManifestIdempotent'
        BY <2>2, ManifestStep, AddSourceIdempotent DEF ManifestIdempotent
    <2>4. QED
        BY <2>1, <2>3
<1>3. QED
    BY <1>1, <1>2, PTL DEF Spec

-----------------------------------------------------------------------------
(***************************************************************************)
(* One include of the generated header.  create_constants_file prepends    *)
(* the #include only to a file that does not mention                       *)
(* dsrtos_auto_constants.h yet, and a file written from scratch (fix 1's   *)
(* new sources, fix 4's stubs) has none.                                   *)
(***************************************************************************)

\* How a step may change a file's count of includes of the header.
LEMMA IncludeStep ==
    ASSUME hdrIncl \in [Files -> Nat], [Next]_vars
    PROVE  \A f \in Files : \/ hdrIncl'[f] = 0
                            \/ hdrIncl'[f] = hdrIncl[f]
                            \/ hdrIncl[f] = 0 /\ hdrIncl'[f] = 1
<1>0. hdrIncl \in [Files -> Nat]
    OBVIOUS
<1>1. CASE CreateBackup
    BY <1>1 DEF CreateBackup, projVars
<1>2. CASE BuildSucceeds
    BY <1>2 DEF BuildSucceeds, projVars
<1>3. CASE BuildFails
    BY <1>3 DEF BuildFails, projVars
<1>4. CASE BuildToolFails
    BY <1>4 DEF BuildToolFails, projVars
<1>5. CASE Decide
    BY <1>5 DEF Decide, projVars
<1>6. CASE FixMissingRule
    BY <1>0, <1>6, Zenon DEF FixMissingRule, FixStep, FixMakefileMissingRule, projVars
<1>7. CASE FixForwardDecl
    BY <1>7 DEF FixForwardDecl, FixStep, FixForwardDeclarationErrors, projVars
<1>8. CASE FixMultipleDef
    BY <1>8 DEF FixMultipleDef, FixStep, FixMultipleDefinitions, projVars
<1>9. CASE FixUndefinedRef
    BY <1>0, <1>9, Zenon DEF FixUndefinedRef, FixStep, CreateComprehensiveStubs, projVars
<1>10. CASE FixConstants
    <2>1. CASE CreateConstantsFile(output)
        BY <1>0, <2>1 DEF CreateConstantsFile
    <2>2. CASE UNCHANGED projVars
        BY <2>2 DEF projVars
    <2>3. QED
        BY <1>10, <2>1, <2>2 DEF FixConstants, FixStep
<1>11. CASE FixMacros
    BY <1>11 DEF FixMacros, FixStep, RemoveDuplicateMacros, projVars
<1>12. CASE Done \/ UNCHANGED vars
    BY <1>12 DEF Done, vars, projVars
<1>13. QED
    BY <1>1, <1>2, <1>3, <1>4, <1>5, <1>6, <1>7, <1>8, <1>9, <1>10, <1>11, <1>12 DEF Next

\* Spec section 8: every source file that references a generated constant
\* gains exactly one #include of dsrtos_auto_constants.h, however many
\* rounds fix 5 runs and rewrites the header.
THEOREM IncludeOnceThm == Spec => []IncludeOnce
<1> DEFINE II == IInv /\ IncludeOnce
<1>1. Init => II
    BY InitIInv DEF Init, ProjectInit, IncludeOnce
<1>2. II /\ [Next]_vars => II'
    <2> SUFFICES ASSUME IInv, IncludeOnce, [Next]_vars PROVE II'
        OBVIOUS
    <2>1. IInv'
        BY NextIInv
    <2>2. hdrIncl \in [Files -> Nat]
        BY DEF IInv, TypeOK, ProjectTypeOK
    <2>3. IncludeOnce'
        BY <2>2, IncludeStep DEF IncludeOnce
    <2>4. QED
        BY <2>1, <2>3
<1>3. QED
    BY <1>1, <1>2, PTL DEF Spec
=============================================================================
