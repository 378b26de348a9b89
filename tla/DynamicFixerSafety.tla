------------------------- MODULE DynamicFixerSafety -------------------------
(***************************************************************************)
(* Safety properties of run_dynamic_fix for every project: the backup      *)
(* precedes every change; every file the fixer creates is registered in    *)
(* the Makefile; no file other than main.c loses a definition; a          *)
(* successful run exports every phase file.  Where the code needs a       *)
(* condition on the project, the theorem states it as a hypothesis.        *)
(***************************************************************************)
EXTENDS DynamicFixerProofs

-----------------------------------------------------------------------------
(***************************************************************************)
(* The backup.  create_backup is the first step of run_dynamic_fix, and    *)
(* every later step starts and ends away from "start" and leaves the copy  *)
(* alone.                                                                  *)
(***************************************************************************)

\* The steps other than create_backup leave "start" behind for good.
LEMMA AwayFromStart ==
    ASSUME [Next]_vars, ~CreateBackup
    PROVE  /\ pc # "start" => pc' # "start"
           /\ backup' = backup
<1>1. CASE BuildSucceeds \/ BuildFails \/ BuildToolFails \/ Decide
    BY <1>1 DEF BuildSucceeds, BuildFails, BuildToolFails, Decide
<1>2. CASE FixMissingRule \/ FixForwardDecl \/ FixMultipleDef
           \/ FixUndefinedRef \/ FixConstants \/ FixMacros
    <2>1. \E i \in 1..6 : pc' = FixPcs[i + 1] /\ backup' = backup
        BY <1>2 DEF FixMissingRule, FixForwardDecl, FixMultipleDef,
                    FixUndefinedRef, FixConstants, FixMacros, FixStep
    <2>2. QED
        BY <2>1, PcsValues
<1>3. CASE Done \/ UNCHANGED vars
    BY <1>3 DEF Done, vars, loopVars
<1>4. QED
    BY <1>1, <1>2, <1>3 DEF Next

\* Only create_backup runs at "start".
LEMMA StartStep ==
    ASSUME pc = "start", [Next]_vars
    PROVE  CreateBackup \/ UNCHANGED vars
<1>1. ~(BuildSucceeds \/ BuildFails \/ BuildToolFails \/ Decide \/ Done)
    BY DEF BuildSucceeds, BuildFails, BuildToolFails, Decide, Done, Terminal
<1>2. ~(FixMissingRule \/ FixForwardDecl \/ FixMultipleDef
        \/ FixUndefinedRef \/ FixConstants \/ FixMacros)
    BY FixPcsDistinct, PcsValues
       DEF FixMissingRule, FixForwardDecl, FixMultipleDef,
           FixUndefinedRef, FixConstants, FixMacros, FixStep
<1>3. QED
    BY <1>1, <1>2 DEF Next

\* Every step keeps BackupInv.
LEMMA NextBackupInv == BackupInv /\ [Next]_vars => BackupInv'
<1> SUFFICES ASSUME BackupInv, [Next]_vars PROVE BackupInv'
    OBVIOUS
<1>1. CASE pc = "start"
    <2>1. CASE CreateBackup
        BY <1>1, <2>1 DEF BackupInv, CreateBackup
    <2>2. CASE UNCHANGED vars
        BY <1>1, <2>2 DEF BackupInv, vars, loopVars
    <2>3. QED
        BY <1>1, <2>1, <2>2, StartStep
<1>2. CASE pc # "start"
    <2>1. ~CreateBackup
        BY <1>2 DEF CreateBackup
    <2>2. pc' # "start" /\ backup' = backup
        BY <1>2, <2>1, AwayFromStart
    <2>3. QED
        BY <1>2, <2>2 DEF BackupInv
<1>3. QED
    BY <1>1, <1>2

\* Spec section 2: the one-shot snapshot precedes every mutation.  Whenever
\* the tree differs from the one the fixer found, create_backup has copied
\* that original tree.
THEOREM BackupBeforeChangeThm == Spec => []BackupBeforeChange
<1>1. Init => BackupInv
    BY DEF Init, ProjectInit, BackupInv, projVars, Project0
<1>2. BackupInv => BackupBeforeChange
    BY DEF BackupInv, BackupBeforeChange
<1>3. QED
    BY <1>1, <1>2, NextBackupInv, PTL DEF Spec

\* The backup invariant of create_backup: before the backup is taken the
\* tree is untouched and no backup exists; from then on the backup holds
\* exactly the tree the fixer found.
THEOREM BackupInvThm == Spec => []BackupInv
<1>1. Init => BackupInv
    BY DEF Init, ProjectInit, BackupInv, projVars, Project0
<1>2. QED
    BY <1>1, NextBackupInv, PTL DEF Spec
-----------------------------------------------------------------------------
(***************************************************************************)
(* Registration.  add_source_to_makefile never removes a path, and when    *)
(* the insertion regex hits at least one source list and the Makefile does *)
(* not mention a path already, it lists every path it is asked for.  Fix 1 *)
(* and fix 4 create files only under names they then register.             *)
(***************************************************************************)

\* An insertion never lowers a path's count.
LEMMA AddSourceMonotone ==
    ASSUME NEW man \in [Files -> Nat], NEW ns
    PROVE  /\ AddSourceToMakefile(man, ns) \in [Files -> Nat]
           /\ \A f \in Files : AddSourceToMakefile(man, ns)[f] >= man[f]
BY NamesAssumption DEF AddSourceToMakefile

\* An insertion lists src/<n> for each name n it is given.
LEMMA AddSourceRegisters ==
    ASSUME InsertCount >= 1, Mentioned = {},
           NEW man \in [Files -> Nat], NEW ns, NEW n \in ns, SrcFile(n) \in Files
    PROVE  AddSourceToMakefile(man, ns)[SrcFile(n)] >= 1
BY NamesAssumption DEF AddSourceToMakefile

\* A step that leaves the files on disk and the Makefile alone.
LEMMA RegisteredFrame ==
    ASSUME Registered, exists' = exists, manifest' = manifest
    PROVE  Registered'
BY DEF Registered

\* Every step keeps every created file registered.
LEMMA NextRegistered ==
    ASSUME InsertCount >= 1, Mentioned = {},
           IInv, Registered, [Next]_vars
    PROVE  Registered'
<1>0. /\ manifest \in [Files -> Nat] /\ exists \subseteq Files
      /\ output \subseteq Diag
    BY DEF IInv, TypeOK, ProjectTypeOK
<1>1. CASE FixMissingRule /\ TriggerMissingRule(output)
    <2> DEFINE N == MissingTargets(output)
               Created == {SrcFile(n) : n \in {m \in N : ~SourceFound(m)}}
    <2>1. /\ exists' = exists \cup Created
          /\ manifest' = AddSourceToMakefile(manifest, N)
        BY <1>1, Zenon DEF FixMissingRule, FixStep, FixMakefileMissingRule, projVars
    <2>2. N \subseteq Names
        BY <1>0, SubjectsType
    <2>3. SUFFICES ASSUME NEW f \in exists', f \notin Exists0
                   PROVE  manifest'[f] >= 1
        BY DEF Registered
    <2>4. CASE f \in exists
        <3>1. f \in Files /\ manifest[f] >= 1
            BY <1>0, <2>3, <2>4 DEF Registered
        <3>2. /\ AddSourceToMakefile(manifest, N)[f] \in Nat
              /\ AddSourceToMakefile(manifest, N)[f] >= manifest[f]
            BY <1>0, <3>1, AddSourceMonotone
        <3>3. manifest'[f] = AddSourceToMakefile(manifest, N)[f]
            BY <2>1
        <3>4. manifest[f] \in Nat
            BY <1>0, <3>1
        <3>5. QED
            BY <3>1, <3>2, <3>3, <3>4
    <2>5. CASE f \in Created
        <3>1. PICK n \in N : f = SrcFile(n)
            BY <2>5
        <3>2. SrcFile(n) \in Files
            BY <2>2, FilesAssumption
        <3>3. AddSourceToMakefile(manifest, N)[SrcFile(n)] >= 1
            BY <1>0, <3>2, AddSourceRegisters
        <3>4. QED
            BY <2>1, <3>1, <3>3
    <2>6. QED
        BY <2>1, <2>4, <2>5
<1>2. CASE FixUndefinedRef /\ TriggerUndefinedRef(output)
    <2>1. /\ exists' = exists \cup {StubsFile}
          /\ manifest' = AddSourceToMakefile(manifest, {StubsFile.name})
        BY <1>2, Zenon DEF FixUndefinedRef, FixStep, CreateComprehensiveStubs, projVars
    <2>2. StubsFile = SrcFile(StubsFile.name) /\ StubsFile \in Files
        BY FilesAssumption DEF StubsFile, SrcFile
    <2>3. SUFFICES ASSUME NEW f \in exists', f \notin Exists0
                   PROVE  manifest'[f] >= 1
        BY DEF Registered
    <2>4. CASE f \in exists
        <3>1. f \in Files /\ manifest[f] >= 1
            BY <1>0, <2>3, <2>4 DEF Registered
        <3>2. /\ AddSourceToMakefile(manifest, {StubsFile.name})[f] \in Nat
              /\ AddSourceToMakefile(manifest, {StubsFile.name})[f] >= manifest[f]
            BY <1>0, <3>1, AddSourceMonotone
        <3>3. manifest'[f] = AddSourceToMakefile(manifest, {StubsFile.name})[f]
            BY <2>1
        <3>4. manifest[f] \in Nat
            BY <1>0, <3>1
        <3>5. QED
            BY <3>1, <3>2, <3>3, <3>4
    <2>5. CASE f = StubsFile
        <3>1. AddSourceToMakefile(manifest, {StubsFile.name})[SrcFile(StubsFile.name)] >= 1
            BY <1>0, <2>2, AddSourceRegisters
        <3>2. QED
            BY <2>1, <2>2, <2>5, <3>1
    <2>6. QED
        BY <2>1, <2>4, <2>5
<1>3. CASE ~(FixMissingRule /\ TriggerMissingRule(output))
           /\ ~(FixUndefinedRef /\ TriggerUndefinedRef(output))
    <2>1. exists' = exists /\ manifest' = manifest
        <3>1. CASE FixMissingRule
            BY <1>3, <3>1 DEF FixMissingRule, FixStep, projVars
        <3>2. CASE FixUndefinedRef
            BY <1>3, <3>2 DEF FixUndefinedRef, FixStep, projVars
        <3>3. CASE FixForwardDecl
            BY <3>3 DEF FixForwardDecl, FixStep, FixForwardDeclarationErrors, projVars
        <3>4. CASE FixMultipleDef
            BY <3>4 DEF FixMultipleDef, FixStep, FixMultipleDefinitions, projVars
        <3>5. CASE FixConstants
            BY <3>5 DEF FixConstants, FixStep, CreateConstantsFile, projVars
        <3>6. CASE FixMacros
            BY <3>6 DEF FixMacros, FixStep, RemoveDuplicateMacros, projVars
        <3>7. CASE CreateBackup \/ BuildSucceeds \/ BuildFails \/ BuildToolFails
                   \/ Decide \/ Done \/ UNCHANGED vars
            BY <3>7 DEF CreateBackup, BuildSucceeds, BuildFails, BuildToolFails,
                        Decide, Done, vars, projVars
        <3>8. QED
            BY <3>1, <3>2, <3>3, <3>4, <3>5, <3>6, <3>7 DEF Next
    <2>2. QED
        BY <2>1, RegisteredFrame
<1>4. QED
    BY <1>1, <1>2, <1>3

\* Spec section 7: a synthesized source is registered in the manifest.
\* With a Makefile in which the insertion regex finds a source list and
\* which does not mention the fixer's paths elsewhere, every file fix 1 or
\* fix 4 created is listed in the Makefile.
THEOREM RegisteredThm ==
    ASSUME InsertCount >= 1, Mentioned = {}
    PROVE  Spec => []Registered
<1> DEFINE RI == IInv /\ Registered
<1>1. Init => RI
    BY InitIInv DEF Init, ProjectInit, Registered
<1>2. RI /\ [Next]_vars => RI'
    BY NextIInv, NextRegistered
<1>3. QED
    BY <1>1, <1>2, PTL DEF Spec

-----------------------------------------------------------------------------
(***************************************************************************)
(* Definitions outside main.c.  Fix 3 strips only files whose path         *)
(* contains "main.c", fix 1 writes a template only into a file no search   *)
(* directory holds yet, and fix 4 rewrites only src/dsrtos_stubs.c.  So    *)
(* when the substring test picks out exactly the entry points, when the    *)
(* stubs file has no hand-written definition, and when a file that does    *)
(* not exist defines nothing, every other file keeps its definitions.  The *)
(* invariant needs the fact that no file the fixer found ever disappears.  *)
(***************************************************************************)

\* The three conditions under which fixes 1, 3 and 4 touch no hand-written
\* definition outside main.c.
DefinitionHyp ==
    /\ MainPath = EntryFiles
    /\ Defs0[StubsFile] = {}
    /\ \A f \in Files \ Exists0 : Defs0[f] = {}

\* A file fix 1 creates is in no search directory yet, so it is none of the
\* files the fixer found.
LEMMA CreatedIsNew ==
    ASSUME NEW n, ~SourceFound(n), Exists0 \subseteq exists
    PROVE  SrcFile(n) \notin Exists0
BY DEF SourceFound, SrcFile, SearchDirs

\* A step that keeps the definitions and does not remove a file.
LEMMA DefinitionFrame ==
    ASSUME Exists0 \subseteq exists, DefinitionPreserved,
           defs' = defs, exists \subseteq exists'
    PROVE  Exists0 \subseteq exists' /\ DefinitionPreserved'
BY DEF DefinitionPreserved

\* Every step keeps the files the fixer found and their definitions.
LEMMA NextDefinitionPreserved ==
    ASSUME DefinitionHyp, IInv, Exists0 \subseteq exists, DefinitionPreserved,
           [Next]_vars
    PROVE  Exists0 \subseteq exists' /\ DefinitionPreserved'
<1>0. defs \in [Files -> SUBSET Sym]
    BY DEF IInv, TypeOK, ProjectTypeOK
<1>1. CASE FixMissingRule /\ TriggerMissingRule(output)
    <2> DEFINE N == MissingTargets(output)
               Created == {SrcFile(n) : n \in {m \in N : ~SourceFound(m)}}
    <2>1. /\ exists' = exists \cup Created
          /\ defs' = [f \in Files |-> IF f \in Created THEN Template(f.name)
                                                     ELSE defs[f]]
        BY <1>1, Zenon DEF FixMissingRule, FixStep, FixMakefileMissingRule, projVars
    <2>2. Created \cap Exists0 = {}
        BY CreatedIsNew
    <2>3. ASSUME NEW f \in Files \ EntryFiles PROVE Defs0[f] \subseteq defs'[f]
        <3>1. CASE f \in Created
            BY <2>2, <3>1 DEF DefinitionHyp
        <3>2. CASE f \notin Created
            BY <2>1, <3>2 DEF DefinitionPreserved
        <3>3. QED
            BY <3>1, <3>2
    <2>4. QED
        BY <2>1, <2>3 DEF DefinitionPreserved
<1>2. CASE FixMultipleDef /\ TriggerMultipleDef(output)
    <2>1. /\ exists' = exists
          /\ defs' = [f \in Files |->
                        IF f \in exists \cap MainPath
                        THEN defs[f] \ StrippedBy(MultipleDefs(output))
                        ELSE defs[f]]
        BY <1>2, Zenon DEF FixMultipleDef, FixStep, FixMultipleDefinitions, projVars
    <2>2. QED
        BY <2>1 DEF DefinitionHyp, DefinitionPreserved
<1>3. CASE FixUndefinedRef /\ TriggerUndefinedRef(output)
    <2>1. /\ exists' = exists \cup {StubsFile}
          /\ defs' = [defs EXCEPT ![StubsFile] = UndefinedRefs(output)]
        BY <1>3, Zenon DEF FixUndefinedRef, FixStep, CreateComprehensiveStubs, projVars
    <2>2. QED
        BY <1>0, <2>1 DEF DefinitionHyp, DefinitionPreserved
<1>4. CASE /\ ~(FixMissingRule /\ TriggerMissingRule(output))
           /\ ~(FixMultipleDef /\ TriggerMultipleDef(output))
           /\ ~(FixUndefinedRef /\ TriggerUndefinedRef(output))
    <2>1. defs' = defs /\ exists' = exists
        <3>1. CASE FixMissingRule
            BY <1>4, <3>1 DEF FixMissingRule, FixStep, projVars
        <3>2. CASE FixMultipleDef
            BY <1>4, <3>2 DEF FixMultipleDef, FixStep, projVars
        <3>3. CASE FixUndefinedRef
            BY <1>4, <3>3 DEF FixUndefinedRef, FixStep, projVars
        <3>4. CASE FixForwardDecl
            BY <3>4 DEF FixForwardDecl, FixStep, FixForwardDeclarationErrors, projVars
        <3>5. CASE FixConstants
            BY <3>5 DEF FixConstants, FixStep, CreateConstantsFile, projVars
        <3>6. CASE FixMacros
            BY <3>6 DEF FixMacros, FixStep, RemoveDuplicateMacros, projVars
        <3>7. CASE CreateBackup \/ BuildSucceeds \/ BuildFails \/ BuildToolFails
                   \/ Decide \/ Done \/ UNCHANGED vars
            BY <3>7 DEF CreateBackup, BuildSucceeds, BuildFails, BuildToolFails,
                        Decide, Done, vars, projVars
        <3>8. QED
            BY <3>1, <3>2, <3>3, <3>4, <3>5, <3>6, <3>7 DEF Next
    <2>2. QED
        BY <2>1, DefinitionFrame
<1>5. QED
    BY <1>1, <1>2, <1>3, <1>4

\* Spec section 4.2: entry-point definitions yield to module definitions.
\* Under DefinitionHyp, no file other than a main.c ever loses a function
\* it defined, whatever fixes 1, 3 and 4 do over the rounds.
THEOREM DefinitionPreservedThm ==
    ASSUME DefinitionHyp
    PROVE  Spec => []DefinitionPreserved
<1> DEFINE DI == IInv /\ Exists0 \subseteq exists /\ DefinitionPreserved
<1>1. Init => DI
    BY InitIInv DEF Init, ProjectInit, DefinitionPreserved
<1>2. DI /\ [Next]_vars => DI'
    BY NextIInv, NextDefinitionPreserved
<1>3. QED
    BY <1>1, <1>2, PTL DEF Spec

-----------------------------------------------------------------------------
(***************************************************************************)
(* The exports.  run_dynamic_fix reaches "succeeded" only through the      *)
(* successful build that calls create_exports_structure, and it never      *)
(* leaves "succeeded".  The flat copies lose a file only when a phase      *)
(* directory holds a file with the name of one of the fixed exports.       *)
(***************************************************************************)

\* No file of src/phase1 or src/phase2 is named main.c, dsrtos_stubs.c or
\* dsrtos_auto_stubs.c.
ExportHyp == \A f \in Files : f.dir \in Phases => f.name \notin FixedExports

\* The only step into "succeeded" is the successful build; from there on
\* nothing changes.
LEMMA IntoSucceeded ==
    ASSUME [Next]_vars, pc' = "succeeded"
    PROVE  BuildSucceeds \/ (pc = "succeeded" /\ UNCHANGED vars)
<1>1. CASE FixMissingRule \/ FixForwardDecl \/ FixMultipleDef
           \/ FixUndefinedRef \/ FixConstants \/ FixMacros
    <2>1. \A i \in 1..6 : FixPcs[i + 1] # "succeeded"
        BY DEF FixPcs
    <2>2. QED
        BY <1>1, <2>1 DEF FixMissingRule, FixForwardDecl, FixMultipleDef,
                          FixUndefinedRef, FixConstants, FixMacros, FixStep
<1>2. CASE CreateBackup \/ BuildFails \/ BuildToolFails \/ Decide
    BY <1>2 DEF CreateBackup, BuildFails, BuildToolFails, Decide
<1>3. CASE BuildSucceeds \/ Done \/ UNCHANGED vars
    BY <1>3 DEF Done, vars, loopVars
<1>4. QED
    BY <1>1, <1>2, <1>3 DEF Next

\* The copies of a round that succeeded hold every phase file and every
\* fixed export that exists.
LEMMA ExportOfComplete ==
    ASSUME ExportHyp, exists \subseteq Files, NEW p \in Phases
    PROVE  {f \in exists : f.dir = p \/ (f.dir = "src" /\ f.name \in FixedExports)}
               \subseteq ExportOf(p)
<1> SUFFICES ASSUME NEW f \in exists,
                    f.dir = p \/ (f.dir = "src" /\ f.name \in FixedExports)
             PROVE  f \in ExportOf(p)
    OBVIOUS
<1>1. CASE f.dir = "src" /\ f.name \in FixedExports
    BY <1>1 DEF ExportOf, EntryCopies
<1>2. CASE f.dir = p
    <2>1. f.name \notin FixedExports
        BY <1>2 DEF ExportHyp
    <2>2. QED
        BY <1>2, <2>1 DEF ExportOf, EntryCopies
<1>3. QED
    BY <1>1, <1>2

\* Every step keeps ExportComplete: a step into "succeeded" is the build
\* whose create_exports_structure copied the files.
LEMMA NextExportComplete ==
    ASSUME ExportHyp, IInv, ExportComplete, [Next]_vars
    PROVE  ExportComplete'
<1> SUFFICES ASSUME pc' = "succeeded" PROVE ExportComplete'
    BY DEF ExportComplete
<1>0. exists \subseteq Files /\ exports \in [Phases -> SUBSET Files]
    BY DEF IInv, TypeOK, ProjectTypeOK
<1>1. CASE BuildSucceeds
    <2>1. exists' = exists /\ exports' = CreateExportsStructure(exports)
        BY <1>1 DEF BuildSucceeds, projVars
    <2>2. QED
        BY <1>0, <2>1, ExportOfComplete DEF ExportComplete, CreateExportsStructure
<1>2. CASE pc = "succeeded" /\ UNCHANGED vars
    BY <1>2 DEF ExportComplete, vars, loopVars, projVars
<1>3. QED
    BY <1>1, <1>2, IntoSucceeded

\* Spec section 8: after a successful run every phase export holds a copy
\* of each file of its phase directory and of the entry and stub sources.
\* When no phase file carries one of the fixed names, none of
\* create_exports_structure's flat copies overwrites another.
THEOREM ExportCompleteThm ==
    ASSUME ExportHyp
    PROVE  Spec => []ExportComplete
<1> DEFINE EI == IInv /\ ExportComplete
<1>1. Init => EI
    BY InitIInv DEF Init, ExportComplete
<1>2. EI /\ [Next]_vars => EI'
    BY NextIInv, NextExportComplete
<1>3. QED
    BY <1>1, <1>2, PTL DEF Spec

=============================================================================
