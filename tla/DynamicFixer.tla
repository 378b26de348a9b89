----------------------------- MODULE DynamicFixer -----------------------------
(***************************************************************************)
(* DSRTOSCompilationFixer.run_dynamic_fix: back up the tree, then up to    *)
(* MaxIter rounds of build -> classify -> fixes 1..6 -> decide.            *)
(*                                                                         *)
(*   pc         where the single thread of control is                      *)
(*   iteration  the loop index (range(1, 8))                               *)
(*   output     the diagnostics of this round's failed build               *)
(*   fixes      fixes_applied                                              *)
(*   backupDone self.backup_created                                        *)
(*   backup     the tree copied by create_backup (<<>> before the copy)    *)
(*   exports    the source files copied into exports/phase1 and phase2     *)
(*   changed    (auxiliary) whether a fix of this round changed the tree   *)
(***************************************************************************)
EXTENDS Synthesizers, Export

CONSTANT MaxIter

ASSUME MaxIterAssumption == MaxIter \in Nat \ {0}

VARIABLES pc, iteration, output, fixes, backupDone, backup, exports, changed

loopVars == <<pc, iteration, output, fixes, backupDone, backup, exports, changed>>
vars == <<loopVars, projVars>>

Terminal == {"succeeded", "stuck", "exhausted"}
FixPcs == <<"fix1", "fix2", "fix3", "fix4", "fix5", "fix6", "decide">>
Pcs == {"start", "build", "decide"} \cup {FixPcs[i] : i \in 1..6} \cup Terminal

Init ==
    /\ ProjectInit
    /\ pc = "start"
    /\ iteration = 1
    /\ output = {}
    /\ fixes = 0
    /\ backupDone = FALSE
    /\ backup = <<>>
    /\ exports = [p \in Phases |-> {}]
    /\ changed = FALSE

\* Fault model: the backup_created test inverted (if self.backup_created),
\* so the fresh fixer copies nothing.
CreateBackupInverted ==
    /\ pc = "start"
    /\ pc' = "build"
    /\ UNCHANGED <<iteration, output, fixes, backupDone, backup, exports, changed, projVars>>

\* run_dynamic_fix starts: create_backup copies src/ (the sources),
\* include/ (the generated header) and the Makefile.  backup_created is
\* False in a fresh fixer, and create_backup is called once.
CreateBackup ==
    /\ pc = "start"
    /\ ~backupDone
    /\ backup' = projVars
    /\ backupDone' = TRUE
    /\ pc' = "build"
    /\ UNCHANGED <<iteration, output, fixes, exports, changed, projVars>>

\* get_compilation_output returns success: exports are created and the
\* method returns True.
BuildSucceeds ==
    /\ pc = "build"
    /\ BuildClean
    /\ pc' = "succeeded"
    /\ exports' = CreateExportsStructure(exports)
    /\ UNCHANGED <<iteration, output, fixes, backupDone, backup, changed, projVars>>

\* Fault model: fixes_applied = 0 placed before the loop, not in it.
BuildFailsNoReset ==
    /\ pc = "build"
    /\ ~BuildClean
    /\ output' \in FailureOutputs
    /\ pc' = "fix1"
    /\ changed' = FALSE
    /\ UNCHANGED <<iteration, fixes, backupDone, backup, exports, projVars>>

\* The build fails with one of the outputs make can print.
BuildFails ==
    /\ pc = "build"
    /\ ~BuildClean
    /\ output' \in FailureOutputs
    /\ pc' = "fix1"
    /\ fixes' = 0
    /\ changed' = FALSE
    /\ UNCHANGED <<iteration, backupDone, backup, exports, projVars>>

\* subprocess.run raises (make missing, I/O error): (False, str(e)), an
\* output that matches no pattern.
BuildToolFails ==
    /\ pc = "build"
    /\ output' = {}
    /\ pc' = "fix1"
    /\ fixes' = 0
    /\ changed' = FALSE
    /\ UNCHANGED <<iteration, backupDone, backup, exports, projVars>>

\* Fix i of run_dynamic_fix: when its trigger holds, run the synthesizer
\* and count it; otherwise go on to the next one.
FixStep(i, Trigger(_), Synth(_)) ==
    /\ pc = FixPcs[i]
    /\ pc' = FixPcs[i + 1]
    /\ \/ /\ Trigger(output)
          /\ Synth(output)
          /\ fixes' = fixes + 1
          /\ changed' = (changed \/ projVars' # projVars)
       \/ /\ ~Trigger(output)
          /\ UNCHANGED <<fixes, changed, projVars>>
    /\ UNCHANGED <<iteration, output, backupDone, backup, exports>>

FixMissingRule == FixStep(1, TriggerMissingRule, FixMakefileMissingRule)
FixForwardDecl == FixStep(2, TriggerForwardDecl, FixForwardDeclarationErrors)
FixMultipleDef == FixStep(3, TriggerMultipleDef, FixMultipleDefinitions)
FixUndefinedRef == FixStep(4, TriggerUndefinedRef, CreateComprehensiveStubs)
FixConstants == FixStep(5, TriggerConstants, CreateConstantsFile)
FixMacros == FixStep(6, TriggerMacros, RemoveDuplicateMacros)

\* Fault model: the bound tested one round early (range(1, 7)).
DecideEarlyExhaust ==
    /\ pc = "decide"
    /\ \/ /\ fixes = 0
          /\ pc' = "stuck"
          /\ UNCHANGED iteration
       \/ /\ fixes # 0
          /\ iteration = MaxIter - 1
          /\ pc' = "exhausted"
          /\ UNCHANGED iteration
       \/ /\ fixes # 0
          /\ iteration < MaxIter - 1
          /\ pc' = "build"
          /\ iteration' = iteration + 1
    /\ UNCHANGED <<output, fixes, backupDone, backup, exports, changed, projVars>>

\* Fault model: a round without fixes re-runs the fixes instead of breaking.
DecideRetry ==
    /\ pc = "decide"
    /\ \/ /\ fixes = 0
          /\ pc' = "fix1"
          /\ UNCHANGED iteration
       \/ /\ fixes # 0
          /\ iteration = MaxIter
          /\ pc' = "exhausted"
          /\ UNCHANGED iteration
       \/ /\ fixes # 0
          /\ iteration < MaxIter
          /\ pc' = "build"
          /\ iteration' = iteration + 1
    /\ UNCHANGED <<output, fixes, backupDone, backup, exports, changed, projVars>>

\* The end of a round: break when nothing was applied, fall out of the
\* loop after the last iteration, else start the next round.
Decide ==
    /\ pc = "decide"
    /\ \/ /\ fixes = 0
          /\ pc' = "stuck"
          /\ UNCHANGED iteration
       \/ /\ fixes # 0
          /\ iteration = MaxIter
          /\ pc' = "exhausted"
          /\ UNCHANGED iteration
       \/ /\ fixes # 0
          /\ iteration < MaxIter
          /\ pc' = "build"
          /\ iteration' = iteration + 1
    /\ UNCHANGED <<output, fixes, backupDone, backup, exports, changed, projVars>>

\* run_dynamic_fix has returned.
Done ==
    /\ pc \in Terminal
    /\ UNCHANGED vars

Next ==
    \/ CreateBackup
    \/ BuildSucceeds \/ BuildFails \/ BuildToolFails
    \/ FixMissingRule \/ FixForwardDecl \/ FixMultipleDef
    \/ FixUndefinedRef \/ FixConstants \/ FixMacros
    \/ Decide
    \/ Done

\* The fixer is one thread that blocks on make: every enabled step is taken
\* as long as the build tool returns.
Spec == Init /\ [][Next]_vars /\ WF_vars(Next)

-----------------------------------------------------------------------------
TypeOK ==
    /\ ProjectTypeOK
    /\ pc \in Pcs
    /\ iteration \in 1..MaxIter
    /\ output \subseteq Diag
    /\ fixes \in 0..6
    /\ backupDone \in BOOLEAN
    /\ backup \in {<<>>} \cup ProjectSpace
    /\ exports \in [Phases -> SUBSET Files]
    /\ changed \in BOOLEAN

(***************************************************************************)
(* The inductive strengthening of TypeOK: at fix i at most i - 1 fixes of  *)
(* this round have been counted, so fixes_applied never exceeds six,       *)
(* because the counter is reset at the start of every round.               *)
(***************************************************************************)
IInv ==
    /\ TypeOK
    /\ \A i \in 1..6 : pc = FixPcs[i] => fixes < i

(***************************************************************************)
(* The inductive invariant behind BackupBeforeChange: before create_backup *)
(* the tree is untouched and no backup exists; from then on the backup is  *)
(* the original tree.                                                      *)
(***************************************************************************)
BackupInv ==
    /\ pc = "start" => projVars = Project0 /\ ~backupDone
    /\ pc # "start" => backup = Project0

(***************************************************************************)
(* Spec section 8: manifest insertion is idempotent.  add_source_to_makefile *)
(* runs in fix 1 for every missing target and in fix 4 every round that    *)
(* has undefined references; a path the fixer lists is listed exactly once *)
(* however many rounds re-register it.                                     *)
(***************************************************************************)
ManifestIdempotent ==
    \A f \in Files : manifest[f] = Manifest0[f] \/ manifest[f] = 1

(***************************************************************************)
(* Spec section 8 asks for exactly one #include of dsrtos_auto_constants.h *)
(* in each file that references a generated constant.  This states the     *)
(* half that repetition can break: no file ever holds more than one such   *)
(* #include, although fix 5 rewrites the header and revisits every file in *)
(* each round it runs.                                                     *)
(***************************************************************************)
IncludeOnce == \A f \in Files : hdrIncl[f] <= 1

(***************************************************************************)
(* Spec section 4.2: entry-point definitions yield to module definitions.  *)
(* No file other than an entry point (a file named main.c) ever loses a    *)
(* function it defined, whatever fixes 1, 3 and 4 do over the rounds.      *)
(***************************************************************************)
DefinitionPreserved ==
    \A f \in Files \ EntryFiles : Defs0[f] \subseteq defs[f]

(***************************************************************************)
(* Spec section 4.2: macro removal favours the definition that lives in a  *)
(* header.  A macro a source file defines and uses itself stays defined by *)
(* that file unless a hand-written header defines it: its value is never   *)
(* replaced by a heuristic value of the generated header.                  *)
(***************************************************************************)
OwnDefinitionKept ==
    \A f \in Files : \A i \in MDefs0[f] \cap Uses[f] : i \in mdefs[f] \cup HdrDefs

(***************************************************************************)
(* Spec section 7: a synthesized source is "registered in the manifest".   *)
(* Every file the fixer created (fix 1's templates, fix 4's stubs file) is *)
(* listed in the Makefile, so the next build compiles it: the              *)
(* add_source_to_makefile that ends both fixes did insert its path.        *)
(***************************************************************************)
Registered == \A f \in exists \ Exists0 : manifest[f] >= 1

(***************************************************************************)
(* Fix 3 resolves a multiple definition by removing copies, never the last *)
(* one: every function that has a hand-written definition (outside the     *)
(* generated stubs file) still has one in some existing source file,       *)
(* whatever fix 3's path filter and strip regex hit over the rounds.       *)
(***************************************************************************)
HandWrittenKept ==
    \A s \in UNION {Defs0[f] : f \in Files \ {StubsFile}} :
        \E f \in exists \ {StubsFile} : s \in defs[f]

(***************************************************************************)
(* Spec section 4.2: for each undeclared symbol, fix 2 inserts a forward   *)
(* declaration in a file that calls it.  Once fix 2's turn of a round has  *)
(* passed, every function reported undeclared (in either message shape)    *)
(* that some file calls is declared, by fix_forward_declaration_errors's   *)
(* own test, in some file.                                                 *)
(***************************************************************************)
ForwardDeclared ==
    pc = "fix3" =>
        \A s \in (UndeclaredHere(output) \cup UndeclaredFirst(output)) \cap Sym :
            (\E f \in exists : HasCallSite(f, s)) => \E f \in exists : HasDeclaration(f, s)

(***************************************************************************)
(* Spec section 6: each export directory is populated with that phase's   *)
(* sources and the fixed entry and stub files.  When run_dynamic_fix has   *)
(* succeeded, exports/phase<p> holds a copy of every existing file of      *)
(* src/phase<p> and of src/main.c, src/dsrtos_stubs.c and                  *)
(* src/dsrtos_auto_stubs.c: none was overwritten by a file of the same     *)
(* name in create_exports_structure's flat copies.                         *)
(***************************************************************************)
ExportComplete ==
    pc = "succeeded" =>
        \A p \in Phases :
            {f \in exists : f.dir = p \/ (f.dir = "src" /\ f.name \in FixedExports)}
                \subseteq exports[p]

(***************************************************************************)
(* Spec section 2: a one-shot pre-mutation snapshot.  Whenever the fixer   *)
(* has changed the tree (sources, generated header or Makefile), a backup  *)
(* exists and it is the tree as the fixer found it.                        *)
(***************************************************************************)
BackupBeforeChange == projVars # Project0 => backup = Project0

(***************************************************************************)
(* Spec section 4.4: STUCK detects a round that made no progress.  A round *)
(* whose fixes left the tree exactly as it was ends with fixes_applied = 0.*)
(***************************************************************************)
StallDetected == (pc = "decide" /\ ~changed) => fixes = 0

(***************************************************************************)
(* Spec section 8: the loop terminates, with success, STUCK or EXHAUSTED,  *)
(* whatever the build reports.                                             *)
(***************************************************************************)
Terminates == <>(pc \in Terminal)

-----------------------------------------------------------------------------
(***************************************************************************)
(* run_dynamic_fix implements the bounded convergence loop of spec section *)
(* 4.4: the tree changes only between a failed build and the next build,   *)
(* and at most MaxIter builds run.                                         *)
(***************************************************************************)
AbsStatus ==
    CASE pc \in {"start", "build"} -> "build"
      [] pc \in Terminal -> pc
      [] OTHER -> "correct"

Abs == INSTANCE ConvergenceLoop
         WITH status <- AbsStatus, round <- iteration, tree <- projVars,
              Trees <- ProjectSpace, Tree0 <- Project0

\* The loop refines the abstract convergence loop.
RefinesLoop == Abs!Spec
=============================================================================
