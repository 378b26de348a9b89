-------------------------- MODULE DynamicFixerMacros --------------------------
(***************************************************************************)
(* A source file's own macros.  Fix 5 writes to the generated header only  *)
(* constants some unit reports undeclared, and fix 6 deletes only the      *)
(* macros some unit warns are redefined, together with every macro whose   *)
(* name starts with one of them.  A macro a file defines and uses itself   *)
(* is visible in that file, so it is never reported undeclared there; it   *)
(* is reported elsewhere only when another file uses it without defining   *)
(* it.  This module proves that, when that does not happen, no file loses  *)
(* such a macro.                                                           *)
(***************************************************************************)
EXTENDS DynamicFixerSafety

\* The macros a file #defines and uses itself and no hand-written header
\* defines.
OwnMacros == (UNION {MDefs0[f] \cap Uses[f] : f \in Files}) \ HdrDefs

\* The conditions under which create_constants_file and remove_duplicate_macros
\* never reach a file's own macro: a file that does not exist (and a
\* hand-written stubs file, which fix 4 overwrites) defines none; a file
\* that uses another file's own macro defines it too; and no own macro's
\* name extends the name of a header macro or of a DSRTOS_ constant.
MacroHyp ==
    /\ \A f \in Files \ Exists0 : MDefs0[f] = {}
    /\ MDefs0[StubsFile] = {}
    /\ \A g \in Files : OwnMacros \cap Uses[g] \subseteq MDefs0[g]
    /\ \A m \in HdrDefs \cup Upper : StartsWith[m] \cap OwnMacros = {}

\* Every file still defines its own macros.
OwnKept == \A f \in Files : (MDefs0[f] \cap Uses[f]) \ HdrDefs \subseteq mdefs[f]

\* The round's output names no own macro as a missing constant, and warns
\* only of header macros and DSRTOS_ constants that are not own macros.
OutputSpares(out) ==
    /\ MissingConstants(out) \cap OwnMacros = {}
    /\ Redefined(out) \subseteq (HdrDefs \cup Upper) \ OwnMacros

\* The inductive invariant of OwnDefinitionKept.
MacroInv ==
    /\ IInv
    /\ Exists0 \subseteq exists
    /\ OwnKept
    /\ hdr \subseteq Upper \ OwnMacros
    /\ OutputSpares(output)

-----------------------------------------------------------------------------
\* An "undeclared" or "redefined" line of a failed build comes from the
\* compiler errors or warnings of one unit.
LEMMA FailureOutputsOrigin ==
    ASSUME NEW out \in FailureOutputs, NEW d \in out,
           d.kind \in {"undecl_here", "undecl_first", "redefined"}
    PROVE  \E g \in Files : d \in CompileErrors(g) \cup CompileWarnings(g)
<1>1. CASE Failing # {}
    <2>0. out \in {UNION {UnitOutput(f) : f \in U \cup P} :
                      U \in (SUBSET Failing) \ {{}}, P \in SUBSET (Listed \ Failing)}
        BY <1>1 DEF FailureOutputs
    <2>1. PICK U \in (SUBSET Failing) \ {{}}, P \in SUBSET (Listed \ Failing) :
                 out = UNION {UnitOutput(f) : f \in U \cup P}
        BY <2>0
    <2>2. PICK g \in U \cup P : d \in UnitOutput(g)
        BY <2>1
    <2>3. g \in Files
        BY <2>1, <2>2 DEF Failing, Listed
    <2>4. g \in exists
        BY <2>2 DEF UnitOutput
    <2>5. QED
        BY <2>2, <2>3, <2>4 DEF UnitOutput
<1>2. CASE Failing = {}
    <2>1. out = (UNION {CompileWarnings(f) : f \in Listed}) \cup LinkErrors
        BY <1>2 DEF FailureOutputs
    <2>2. d \notin LinkErrors
        BY DEF LinkErrors
    <2>3. QED
        BY <2>1, <2>2 DEF Listed
<1>3. QED
    BY <1>1, <1>2

\* An "undeclared" line quotes a name the unit uses and cannot see; a
\* "redefined" line a macro the unit defines that a header also defines.
LEMMA UnitDiagSubj ==
    ASSUME NEW g \in Files, NEW d \in CompileErrors(g) \cup CompileWarnings(g)
    PROVE  /\ d.kind \in {"undecl_here", "undecl_first"} => d.subj \in UndeclaredIn(g)
           /\ d.kind = "redefined" =>
                d.subj \in mdefs[g] \cap (HdrDefs \cup (IF hdrIncl[g] > 0 THEN hdr ELSE {}))
BY DEF CompileErrors, CompileWarnings

\* A failed build of a tree that still holds every own macro, and whose
\* generated header holds none, reports no own macro as undeclared and
\* warns of none as redefined.
LEMMA BuildOutputSpares ==
    ASSUME MacroHyp, OwnKept, hdr \subseteq Upper \ OwnMacros,
           NEW out \in FailureOutputs
    PROVE  OutputSpares(out)
<1>1. MissingConstants(out) \cap OwnMacros = {}
    <2> SUFFICES ASSUME NEW x \in MissingConstants(out) \cap OwnMacros PROVE FALSE
        OBVIOUS
    <2>1. PICK d \in out : d.kind \in {"undecl_here", "undecl_first"} /\ d.subj = x
        BY DEF MissingConstants, UndeclaredHere, UndeclaredFirst, Subjects
    <2>2. PICK g \in Files : d \in CompileErrors(g) \cup CompileWarnings(g)
        BY <2>1, FailureOutputsOrigin
    <2>3. x \in UndeclaredIn(g)
        BY <2>1, <2>2, UnitDiagSubj
    <2>4. x \in Uses[g] \ Visible(g)
        <3>1. x \in Ident \ Sym
            BY NamesAssumption DEF MissingConstants
        <3>2. QED
            BY <2>3, <3>1, TextAssumption DEF UndeclaredIn
    <2>5. x \in MDefs0[g] /\ x \notin HdrDefs
        BY <2>4 DEF MacroHyp, OwnMacros
    <2>6. x \in mdefs[g]
        BY <2>4, <2>5 DEF OwnKept
    <2>7. QED
        BY <2>4, <2>6 DEF Visible
<1>2. Redefined(out) \subseteq (HdrDefs \cup Upper) \ OwnMacros
    <2> SUFFICES ASSUME NEW x \in Redefined(out)
                 PROVE  x \in (HdrDefs \cup Upper) \ OwnMacros
        OBVIOUS
    <2>1. PICK d \in out : d.kind = "redefined" /\ d.subj = x
        BY DEF Redefined, Subjects
    <2>2. PICK g \in Files : d \in CompileErrors(g) \cup CompileWarnings(g)
        BY <2>1, FailureOutputsOrigin
    <2>3. x \in HdrDefs \cup hdr
        BY <2>1, <2>2, UnitDiagSubj
    <2>4. QED
        BY <2>3 DEF OwnMacros
<1>3. QED
    BY <1>1, <1>2 DEF OutputSpares

\* A step that leaves the macros, the header and the output alone and
\* removes no file keeps MacroInv's own conjuncts.
LEMMA MacroFrame ==
    ASSUME Exists0 \subseteq exists, OwnKept, hdr \subseteq Upper \ OwnMacros,
           OutputSpares(output),
           exists \subseteq exists', mdefs' = mdefs, hdr' = hdr, output' = output
    PROVE  /\ Exists0 \subseteq exists'
           /\ OwnKept'
           /\ hdr' \subseteq Upper \ OwnMacros
           /\ OutputSpares(output')
BY DEF OwnKept

\* Every step keeps the own macros, keeps them out of the generated header
\* and leaves an output that names none of them.
LEMMA NextMacroInv ==
    ASSUME MacroHyp, MacroInv, [Next]_vars
    PROVE  /\ Exists0 \subseteq exists'
           /\ OwnKept'
           /\ hdr' \subseteq Upper \ OwnMacros
           /\ OutputSpares(output')
<1>0. /\ mdefs \in [Files -> SUBSET Ident] /\ exists \subseteq Files
      /\ Exists0 \subseteq exists /\ OwnKept /\ hdr \subseteq Upper \ OwnMacros
      /\ OutputSpares(output)
    BY DEF MacroInv, IInv, TypeOK, ProjectTypeOK
<1>1. CASE FixMissingRule /\ TriggerMissingRule(output)
    <2> DEFINE Created == {SrcFile(n) : n \in {m \in MissingTargets(output) : ~SourceFound(m)}}
    <2>1. /\ exists' = exists \cup Created
          /\ mdefs' = [f \in Files |-> IF f \in Created THEN {} ELSE mdefs[f]]
          /\ hdr' = hdr /\ output' = output
        BY <1>1, Zenon DEF FixMissingRule, FixStep, FixMakefileMissingRule, projVars
    <2>2. \A f \in Created \cap Files : MDefs0[f] = {}
        <3>1. Created \cap exists = {}
            BY DEF SourceFound, SrcFile, SearchDirs
        <3>2. QED
            BY <1>0, <3>1 DEF MacroHyp
    <2>3. OwnKept'
        BY <1>0, <2>1, <2>2 DEF OwnKept
    <2>4. QED
        BY <1>0, <2>1, <2>3
<1>2. CASE FixUndefinedRef /\ TriggerUndefinedRef(output)
    <2>1. /\ exists' = exists \cup {StubsFile}
          /\ mdefs' = [mdefs EXCEPT ![StubsFile] = {}]
          /\ hdr' = hdr /\ output' = output
        BY <1>2, Zenon DEF FixUndefinedRef, FixStep, CreateComprehensiveStubs, projVars
    <2>2. OwnKept'
        BY <1>0, <2>1 DEF OwnKept, MacroHyp
    <2>3. QED
        BY <1>0, <2>1, <2>2
<1>3. CASE FixConstants /\ TriggerConstants(output)
    <2>1. /\ exists' = exists /\ mdefs' = mdefs
          /\ hdr' = MissingConstants(output) /\ output' = output
        BY <1>3, Zenon DEF FixConstants, FixStep, CreateConstantsFile, projVars
    <2>2. MissingConstants(output) \subseteq Upper
        BY DEF MissingConstants
    <2>3. QED
        BY <1>0, <2>1, <2>2 DEF OwnKept, OutputSpares
<1>4. CASE FixMacros /\ TriggerMacros(output)
    <2>1. /\ exists' = exists
          /\ mdefs' = [f \in Files |->
                         IF f \in exists THEN mdefs[f] \ RemovedBy(Redefined(output))
                         ELSE mdefs[f]]
          /\ hdr' = hdr /\ output' = output
        BY <1>4, Zenon DEF FixMacros, FixStep, RemoveDuplicateMacros, projVars
    <2>2. RemovedBy(Redefined(output)) \cap OwnMacros = {}
        <3> SUFFICES ASSUME NEW m \in Redefined(output), NEW x \in OwnMacros,
                            x \in {m} \cup StartsWith[m]
                     PROVE  FALSE
            BY DEF RemovedBy
        <3>1. m \in (HdrDefs \cup Upper) \ OwnMacros
            BY <1>0 DEF OutputSpares
        <3>2. QED
            BY <3>1 DEF MacroHyp
    <2>3. OwnKept'
        <3> SUFFICES ASSUME NEW f \in Files, NEW x \in (MDefs0[f] \cap Uses[f]) \ HdrDefs
                     PROVE  x \in mdefs'[f]
            BY DEF OwnKept
        <3>1. x \in OwnMacros /\ x \in mdefs[f]
            BY <1>0 DEF OwnMacros, OwnKept
        <3>2. QED
            BY <2>1, <2>2, <3>1
    <2>4. QED
        BY <1>0, <2>1, <2>3
<1>5. CASE BuildFails
    <2>1. output' \in FailureOutputs /\ UNCHANGED projVars
        BY <1>5 DEF BuildFails
    <2>2. OutputSpares(output')
        BY <1>0, <2>1, BuildOutputSpares
    <2>3. QED
        BY <1>0, <2>1, <2>2 DEF projVars, OwnKept
<1>6. CASE BuildToolFails
    <2>1. output' = {} /\ UNCHANGED projVars
        BY <1>6 DEF BuildToolFails
    <2>2. OutputSpares({})
        BY DEF OutputSpares, MissingConstants, UndeclaredHere, UndeclaredFirst,
               Redefined, Subjects
    <2>3. QED
        BY <1>0, <2>1, <2>2 DEF projVars, OwnKept
<1>7. CASE /\ ~(FixMissingRule /\ TriggerMissingRule(output))
           /\ ~(FixUndefinedRef /\ TriggerUndefinedRef(output))
           /\ ~(FixConstants /\ TriggerConstants(output))
           /\ ~(FixMacros /\ TriggerMacros(output))
           /\ ~BuildFails /\ ~BuildToolFails
    <2>1. exists \subseteq exists' /\ mdefs' = mdefs /\ hdr' = hdr /\ output' = output
        <3>1. CASE FixMissingRule
            BY <1>7, <3>1 DEF FixMissingRule, FixStep, projVars
        <3>2. CASE FixUndefinedRef
            BY <1>7, <3>2 DEF FixUndefinedRef, FixStep, projVars
        <3>3. CASE FixConstants
            BY <1>7, <3>3 DEF FixConstants, FixStep, projVars
        <3>4. CASE FixMacros
            BY <1>7, <3>4 DEF FixMacros, FixStep, projVars
        <3>5. CASE FixForwardDecl
            BY <3>5 DEF FixForwardDecl, FixStep, FixForwardDeclarationErrors, projVars
        <3>6. CASE FixMultipleDef
            BY <3>6 DEF FixMultipleDef, FixStep, FixMultipleDefinitions, projVars
        <3>7. CASE CreateBackup \/ BuildSucceeds \/ Decide \/ Done \/ UNCHANGED vars
            BY <3>7 DEF CreateBackup, BuildSucceeds, Decide, Done, vars, loopVars, projVars
        <3>8. QED
            BY <1>7, <3>1, <3>2, <3>3, <3>4, <3>5, <3>6, <3>7 DEF Next
    <2>2. QED
        BY <1>0, <2>1, MacroFrame
<1>8. QED
    BY <1>1, <1>2, <1>3, <1>4, <1>5, <1>6, <1>7

\* Spec section 4.2: macro removal favours the definition that lives in a
\* header.  Under MacroHyp, create_constants_file never writes a file's own
\* macro into the generated header and remove_duplicate_macros never
\* deletes it: every macro a file defines and uses itself stays defined
\* there, unless a hand-written header defines it.
THEOREM OwnDefinitionKeptThm ==
    ASSUME MacroHyp
    PROVE  Spec => []OwnDefinitionKept
<1>1. Init => MacroInv
    <2> SUFFICES ASSUME Init PROVE MacroInv
        OBVIOUS
    <2>1. OutputSpares({})
        BY DEF OutputSpares, MissingConstants, UndeclaredHere, UndeclaredFirst,
               Redefined, Subjects
    <2>2. QED
        BY <2>1, InitIInv DEF Init, ProjectInit, MacroInv, OwnKept
<1>2. MacroInv /\ [Next]_vars => MacroInv'
    BY NextIInv, NextMacroInv DEF MacroInv
<1>3. MacroInv => OwnDefinitionKept
    BY DEF MacroInv, OwnKept, OwnDefinitionKept
<1>4. QED
    BY <1>1, <1>2, <1>3, PTL DEF Spec
=============================================================================
