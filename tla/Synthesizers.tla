----------------------------- MODULE Synthesizers -----------------------------
(***************************************************************************)
(* The six corrective-action synthesizers of DSRTOSCompilationFixer, each  *)
(* an action on the project given the round's build output `out`.  Each    *)
(* models the whole method: every file it rewrites and the Makefile        *)
(* insertion it ends with.  Files are visited in rglob order, which the    *)
(* model leaves open.                                                      *)
(***************************************************************************)
EXTENDS BuildDriver

\* Fault model: the "source_path in content" early return dropped.
AddSourceToMakefileUnchecked(man, ns) ==
    [f \in Files |->
        IF f \in {SrcFile(n) : n \in ns} THEN man[f] + InsertCount ELSE man[f]]

\* add_source_to_makefile for every name in ns: the path src/<name> is
\* inserted after every "PHASE1_C_SOURCES = \" (or, without PHASE1,
\* every "C_SOURCES = \") the regex finds, unless the text already has it
\* as a substring, listed or merely mentioned.
AddSourceToMakefile(man, ns) ==
    [f \in Files |->
        IF f \in {SrcFile(n) : n \in ns} /\ man[f] = 0 /\ f \notin Mentioned
        THEN InsertCount
        ELSE man[f]]

\* The template create_missing_source_file picks by file name.
Template(n) ==
    IF n \in StubNames THEN BundleSyms
    ELSE IF n \in MissingNames THEN PlaceholderSyms
    ELSE {}

\* Whether some file of the four conventional directories has that name.
SourceFound(n) == \E f \in exists : f.name = n /\ f.dir \in SearchDirs

\* Fix 1: fix_makefile_missing_rule.
FixMakefileMissingRule(out) ==
    LET N == MissingTargets(out)
        Created == {SrcFile(n) : n \in {m \in N : ~SourceFound(m)}}
    IN  /\ exists' = exists \cup Created
        /\ defs' = [f \in Files |-> IF f \in Created THEN Template(f.name)
                                                   ELSE defs[f]]
        /\ fwd' = [f \in Files |-> IF f \in Created THEN {} ELSE fwd[f]]
        /\ mdefs' = [f \in Files |-> IF f \in Created THEN {} ELSE mdefs[f]]
        /\ hdrIncl' = [f \in Files |-> IF f \in Created THEN 0 ELSE hdrIncl[f]]
        /\ inclPos' = [f \in Files |-> IF f \in Created THEN "later"
                                                      ELSE inclPos[f]]
        /\ manifest' = AddSourceToMakefile(manifest, N)
        /\ UNCHANGED hdr

\* "symbol in content and f'{symbol}(' in content": the text has "s(",
\* or "xs(" for a longer name ending with s.
HasCallSite(f, s) == ({s} \cup EndsWith[s]) \cap (Paren[f] \cup defs[f] \cup fwd[f]) # {}

\* The regex ^.*s\s*\(.*\)\s*; : a prototype, or any call statement.
HasDeclaration(f, s) == ({s} \cup EndsWith[s]) \cap (DeclLine[f] \cup fwd[f]) # {}

DeclEligible(f, s) ==
    /\ f \in exists
    /\ HasCallSite(f, s)
    /\ ~HasDeclaration(f, s)
    /\ inclPos[f] = "later"

\* Fault model: the "undeclared here" pattern left out of the list.
FixForwardDeclarationErrorsFirstOnly(out) ==
    LET D == UndeclaredFirst(out) \cap Sym
        Eligible(s) == {f \in Files : DeclEligible(f, s)}
        Takes(s) == IF 1 < Cardinality(Eligible(s)) THEN 1 ELSE Cardinality(Eligible(s))
    IN  \E pick \in [D -> SUBSET Files] :
            /\ \A s \in D : /\ pick[s] \subseteq Eligible(s)
                            /\ Cardinality(pick[s]) = Takes(s)
            /\ fwd' = [f \in Files |-> fwd[f] \cup {s \in D : f \in pick[s]}]
            /\ UNCHANGED <<exists, manifest, defs, mdefs, hdr, hdrIncl, inclPos>>

\* Fix 2: fix_forward_declaration_errors.  Each pattern's symbols are
\* handled in turn; a symbol is declared in the first eligible file and
\* the search stops, so a symbol matched by both patterns is declared in
\* up to two files.
FixForwardDeclarationErrors(out) ==
    LET D == (UndeclaredHere(out) \cup UndeclaredFirst(out)) \cap Sym
        Passes(s) == (IF s \in UndeclaredHere(out) THEN 1 ELSE 0)
                     + (IF s \in UndeclaredFirst(out) THEN 1 ELSE 0)
        Eligible(s) == {f \in Files : DeclEligible(f, s)}
        Takes(s) == IF Passes(s) < Cardinality(Eligible(s))
                    THEN Passes(s) ELSE Cardinality(Eligible(s))
    IN  \E pick \in [D -> SUBSET Files] :
            /\ \A s \in D : /\ pick[s] \subseteq Eligible(s)
                            /\ Cardinality(pick[s]) = Takes(s)
            /\ fwd' = [f \in Files |-> fwd[f] \cup {s \in D : f \in pick[s]}]
            /\ UNCHANGED <<exists, manifest, defs, mdefs, hdr, hdrIncl, inclPos>>

\* The definitions the strip regex ^[^/\n]*s\s*\([^)]*\)\s*\{.*?^\} hits.
StrippedBy(S) == UNION {{s} \cup EndsWith[s] : s \in S}

\* Fault model: the "main.c" path filter dropped.
FixMultipleDefinitionsEverywhere(out) ==
    /\ defs' = [f \in Files |->
                  IF f \in exists THEN defs[f] \ StrippedBy(MultipleDefs(out))
                  ELSE defs[f]]
    /\ UNCHANGED <<exists, manifest, fwd, mdefs, hdr, hdrIncl, inclPos>>

\* Fix 3: fix_multiple_definitions strips the definitions from every file
\* whose path contains "main.c".
FixMultipleDefinitions(out) ==
    /\ defs' = [f \in Files |->
                  IF f \in exists \cap MainPath
                  THEN defs[f] \ StrippedBy(MultipleDefs(out))
                  ELSE defs[f]]
    /\ UNCHANGED <<exists, manifest, fwd, mdefs, hdr, hdrIncl, inclPos>>

\* Fault model: the closing add_source_to_makefile call left out.
CreateComprehensiveStubsUnregistered(out) ==
    /\ exists' = exists \cup {StubsFile}
    /\ defs' = [defs EXCEPT ![StubsFile] = UndefinedRefs(out)]
    /\ fwd' = [fwd EXCEPT ![StubsFile] = {}]
    /\ mdefs' = [mdefs EXCEPT ![StubsFile] = {}]
    /\ hdrIncl' = [hdrIncl EXCEPT ![StubsFile] = 0]
    /\ inclPos' = [inclPos EXCEPT ![StubsFile] = "later"]
    /\ UNCHANGED <<manifest, hdr>>

\* Fix 4: create_comprehensive_stubs overwrites src/dsrtos_stubs.c with a
\* stub for each symbol of this round and registers it in the Makefile.
CreateComprehensiveStubs(out) ==
    /\ exists' = exists \cup {StubsFile}
    /\ defs' = [defs EXCEPT ![StubsFile] = UndefinedRefs(out)]
    /\ fwd' = [fwd EXCEPT ![StubsFile] = {}]
    /\ mdefs' = [mdefs EXCEPT ![StubsFile] = {}]
    /\ hdrIncl' = [hdrIncl EXCEPT ![StubsFile] = 0]
    /\ inclPos' = [inclPos EXCEPT ![StubsFile] = "later"]
    /\ manifest' = AddSourceToMakefile(manifest, {StubsFile.name})
    /\ UNCHANGED hdr

\* "any(const in content for const in constants)", a substring test.
MentionsAny(f, C) ==
    \E c \in C : ({c} \cup StartsWith[c]) \cap (Uses[f] \cup mdefs[f]) # {}

\* Fault model: the "dsrtos_auto_constants.h not in content" test dropped.
CreateConstantsFileUnchecked(out) ==
    LET C == MissingConstants(out)
        Gets == {f \in exists : MentionsAny(f, C)}
    IN  /\ hdr' = C
        /\ hdrIncl' = [f \in Files |->
                         IF f \in Gets THEN hdrIncl[f] + 1 ELSE hdrIncl[f]]
        /\ inclPos' = [f \in Files |->
                         IF f \in Gets
                         THEN IF inclPos[f] = "none" THEN "start" ELSE "later"
                         ELSE inclPos[f]]
        /\ UNCHANGED <<exists, manifest, defs, fwd, mdefs>>

\* Fix 5: create_constants_file overwrites the generated header with this
\* round's constants and prepends the #include to every file that mentions
\* one of them and has no such #include yet.
CreateConstantsFile(out) ==
    LET C == MissingConstants(out)
        Gets == {f \in exists : MentionsAny(f, C) /\ hdrIncl[f] = 0}
    IN  /\ hdr' = C
        /\ hdrIncl' = [f \in Files |->
                         IF f \in Gets THEN hdrIncl[f] + 1 ELSE hdrIncl[f]]
        /\ inclPos' = [f \in Files |->
                         IF f \in Gets
                         THEN IF inclPos[f] = "none" THEN "start" ELSE "later"
                         ELSE inclPos[f]]
        /\ UNCHANGED <<exists, manifest, defs, fwd, mdefs>>

\* Fault model: the macro name left out of the pattern (^#define\s+.*$).
RemovedByAll(M) == IF M = {} THEN {} ELSE Ident

\* The lines ^#define\s+m.*$ removes: m and every name that starts with m.
RemovedBy(M) == UNION {{m} \cup StartsWith[m] : m \in M}

\* Fix 6: remove_duplicate_macros deletes the #define lines from every
\* source file.
RemoveDuplicateMacros(out) ==
    /\ mdefs' = [f \in Files |->
                   IF f \in exists THEN mdefs[f] \ RemovedBy(Redefined(out))
                   ELSE mdefs[f]]
    /\ UNCHANGED <<exists, manifest, defs, fwd, hdr, hdrIncl, inclPos>>
=============================================================================
