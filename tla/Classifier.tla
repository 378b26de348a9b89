----------------------------- MODULE Classifier -----------------------------
(***************************************************************************)
(* The diagnostic classifier: the regular expressions that run_dynamic_fix *)
(* and the fix_* methods apply to the build output.                        *)
(*                                                                         *)
(* A build output is the set of diagnostic lines it contains, each a       *)
(* record [kind, subj] of the line's shape and the name it quotes:         *)
(*   "norule"        No rule to make target '<target>'   (subj: file name) *)
(*   "undecl_here"   '<x>' undeclared here (not in a function)             *)
(*   "undecl_first"  '<x>' undeclared (first use in this function)         *)
(*   "multidef"      multiple definition of `<sym>'                        *)
(*   "undefref"      undefined reference to `<sym>'                        *)
(*   "redefined"     "<macro>" redefined                 (a warning)       *)
(* Lines of any other shape match no pattern and are not represented.      *)
(***************************************************************************)
EXTENDS Project

\* The diagnostics the build can print: a missing target quotes a file
\* name, the linker a function, the preprocessor a macro, the compiler any
\* undeclared name.
Diag ==
    [kind : {"norule"}, subj : Names]
    \cup [kind : {"undecl_here", "undecl_first"}, subj : Sym \cup Ident]
    \cup [kind : {"multidef", "undefref"}, subj : Sym]
    \cup [kind : {"redefined"}, subj : Ident]

Subjects(out, k) == {d.subj : d \in {e \in out : e.kind = k}}

\* re.findall(r"No rule to make target '([^']+)'"), then Path(..).name
\* with '.o' replaced by '.c'.
MissingTargets(out) == Subjects(out, "norule")

\* The two patterns of fix_forward_declaration_errors, one set per pattern.
UndeclaredHere(out) == Subjects(out, "undecl_here")
UndeclaredFirst(out) == Subjects(out, "undecl_first")

MultipleDefs(out) == Subjects(out, "multidef")

UndefinedRefs(out) == Subjects(out, "undefref")

\* re.findall(r"'([^']+)' undeclared") keeps both shapes; only the
\* DSRTOS_ upper-case names are constants.
MissingConstants(out) == (UndeclaredHere(out) \cup UndeclaredFirst(out)) \cap Upper

Redefined(out) == Subjects(out, "redefined")

(***************************************************************************)
(* The trigger of each fix in run_dynamic_fix.  Fixes 1-3 test for a       *)
(* literal substring of the output, fixes 4-6 for a non-empty extraction.  *)
(***************************************************************************)
TriggerMissingRule(out) == MissingTargets(out) # {}
TriggerForwardDecl(out) == UndeclaredHere(out) # {}
TriggerMultipleDef(out) == MultipleDefs(out) # {}
TriggerUndefinedRef(out) == UndefinedRefs(out) # {}
TriggerConstants(out) == MissingConstants(out) # {}
TriggerMacros(out) == Redefined(out) # {}
=============================================================================
