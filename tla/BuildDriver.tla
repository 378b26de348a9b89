----------------------------- MODULE BuildDriver -----------------------------
(***************************************************************************)
(* The build driver get_compilation_output: `make clean` then `make`, and  *)
(* the output the build tool can produce for the current project.          *)
(*                                                                         *)
(* make and the C tool chain are outside the repository; what they report  *)
(* is an assumption about them, stated here:                               *)
(*  - every file listed in the Makefile is compiled; a listed file that    *)
(*    does not exist gives "No rule to make target";                       *)
(*  - a file reports every name it uses undeclared, and warns for every    *)
(*    macro it #defines that an included header also #defines;            *)
(*  - make stops at a failing unit in an order we do not know (or goes on, *)
(*    with -k): a failed build reports some non-empty set of the failing   *)
(*    units, together with the warnings of any of the units that passed;   *)
(*  - only when every unit compiles is the program linked: each listed     *)
(*    copy of a file contributes its definitions, and a symbol the fixer   *)
(*    declared static in a file must be defined in that same file.         *)
(***************************************************************************)
EXTENDS Classifier

\* The headers visible to f: hand-written ones, and the generated header
\* once f includes it.
Visible(f) == mdefs[f] \cup HdrDefs \cup (IF hdrIncl[f] > 0 THEN hdr ELSE {})

UndeclaredIn(f) ==
    {s \in SymRefs[f] : s \notin fwd[f]} \cup (Uses[f] \ Visible(f))

CompileErrors(f) ==
    {[kind |-> IF Scope[x] = "here" THEN "undecl_here" ELSE "undecl_first",
      subj |-> x] : x \in UndeclaredIn(f)}

CompileWarnings(f) ==
    {[kind |-> "redefined", subj |-> i] :
        i \in mdefs[f] \cap (HdrDefs \cup (IF hdrIncl[f] > 0 THEN hdr ELSE {}))}

Listed == {f \in Files : manifest[f] > 0}

Failing == {f \in Listed : f \notin exists \/ CompileErrors(f) # {}}

UnitOutput(f) ==
    IF f \in exists THEN CompileErrors(f) \cup CompileWarnings(f)
                    ELSE {[kind |-> "norule", subj |-> f.name]}

\* The listed copies of global definitions of s (a file listed twice is
\* linked twice).
LinkCopies(s) ==
    UNION {{<<f, k>> : k \in 1..manifest[f]} :
              f \in {g \in Listed : s \in defs[g] \ fwd[g]}}

NeedsGlobal(s) == \E f \in Listed : s \in (Calls[f] \cup SymRefs[f]) \ fwd[f]

NeedsLocal(s) == \E f \in Listed : s \in (fwd[f] \ defs[f]) \cap (Calls[f] \cup SymRefs[f])

LinkErrors ==
    {[kind |-> "undefref", subj |-> s] :
        s \in {t \in Sym : (NeedsGlobal(t) /\ LinkCopies(t) = {}) \/ NeedsLocal(t)}}
    \cup
    {[kind |-> "multidef", subj |-> s] :
        s \in {t \in Sym : Cardinality(LinkCopies(t)) >= 2}}

BuildClean == Failing = {} /\ LinkErrors = {}

\* Every output a failing `make` can print.
FailureOutputs ==
    IF Failing # {}
    THEN {UNION {UnitOutput(f) : f \in U \cup P} :
            U \in (SUBSET Failing) \ {{}}, P \in SUBSET (Listed \ Failing)}
    ELSE {(UNION {CompileWarnings(f) : f \in Listed}) \cup LinkErrors}
=============================================================================
