------------------------------ MODULE Project ------------------------------
(***************************************************************************)
(* The project tree that dsrtos_dynamic_fixer.py reads and rewrites: the   *)
(* C sources under src/, the generated header                              *)
(* include/common/dsrtos_auto_constants.h and the Makefile's source lists. *)
(*                                                                         *)
(* A source file is a record [dir, name]: dir is its sub-directory of src/ *)
(* ("src" for src/ itself), name its file name.  Its text is abstracted to *)
(* what the fixer's regular expressions and the build tool tell apart:     *)
(*   defs[f]    functions f defines (a line  sym(...) { ... })             *)
(*   fwd[f]     forward declarations the fixer inserted                    *)
(*              ("static dsrtos_result_t sym(void);")                      *)
(*   mdefs[f]   object-like macros f #defines                              *)
(*   hdrIncl[f] how many  #include "dsrtos_auto_constants.h"  lines f has  *)
(*   inclPos[f] where f's last #include starts: nowhere, at offset 0, or   *)
(*              later (the fixer's  rfind('#include') > 0  test)           *)
(* and the parts of the text the fixer never rewrites are constants.       *)
(* The Makefile is abstracted to manifest[f], the number of times the path *)
(* of f is listed in it.                                                   *)
(***************************************************************************)
EXTENDS Naturals, FiniteSets

CONSTANTS
    Files,        \* every source path the run can see or create
    Sym,          \* function symbols
    Ident,        \* object-like macro / constant identifiers
    Upper,        \* identifiers that start with DSRTOS_ and are upper case
    HdrDefs,      \* identifiers #defined in the hand-written headers
    MainPath,     \* files whose path contains the substring "main.c"
    StubNames,    \* file names that contain "stubs"
    MissingNames, \* file names that contain "missing"
    BundleSyms,   \* the functions of the "stub bundle" template
    PlaceholderSyms, \* placeholder_function of the "missing" template
    EndsWith,     \* EndsWith[s]: other symbols whose name ends with s
    StartsWith,   \* StartsWith[i]: other identifiers that start with i
    Scope,        \* where an undeclared name is used: "here" | "first"
    InsertCount,  \* how many source lists the Makefile insertion regex hits
    Mentioned,    \* files whose path src/<name> occurs in the Makefile text
                  \* other than as a source-list entry (a comment, or
                  \* inside a longer path such as src/<name>pp)
    \* the text of each source file that the fixer never rewrites
    SymRefs,      \* symbols f names before any declaration of them
    Calls,        \* symbols f's code needs at link time
    Paren,        \* symbols s for which f contains "s("
    DeclLine,     \* symbols with a line  ...s(...);  in f
    Uses,         \* identifiers f uses
    \* the project the fixer starts from
    Exists0, Manifest0, Defs0, MDefs0, InclPos0

SearchDirs == {"src", "phase1", "phase2", "common"}
Names == {f.name : f \in Files}
SrcFile(n) == [dir |-> "src", name |-> n]
StubsFile == SrcFile("dsrtos_stubs.c")
EntryFiles == {f \in Files : f.name = "main.c"}
Positions == {"none", "start", "later"}

ASSUME FilesAssumption ==
    /\ Files \subseteq [dir : STRING, name : STRING]
    /\ \A n \in Names : SrcFile(n) \in Files
    /\ StubsFile \in Files
    /\ EntryFiles \subseteq MainPath /\ MainPath \subseteq Files
    /\ IsFiniteSet(Files)

ASSUME NamesAssumption ==
    /\ Upper \subseteq Ident /\ HdrDefs \subseteq Ident
    /\ Sym \cap Ident = {}
    /\ StubNames \subseteq Names /\ MissingNames \subseteq Names
    /\ BundleSyms \subseteq Sym /\ PlaceholderSyms \subseteq Sym
    /\ EndsWith \in [Sym -> SUBSET Sym]
    /\ StartsWith \in [Ident -> SUBSET Ident]
    /\ Scope \in [Sym \cup Ident -> {"here", "first"}]
    /\ InsertCount \in Nat
    /\ Mentioned \subseteq Files

ASSUME TextAssumption ==
    /\ SymRefs \in [Files -> SUBSET Sym] /\ Calls \in [Files -> SUBSET Sym]
    /\ Paren \in [Files -> SUBSET Sym] /\ DeclLine \in [Files -> SUBSET Sym]
    /\ Uses \in [Files -> SUBSET Ident]

ASSUME InitialProjectAssumption ==
    /\ Exists0 \subseteq Files
    /\ Manifest0 \in [Files -> Nat]
    /\ Defs0 \in [Files -> SUBSET Sym]
    /\ MDefs0 \in [Files -> SUBSET Ident]
    /\ InclPos0 \in [Files -> Positions]

VARIABLES exists, manifest, defs, fwd, mdefs, hdr, hdrIncl, inclPos

projVars == <<exists, manifest, defs, fwd, mdefs, hdr, hdrIncl, inclPos>>

\* The project as the fixer finds it: no forward declaration of its own
\* and no generated constants header yet.
Project0 == <<Exists0, Manifest0, Defs0, [f \in Files |-> {}], MDefs0, {},
              [f \in Files |-> 0], InclPos0>>

ProjectInit ==
    /\ exists = Exists0
    /\ manifest = Manifest0
    /\ defs = Defs0
    /\ fwd = [f \in Files |-> {}]
    /\ mdefs = MDefs0
    /\ hdr = {}
    /\ hdrIncl = [f \in Files |-> 0]
    /\ inclPos = InclPos0

\* Every value the tuple of project variables can take.
ProjectSpace ==
    (SUBSET Files) \X [Files -> Nat] \X [Files -> SUBSET Sym]
    \X [Files -> SUBSET Sym] \X [Files -> SUBSET Ident] \X (SUBSET Ident)
    \X [Files -> Nat] \X [Files -> Positions]

ProjectTypeOK ==
    /\ exists \subseteq Files
    /\ manifest \in [Files -> Nat]
    /\ defs \in [Files -> SUBSET Sym]
    /\ fwd \in [Files -> SUBSET Sym]
    /\ mdefs \in [Files -> SUBSET Ident]
    /\ hdr \subseteq Ident
    /\ hdrIncl \in [Files -> Nat]
    /\ inclPos \in [Files -> Positions]
=============================================================================
