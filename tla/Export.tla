-------------------------------- MODULE Export --------------------------------
(***************************************************************************)
(* create_exports_structure, run once after a successful build: for phase  *)
(* 1 and 2, exports/phase<p> receives the files of src/phase<p>, the       *)
(* headers of include/phase<p> and include/common, and then src/main.c,    *)
(* src/dsrtos_stubs.c and src/dsrtos_auto_stubs.c.  The copies are flat    *)
(* (shutil.copy2 into the directory), so a later copy of a file name       *)
(* overwrites an earlier one.                                              *)
(*                                                                         *)
(* An export directory is abstracted to the set of source files whose copy *)
(* it ends up holding.  Headers are not source files of the model.         *)
(***************************************************************************)
EXTENDS Project

Phases == {"phase1", "phase2"}

\* The entry and stub files copied into every phase last.
FixedExports == {"main.c", "dsrtos_stubs.c", "dsrtos_auto_stubs.c"}

\* The fixed files that exist in src/.
EntryCopies == {f \in exists : f.dir = "src" /\ f.name \in FixedExports}

\* Fault model: the phase directory hard-coded to src/phase1.
ExportOfFirstPhase(p) ==
    EntryCopies \cup {f \in exists : f.dir = "phase1" /\ f.name \notin {g.name : g \in EntryCopies}}

\* The files exports/phase<p> holds: the fixed files, and each file of
\* src/phase<p> that no fixed file of the same name overwrote.
ExportOf(p) ==
    EntryCopies \cup {f \in exists : f.dir = p /\ f.name \notin {g.name : g \in EntryCopies}}

\* create_exports_structure (mkdir exist_ok: earlier contents stay).
CreateExportsStructure(ex) == [p \in Phases |-> ex[p] \cup ExportOf(p)]
=============================================================================
