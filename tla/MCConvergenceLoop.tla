--------------------------- MODULE MCConvergenceLoop ---------------------------
(* The abstract loop with the real bound of seven rounds and four trees. *)
EXTENDS ConvergenceLoop

MCTrees == 1..4
=============================================================================
