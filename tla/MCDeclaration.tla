---------------------------- MODULE MCDeclaration ----------------------------
(***************************************************************************)
(* Two variants of the core project in which src/drv.c's use of hook is   *)
(* reported and fix 2 cannot declare it:                                   *)
(*  - IncludeAtStart: drv.c's only #include is its first line, so          *)
(*    content.rfind('#include') is 0 and the test include_end > 0 fails;   *)
(*  - FirstUse: hook is used inside a function body, so gcc prints         *)
(*    "'hook' undeclared (first use in this function)", a message fix 2    *)
(*    handles but that does not trigger it.                                *)
(***************************************************************************)
EXTENDS MCDynamicFixer

IncludeAtStartInclPos0 == FileMap(Drv :> "start", "later")

FirstUseScope == [x \in MCSym \cup MCIdent |-> "first"]
=============================================================================
