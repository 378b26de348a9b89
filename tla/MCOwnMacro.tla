----------------------------- MODULE MCOwnMacro -----------------------------
(***************************************************************************)
(* src/main.c #defines and uses DSRTOS_TICK; src/drv.c uses DSRTOS_TICK    *)
(* without defining it and src/irq.c uses DSRTOS_ERROR_HARDWARE.  When     *)
(* make stops at drv.c, fix 5 writes DSRTOS_TICK to the generated header   *)
(* and prepends the #include to main.c too, since main.c mentions it; the  *)
(* next build warns that main.c redefines it and fix 6 deletes main.c's    *)
(* own #define.                                                            *)
(***************************************************************************)
EXTENDS MCDomainStrip

IrqS == F("src", "irq.c")

OMFiles == {Main, Drv, IrqS, Stubs}
OMMainPath == {Main}
OMSym == {"dsrtos_init"}
OMIdent == {"DSRTOS_TICK", "DSRTOS_ERROR_HARDWARE"}
OMScope == [x \in OMSym \cup OMIdent |-> "first"]
OMEndsWith == [s \in OMSym |-> {}]
OMStartsWith == [i \in OMIdent |-> {}]
OMCalls == Over(OMFiles, Main :> {"dsrtos_init"}, {})
OMParen == OMCalls
OMNone == Over(OMFiles, <<>>, {})
OMUses == Over(OMFiles, Main :> {"DSRTOS_TICK"} @@ Drv :> {"DSRTOS_TICK"}
                        @@ IrqS :> {"DSRTOS_ERROR_HARDWARE"}, {})
OMExists0 == {Main, Drv, IrqS}
OMManifest0 == Over(OMFiles, Main :> 1 @@ Drv :> 1 @@ IrqS :> 1, 0)
OMDefs0 == Over(OMFiles, Main :> {"dsrtos_init"}, {})
OMMDefs0 == Over(OMFiles, Main :> {"DSRTOS_TICK"}, {})
OMInclPos0 == Over(OMFiles, <<>>, "later")
=============================================================================
