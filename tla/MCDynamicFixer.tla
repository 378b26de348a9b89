---------------------------- MODULE MCDynamicFixer ----------------------------
(***************************************************************************)
(* A project on which every fix fires:                                     *)
(*  - src/main.c and src/phase1/sched.c both define dsrtos_init (fix 3);   *)
(*  - sched.c calls dsrtos_memory_init, defined nowhere (fix 4);           *)
(*  - src/drv.c uses DSRTOS_HEAP_SIZE, defined nowhere (fix 5), and names  *)
(*    the function hook at file scope before declaring it (fix 2);         *)
(*  - main.c #defines DSRTOS_ERROR_FATAL, which a header defines too       *)
(*    (fix 6), and its own DSRTOS_TICK;                                    *)
(*  - the Makefile lists src/dsrtos_timer.c, which does not exist (fix 1); *)
(*  - src/phase2/irq.c uses DSRTOS_ERROR_HARDWARE, defined nowhere: when   *)
(*    make stops at drv.c or irq.c alone, fix 5 overwrites the header      *)
(*    with the other file's constant.                                      *)
(***************************************************************************)
EXTENDS DynamicFixer, TLC

F(d, n) == [dir |-> d, name |-> n]
Main == F("src", "main.c")
Sched == F("phase1", "sched.c")
Drv == F("src", "drv.c")
Timer == F("src", "dsrtos_timer.c")
Stubs == F("src", "dsrtos_stubs.c")
SchedSrc == F("src", "sched.c")
Irq == F("phase2", "irq.c")
IrqSrc == F("src", "irq.c")

MCFiles == {Main, Sched, Drv, Timer, Stubs, SchedSrc, Irq, IrqSrc}
MCSym == {"dsrtos_init", "dsrtos_memory_init", "hook"}
MCIdent == {"DSRTOS_HEAP_SIZE", "DSRTOS_ERROR_FATAL", "DSRTOS_TICK",
            "DSRTOS_ERROR_HARDWARE"}
MCHdrDefs == {"DSRTOS_ERROR_FATAL"}
MCMainPath == {Main}

FileMap(m, dflt) == [f \in MCFiles |-> IF f \in DOMAIN m THEN m[f] ELSE dflt]

MCScope == [x \in MCSym \cup MCIdent |-> IF x = "hook" THEN "here" ELSE "first"]
MCEndsWith == [s \in MCSym |-> {}]
MCStartsWith == [i \in MCIdent |-> {}]

MCSymRefs == FileMap(Drv :> {"hook"}, {})
MCCalls == FileMap(Sched :> {"dsrtos_memory_init"} @@ Main :> {"dsrtos_init"}, {})
MCParen == FileMap(Drv :> {"hook"} @@ Sched :> {"dsrtos_memory_init"}
                   @@ Main :> {"dsrtos_init"}, {})
MCDeclLine == FileMap(Sched :> {"dsrtos_memory_init"} @@ Main :> {"dsrtos_init"}, {})
MCUses == FileMap(Drv :> {"DSRTOS_HEAP_SIZE"} @@ Irq :> {"DSRTOS_ERROR_HARDWARE"}
                  @@ Main :> {"DSRTOS_ERROR_FATAL", "DSRTOS_TICK"}, {})

MCExists0 == {Main, Sched, Drv, Irq}
MCManifest0 == FileMap(Main :> 1 @@ Sched :> 1 @@ Drv :> 1 @@ Timer :> 1
                       @@ Irq :> 1, 0)
MCDefs0 == FileMap(Main :> {"dsrtos_init"} @@ Sched :> {"dsrtos_init"}
                   @@ Drv :> {"hook"}, {})
MCMDefs0 == FileMap(Main :> {"DSRTOS_ERROR_FATAL", "DSRTOS_TICK"}, {})
MCInclPos0 == FileMap(<<>>, "later")

\* A Makefile that mentions the stubs file outside its source lists.
MentionedStubs == {Stubs}
=============================================================================
