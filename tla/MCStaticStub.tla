---------------------------- MODULE MCStaticStub ----------------------------
(***************************************************************************)
(* The core project, with hook defined in src/main.c instead of src/drv.c. *)
(* drv.c names hook at file scope before declaring it, so fix 2 inserts    *)
(* "static dsrtos_result_t hook(void);" into drv.c.  The next link reports *)
(* an undefined reference to drv.c's local hook; fix 4 writes a stub of    *)
(* hook, the link after that reports a multiple definition of hook (main.c *)
(* and the stubs file), and fix 3 strips main.c's definition.              *)
(***************************************************************************)
EXTENDS MCDynamicFixer

SKDefs0 == FileMap(Main :> {"dsrtos_init", "hook"} @@ Sched :> {"dsrtos_init"}, {})
=============================================================================
