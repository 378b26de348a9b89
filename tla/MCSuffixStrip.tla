---------------------------- MODULE MCSuffixStrip ----------------------------
(***************************************************************************)
(* The core project, with src/main.c also defining and calling             *)
(* app_dsrtos_init, a function no other file defines.  The strip regex     *)
(* ^[^/\n]*dsrtos_init\s*\([^)]*\)\s*\{.*?^\} of fix 3 matches its         *)
(* definition too, since its name ends with dsrtos_init.                   *)
(***************************************************************************)
EXTENDS MCDynamicFixer

SSSym == MCSym \cup {"app_dsrtos_init"}
SSScope == [x \in SSSym \cup MCIdent |-> IF x = "hook" THEN "here" ELSE "first"]
SSEndsWith == [s \in SSSym |-> IF s = "dsrtos_init" THEN {"app_dsrtos_init"} ELSE {}]
SSCalls == [MCCalls EXCEPT ![Main] = @ \cup {"app_dsrtos_init"}]
SSParen == [MCParen EXCEPT ![Main] = @ \cup {"app_dsrtos_init"}]
SSDefs0 == [MCDefs0 EXCEPT ![Main] = @ \cup {"app_dsrtos_init"}]
=============================================================================
