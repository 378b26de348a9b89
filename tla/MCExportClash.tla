---------------------------- MODULE MCExportClash ----------------------------
(***************************************************************************)
(* The core project with a src/phase1/main.c (a phase test entry, not in   *)
(* the Makefile).  exports/phase1 receives it with the phase's files and   *)
(* then src/main.c, copied under the same name.                            *)
(***************************************************************************)
EXTENDS MCDynamicFixer

PhaseMain == F("phase1", "main.c")

ECFiles == MCFiles \cup {PhaseMain}
ECMainPath == {Main, PhaseMain}
ECMap(m, dflt) == [f \in ECFiles |-> IF f \in DOMAIN m THEN m[f] ELSE dflt]
ECNone == ECMap(<<>>, {})
ECSymRefs == ECMap(MCSymRefs, {})
ECCalls == ECMap(MCCalls, {})
ECParen == ECMap(MCParen, {})
ECDeclLine == ECMap(MCDeclLine, {})
ECUses == ECMap(MCUses, {})
ECExists0 == MCExists0 \cup {PhaseMain}
ECManifest0 == ECMap(MCManifest0, 0)
ECDefs0 == ECMap(MCDefs0, {})
ECMDefs0 == ECMap(MCMDefs0, {})
ECInclPos0 == ECMap(<<>>, "later")
=============================================================================
