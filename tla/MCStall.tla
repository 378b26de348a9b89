------------------------------- MODULE MCStall -------------------------------
(***************************************************************************)
(* src/phase1/sched.c and src/drv.c both define hook, and no file is an    *)
(* entry point: every build reports "multiple definition of `hook'", fix 3 *)
(* finds no main.c to strip and changes nothing, yet the round counts it.  *)
(***************************************************************************)
EXTENDS MCDomainStrip

STFiles == {Sched, SchedSrc, Drv, Stubs}
STSym == {"hook"}
STScope == [x \in STSym |-> "first"]
STEndsWith == [s \in STSym |-> {}]
STStartsWith == [i \in {} |-> {}]
STCalls == Over(STFiles, Drv :> {"hook"}, {})
STParen == Over(STFiles, Drv :> {"hook"} @@ Sched :> {"hook"}, {})
STNone == Over(STFiles, <<>>, {})
STExists0 == {Sched, Drv}
STManifest0 == Over(STFiles, Sched :> 1 @@ Drv :> 1, 0)
STDefs0 == Over(STFiles, Sched :> {"hook"} @@ Drv :> {"hook"}, {})
STInclPos0 == Over(STFiles, <<>>, "later")
=============================================================================
