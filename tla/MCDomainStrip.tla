---------------------------- MODULE MCDomainStrip ----------------------------
(***************************************************************************)
(* src/main.c and src/domain.c both define dsrtos_init.  The path of       *)
(* domain.c contains the substring "main.c", so fix 3 strips the           *)
(* definition from both files and none is left.                            *)
(***************************************************************************)
EXTENDS MCDynamicFixer

Dom == F("src", "domain.c")

Over(S, m, dflt) == [f \in S |-> IF f \in DOMAIN m THEN m[f] ELSE dflt]

DSFiles == {Main, Dom, Stubs}
DSSym == {"dsrtos_init"}
DSMainPath == {Main, Dom}
DSScope == [x \in DSSym |-> "first"]
DSEndsWith == [s \in DSSym |-> {}]
DSStartsWith == [i \in {} |-> {}]
DSCalls == Over(DSFiles, Main :> {"dsrtos_init"}, {})
DSParen == Over(DSFiles, Main :> {"dsrtos_init"} @@ Dom :> {"dsrtos_init"}, {})
DSNone == Over(DSFiles, <<>>, {})
DSExists0 == {Main, Dom}
DSManifest0 == Over(DSFiles, Main :> 1 @@ Dom :> 1, 0)
DSDefs0 == Over(DSFiles, Main :> {"dsrtos_init"} @@ Dom :> {"dsrtos_init"}, {})
DSInclPos0 == Over(DSFiles, <<>>, "later")
=============================================================================
