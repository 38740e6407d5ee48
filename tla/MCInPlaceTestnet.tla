--------------------------- MODULE MCInPlaceTestnet --------------------------
(***************************************************************************)
(* Small instances of InPlaceTestnet for TLC.                              *)
(***************************************************************************)
EXTENDS InPlaceTestnet

MCOldOperators == {"v1", "v2", "v3"}
MCOperators == MCOldOperators \cup {"new"}
MCFundFlags == {<<EmptyAddress>>, <<"a1">>, <<"a1", "a2">>}
OneFundFlag == {<<"a1">>}
=============================================================================
