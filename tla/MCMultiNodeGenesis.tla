------------------------- MODULE MCMultiNodeGenesis -------------------------
(***************************************************************************)
(* Small instances of MultiNodeGenesis for TLC.                            *)
(***************************************************************************)
EXTENDS MultiNodeGenesis

\* No list, one with an entry that is no number, one with a stake that no
\* account can pay.
MCStakeFlags == {<<NotANumber>>, <<2, NotANumber, 3>>, <<2, 501>>}
MCPortFlags == {<<>>, <<4000>>}

\* The default of the flag.
DefaultStakeFlags == {<<FlagDefault, FlagDefault, FlagDefault, FlagDefault>>}
DefaultPortFlags == {<<>>}
=============================================================================
