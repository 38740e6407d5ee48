------------------------- MODULE MCZeroHeightExport -------------------------
(***************************************************************************)
(* Small instances of ZeroHeightExport for TLC.  The addresses of a list   *)
(* are tested for membership only and the loops of the function may visit  *)
(* their elements in any order, so the validators are interchangeable.     *)
(***************************************************************************)
EXTENDS ZeroHeightExport, TLC

CONSTANTS v1, v2, v3, d1   \* v3 is the address of no validator

Symmetry == Permutations({v1, v2})
=============================================================================
