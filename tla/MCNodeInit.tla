---------------------------- MODULE MCNodeInit ------------------------------
(***************************************************************************)
(* Two homes and two processes.  The ids: two good ones, one of them also  *)
(* with a blank, one beyond uint64, one malformed and one too long.        *)
(***************************************************************************)
EXTENDS NodeInit, TLC

CONSTANTS p1, p2

MCProcs == {p1, p2}
Symmetry == Permutations(MCProcs)

Id(b) == [base |-> b, padded |-> FALSE]
A == Id("mono_6940-1")
PaddedA == [A EXCEPT !.padded = TRUE]
B == Id("mono_6941-1")
Over == Id("mono_overflow-1")
Malformed == Id("mono-1")
Long == Id("mono_6940-1000")
MCChainIDs == {A, PaddedA, B, Over, Malformed, Long}
MCConfigured == {B}
MCEip155 == A.base :> 40 @@ B.base :> 41 @@ Over.base :> 140 @@ Long.base :> 40

Cmd(kind, h) == [kind |-> kind, home |-> h, network |-> Empty, chain |-> Empty, overwrite |-> FALSE]
InitWith(h, id) == [Cmd("init", h) EXCEPT !.network = id]

MCCommands ==
  {InitWith("h1", id) : id \in {A, PaddedA, Over, Malformed, Long}} \cup
  {InitWith("h2", A), [InitWith("h1", B) EXCEPT !.overwrite = TRUE],
   [InitWith("h1", A) EXCEPT !.chain = B],
   [Cmd("init", "h2") EXCEPT !.chain = B], Cmd("init", "h2"),
   Cmd("other", "h1"), Cmd("start", "h1"), [Cmd("start", "h1") EXCEPT !.chain = B],
   Cmd("start", "h2"), Cmd("export", "h1")}
=============================================================================
