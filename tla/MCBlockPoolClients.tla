-------------------------- MODULE MCBlockPoolClients --------------------------
(* BlockPoolClients for TLC: two holders, three blocks, and two prefixes of   *)
(* different lengths, so that promotion, duplicates and additional keys occur. *)
EXTENDS BlockPoolClients, TLC

CONSTANTS c1, c2, short, long

MCClient == {c1, c2}
MCKey == {short, long}
MCKeyTokens == (short :> 1) @@ (long :> 2)
Symmetry == Permutations(MCClient)
=============================================================================
