--------------------------- MODULE MCXServerCore ---------------------------
(***************************************************************************)
(* Instances of XServerCore for TLC.  Two clients, that are alike: one acts *)
(* on what belongs to the other, or comes after it.                        *)
(***************************************************************************)
EXTENDS XServerCore, TLC

CONSTANTS c1, c2

MCClients == {c1, c2}

Symmetry == Permutations(MCClients)
=============================================================================
