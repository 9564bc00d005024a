-------------------------- MODULE MCVortekSession --------------------------
(***************************************************************************)
(* Instances of VortekSession for TLC: two threads of a guest process,     *)
(* which the safety properties do not tell apart.                          *)
(***************************************************************************)
EXTENDS VortekSession, TLC

CONSTANTS g1, g2

MCThread == {g1, g2}
Symmetry == Permutations(MCThread)
=============================================================================
