---------------------------- MODULE MCFenceWait ----------------------------
(***************************************************************************)
(* An instance of FenceWait for TLC.  Two units make a millisecond and an  *)
(* int has three bits: of the timeouts, 1 is less than a millisecond, 2    *)
(* 3 and 6 are 1, 1 and 3, and 8 and 18 are 4 and 9: too much for an int.  *)
(***************************************************************************)
EXTENDS FenceWait

MCTimeouts == {0, 1, 2, 3, 6, 8, 18, Forever}
=============================================================================
