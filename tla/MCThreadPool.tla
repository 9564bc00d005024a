---------------------------- MODULE MCThreadPool ----------------------------
(***************************************************************************)
(* An instance of ThreadPool for TLC.                                      *)
(***************************************************************************)
EXTENDS ThreadPool

CONSTANTS w1, w2

MCWorker == {w1, w2}
=============================================================================
