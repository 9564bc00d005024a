---------------------------- MODULE MCXConnector ----------------------------
(***************************************************************************)
(* An instance of XConnector for TLC.  Of three clients one can be killed, *)
(* one leave and one come at the same time.                                *)
(***************************************************************************)
EXTENDS XConnector

CONSTANTS x, y, z

MCClients == {x, y, z}
=============================================================================
