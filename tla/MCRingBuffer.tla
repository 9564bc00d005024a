---------------------------- MODULE MCRingBuffer ----------------------------
(***************************************************************************)
(* Instances of RingBuffer for TLC: four cells, counters that wrap at      *)
(* eight, messages of one and three bytes so that copies straddle the last *)
(* cell, and one message too large for the ring.  Two byte values are      *)
(* enough to tell any two positions of the stream apart.                   *)
(***************************************************************************)
EXTENDS RingBuffer

CONSTANTS x, y

MCByte == {x, y}
MCPayloads == {<<x>>, <<x, y, y>>, <<y, x, x, y, x>>}
=============================================================================
