------------------------------ MODULE MCQueue -------------------------------
(***************************************************************************)
(* Instances of Queue: an empty block, one of a byte and one of two.       *)
(***************************************************************************)
EXTENDS Queue

MCBlocks == {<<>>, <<1>>, <<2, 1>>}
MCOutBlocks == {<<1>>, <<2, 1>>}
=============================================================================
