------------------------------- MODULE MCBio -------------------------------
(***************************************************************************)
(* Bio for TLC: two buffers for three blocks, and two processes that share *)
(* one of the blocks.                                                      *)
(***************************************************************************)
EXTENDS Bio, TLC

CONSTANTS p1, p2, b1, b2, b3, v0

MCUses == (p1 :> {b1, b2}) @@ (p2 :> {b2, b3})

MCImage == [b \in Block |-> v0]
=============================================================================
