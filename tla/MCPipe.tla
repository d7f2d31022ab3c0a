------------------------------- MODULE MCPipe -------------------------------
(* Pipe for TLC: processes and bytes are interchangeable. *)
EXTENDS Pipe, TLC

Symmetry == Permutations(Proc) \cup Permutations(Byte)
=============================================================================
