------------------------------- MODULE MCPipe -------------------------------
(* An instance of Pipe for TLC. *)
EXTENDS Pipe, TLC

Interchangeable == Permutations(Proc) \cup Permutations(Bytes)
=============================================================================
