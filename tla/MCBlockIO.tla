------------------------------ MODULE MCBlockIO ------------------------------
(* An instance of BlockIO for TLC. *)
EXTENDS BlockIO, TLC

Interchangeable == Permutations(Proc) \cup Permutations(Blocks)
=============================================================================
