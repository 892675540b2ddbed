------------------------------- MODULE MCLog -------------------------------
(* Instances of Log for TLC.  Processes and blocks are interchangeable. *)
EXTENDS Log, TLC

Interchangeable == Permutations(Proc) \cup Permutations(Block)
=============================================================================
