------------------------------ MODULE MCPaging ------------------------------
(* Instances of Paging for TLC.  Processes are interchangeable. *)
EXTENDS Paging, TLC

Interchangeable == Permutations(Proc)
=============================================================================
