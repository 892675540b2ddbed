--------------------------- MODULE MCTrapEmulate ---------------------------
(* An instance of TrapEmulate for TLC.  Guests are interchangeable. *)
EXTENDS TrapEmulate, TLC

Interchangeable == Permutations(Procs)
=============================================================================
