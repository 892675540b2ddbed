-------------------------------- MODULE MCCow --------------------------------
(* An instance of Cow for TLC.  Frames are interchangeable. *)
EXTENDS Cow, TLC

Interchangeable == Permutations(Frames)
Zeroes == [a \in Pages |-> 0]
=============================================================================
