----------------------------- MODULE MCULThread -----------------------------
(* Instances of ULThread for TLC. *)
EXTENDS ULThread
=============================================================================
