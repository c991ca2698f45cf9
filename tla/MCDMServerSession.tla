------------------------- MODULE MCDMServerSession -------------------------
(* Instances of DMServerSession for TLC. *)
EXTENDS DMServerSession
=============================================================================
