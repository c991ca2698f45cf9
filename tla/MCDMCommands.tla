---------------------------- MODULE MCDMCommands ----------------------------
(* Instances of DMCommands for TLC. *)
EXTENDS DMCommands
=============================================================================
