------------------------ MODULE MCDMIntentReceiver ------------------------
(* Instances of DMIntentReceiver for TLC. *)
EXTENDS DMIntentReceiver
=============================================================================
