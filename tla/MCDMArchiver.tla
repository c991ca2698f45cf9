---------------------------- MODULE MCDMArchiver ----------------------------
(* Instances of DMArchiver for TLC. *)
EXTENDS DMArchiver

\* Two large objects in the last archive.
MCLobs == {1, 2}
MCHome == [l \in MCLobs |-> 2]

\* No large object.
NoHome == [l \in {} |-> 1]
=============================================================================
