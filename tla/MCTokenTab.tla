----------------------------- MODULE MCTokenTab -----------------------------
(* Instances of TokenTab for TLC. *)
EXTENDS TokenTab

=============================================================================
