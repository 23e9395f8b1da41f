--------------------------- MODULE MCStatusBanner ---------------------------
(* Instances of StatusBanner for TLC. *)
EXTENDS StatusBanner, TLC

CONSTANTS r1, r2

MCRequests == {r1, r2}

\* Status requests are interchangeable.
RequestSymmetry == Permutations(MCRequests)

=============================================================================
