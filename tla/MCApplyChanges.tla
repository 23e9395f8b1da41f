--------------------------- MODULE MCApplyChanges ---------------------------
(* Instances of ApplyChanges for TLC: every table has one row at most. *)
EXTENDS ApplyChanges, TLC

CONSTANTS p1, t1, v1, v2

MCValues == {v1, v2}

\* The contents of one input are never compared with another's: they may start alike.
MCInstalled == {[i \in Input |-> IF i \in Row \ {Server} THEN Absent ELSE v] : v \in Value}

\* Nothing compares one content with another but for equality.
ValueSymmetry == Permutations(MCValues)

=============================================================================
