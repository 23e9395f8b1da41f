------------------------ MODULE MCServerConfigRow ------------------------
(* Instances of ServerConfigRow for TLC. *)
EXTENDS ServerConfigRow, TLC

CONSTANTS w1, w2, p1

MCWorkers == {w1, w2}

\* Threads are interchangeable.
WorkerSymmetry == Permutations(MCWorkers)

=============================================================================
