--------------------------- MODULE MCGraphThread ---------------------------
(* Instances of GraphThread for TLC: the calls are interchangeable.        *)
EXTENDS GraphThread, TLC

Symmetry == Permutations(Calls)

=============================================================================
