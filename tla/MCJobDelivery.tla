--------------------------- MODULE MCJobDelivery ---------------------------
(***************************************************************************)
(* Workers are interchangeable, and so are operator actions.               *)
(***************************************************************************)
EXTENDS JobDelivery, TLC

Symmetry == Permutations(Workers) \cup Permutations(Actions)
=============================================================================
