----------------------------- MODULE MCControl -----------------------------
EXTENDS Control, TLC

CONSTANTS x, y, void

(* Values other than Void are opaque. *)
Symmetry == Permutations({x, y})

=============================================================================
