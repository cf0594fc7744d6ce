---------------------------- MODULE MCObjectTree ----------------------------
(* ObjectTree for TLC: what the types of the library let hold what, and    *)
(* the symmetry of lists, pairs and leaves.                                *)
EXTENDS ObjectTree

(* Lists hold parameters and expressions, whose values are lists, other     *)
(* expressions, themselves included, and plain values.                      *)
TreeFits == (List \X Pair) \cup (Pair \X Object)

Symmetry == Permutations(List) \cup Permutations(Pair) \cup Permutations(Leaf)
=============================================================================
