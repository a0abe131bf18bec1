---------------------------- MODULE MCSpscQueue ----------------------------
(***************************************************************************)
(* SpscQueue with three interchangeable items.                              *)
(***************************************************************************)
EXTENDS SpscQueue, TLC

\* The code never looks into an item, so any permutation of them is a symmetry.
Symmetry == Permutations(Item)

=============================================================================
