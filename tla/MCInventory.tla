----------------------------- MODULE MCInventory -----------------------------
(* Inventory on a small instance: two stock keys and an int32 of three bits *)
(* are enough for holds of different sizes to share a key and for sums to   *)
(* reach the top of the range.                                              *)
EXTENDS Inventory, TLC

Symm == Permutations(HoldId)
=============================================================================
