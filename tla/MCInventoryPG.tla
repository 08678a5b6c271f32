---------------------------- MODULE MCInventoryPG ----------------------------
(* InventoryPG on a small instance: two open transactions on one stock key  *)
(* and three holds of different sizes.                                      *)
EXTENDS InventoryPG
=============================================================================
