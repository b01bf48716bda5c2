----------------------------- MODULE MCInventory -----------------------------
(* Inventory for TLC.                                                       *)
EXTENDS Inventory, TLC

(* A NodeClass without labels of its own, one that takes the managed label  *)
(* and one that has a capacity type of its own.                             *)
MCCustoms == {<<>>, "managed" :> "other", "kind" :> "other"}

Symmetry == Permutations(Claims) \union Permutations(VMs)
==============================================================================
