----------------------------- MODULE MCPurchase -----------------------------
(* The purchase workflow, its properties and its promise, for TLC. *)
EXTENDS PurchaseInvariant, PurchaseRefinement, TLC

ProductSymmetry == Permutations(Products)
=============================================================================
