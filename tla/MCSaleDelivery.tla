----------------------------- MODULE MCSaleDelivery -----------------------------
(***************************************************************************)
(* Three containers and three items leave room for an item to be added, to *)
(* be moved onto another's container, and for one in the way to be evicted. *)
(***************************************************************************)
EXTENDS SaleDelivery, TLC

MCSymmetry == Permutations(Containers)
=================================================================================
