---------------------------- MODULE MCContainerStock ----------------------------
(***************************************************************************)
(* A container of 3 bales of one unit of weight each, or of 6 bales of two *)
(* each; items of 2 bales, of 4 and 6 units of weight, of neither, and     *)
(* units of weight given back.                                             *)
(* EPSILON is one, so a remainder of one is where the copies of the        *)
(* computation round differently.                                          *)
(***************************************************************************)
EXTENDS ContainerStock, TLC

MCTotals == {[bales |-> 3, weight |-> 3], [bales |-> 6, weight |-> 12]}
MCAmounts == {[bales |-> 2, weight |-> None], [bales |-> 4, weight |-> 6],
              [bales |-> None, weight |-> None], [bales |-> None, weight |-> -6]}

MCSymmetry == Permutations(Workers) \cup Permutations(Items)
=================================================================================
