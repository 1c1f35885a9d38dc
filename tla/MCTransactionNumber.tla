-------------------------- MODULE MCTransactionNumber --------------------------
(***************************************************************************)
(* Instances of TransactionNumber for TLC.                                 *)
(***************************************************************************)
EXTENDS TransactionNumber, TLC

CONSTANTS d1, d2

OddNumbers == {[day |-> d1, seq |-> 2], [day |-> d1, seq |-> Text]}

Interchangeable ==
    Permutations(Workers) \cup Permutations(InvoiceIds) \cup Permutations(CollectionIds)
=============================================================================
