--------------------------- MODULE MCReceivableLedger ---------------------------
(***************************************************************************)
(* Instances of ReceivableLedger for TLC.                                  *)
(***************************************************************************)
EXTENDS ReceivableLedger, TLC

\* A configuration file cannot write a negative amount.
WithRefunds == {-1, 1}

\* A request that dies before one of these steps has written nothing outside a
\* transaction, or nothing but whole rows of the warning batch.
NothingHalfDone ==
    Step \ {"collect.save", "updateCollection.save", "deleteCollection.save",
            "updateIssuedAt.find", "updateIssuedAt.save"}

\* Ids, customers and workers are interchangeable, for safety properties.
Interchangeable ==
    Permutations(Workers) \cup Permutations(Customers)
        \cup Permutations(InvoiceIds) \cup Permutations(CollectionIds)
=============================================================================
