----------------------------- MODULE AccountBook -----------------------------
(***************************************************************************)
(* What the receivable of a customer promises: each bill and each payment  *)
(* is posted to the account of its customer in one step, and nothing else  *)
(* ever moves the account.  ReceivableLedger implements it as long as      *)
(* requests do not overlap, none dies midway and no refund is taken back.  *)
(***************************************************************************)
EXTENDS Integers

CONSTANTS Customers, InvoiceIds, CollectionIds, None

VARIABLES bill,    \* what each invoice bills, and to whom
          paid,    \* what each collection pays, and for whom
          account  \* the totals of each customer, None until the first posting

vars == <<bill, paid, account>>

Entry   == [cust: Customers, amt: Int]
Account == [sales: Int, collected: Int, balance: Int]

AmountOf(entry) == IF entry = None THEN 0 ELSE entry.amt
OwnedBy(entry, c) == entry = None \/ entry.cust = c
Opened(c) == IF account[c] = None THEN [sales |-> 0, collected |-> 0, balance |-> 0]
             ELSE account[c]

Init ==
    /\ bill = [i \in InvoiceIds |-> None]
    /\ paid = [k \in CollectionIds |-> None]
    /\ account = [c \in Customers |-> None]

\* A bill of customer c appears, changes its amount or is withdrawn.
PostBill(i, c, entry) ==
    LET sales == Opened(c).sales + (AmountOf(entry) - AmountOf(bill[i])) IN
    /\ OwnedBy(bill[i], c) /\ OwnedBy(entry, c)
    /\ bill' = [bill EXCEPT ![i] = entry]
    /\ account' = [account EXCEPT ![c] =
                     [sales |-> sales, collected |-> Opened(c).collected,
                      balance |-> sales - Opened(c).collected]]
    /\ UNCHANGED paid

\* A payment of customer c is recorded, corrected or removed.
PostPayment(k, c, entry) ==
    LET collected == Opened(c).collected + (AmountOf(entry) - AmountOf(paid[k])) IN
    /\ OwnedBy(paid[k], c) /\ OwnedBy(entry, c)
    /\ paid' = [paid EXCEPT ![k] = entry]
    /\ account' = [account EXCEPT ![c] =
                     [sales |-> Opened(c).sales, collected |-> collected,
                      balance |-> Opened(c).sales - collected]]
    /\ UNCHANGED bill

\* The entry a step posts is the one it leaves behind.
Next ==
    \/ \E i \in InvoiceIds, c \in Customers : PostBill(i, c, bill'[i])
    \/ \E k \in CollectionIds, c \in Customers : PostPayment(k, c, paid'[k])

Spec == Init /\ [][Next]_vars
=============================================================================
