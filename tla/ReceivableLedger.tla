--------------------------- MODULE ReceivableLedger ---------------------------
(***************************************************************************)
(* The customer receivable (one tb_accounts_receivable row per customer),  *)
(* the invoices that raise it and the collections that lower it.  Every    *)
(* HTTP request is a worker; each `await` of its handler that touches the  *)
(* database is a step of its own.  A handler that runs inside              *)
(* dataSource.transaction reads in one step and writes everything in its   *)
(* commit step; a handler that does not writes its rows one by one.        *)
(*                                                                         *)
(* Repository.save(entity) looks at the row, without a lock, and writes    *)
(* from the entity in memory, however old, the columns that differ from    *)
(* what it saw: `held` (receivables) and `heldInv` (an invoice) are what a *)
(* worker will write back, `looked` and `lookedInv` what a save has seen.  *)
(***************************************************************************)
EXTENDS Integers, FiniteSets, Functions

CONSTANTS
    Workers,        \* requests that may be in flight at once
    Customers, InvoiceIds, CollectionIds,
    InvoiceAmounts, \* amounts an invoice may carry (0 when no price is entered)
    MoneyAmounts,   \* amounts of a collection; negative ones are refunds
    Days,           \* days on which an invoice may be dated and a batch run
    PaymentTerms,   \* payment terms, as a number of days after the issue date
    MaxRequests,    \* bound on the number of requests of a behaviour
    FailingSteps,   \* steps a request may die before
    MayCancelSale,  \* TRUE when the sale behind an invoice may be cancelled
    MayChangeCustomer, \* TRUE when an edit may give an invoice to another customer
    None

Status  == {"OUTSTANDING", "PARTIAL", "COMPLETED"}
Warning == {None, "WARNING_1ST", "WARNING_2ND", "WARNING_3RD", "MALICIOUS"}
Row == [totalSales: Int, totalCollected: Int, balance: Int, status: Status,
        warning: Warning, terms: Nat, due: Int \cup {None}]
Invoice == [state: {"unused", "live", "deleted"}, cust: Customers \cup {None},
            receivable: Customers \cup {None}, amt: Int, issued: Int]
Collection == [state: {"unused", "live", "removed"},
               cust: Customers \cup {None}, amt: Int]
Arg == [cust: Customers \cup {None}, inv: InvoiceIds \cup {None},
        col: CollectionIds \cup {None}, amt: Int, old: Int, day: Int]
Step == {"idle", "collect.insert", "collect.save", "collectByCustomer.commit",
         "updateCollection.find", "updateCollection.write", "updateCollection.save",
         "deleteCollection.find", "deleteCollection.remove", "deleteCollection.save",
         "createInvoice.commit", "updateInvoice.begin", "updateInvoice.commit",
         "deleteInvoice.find", "deleteInvoice.commit",
         "updateIssuedAt.write", "updateIssuedAt.find", "updateIssuedAt.save",
         "invoiceFlag.write", "updatePaymentTerms.save",
         "updateReceivableNotes.save", "updateWarningStatuses.loop"}

ASSUME LedgerAssumption ==
    /\ None \notin Customers \cup InvoiceIds \cup CollectionIds
    /\ None \notin Row \cup Invoice \cup Int
    /\ None \notin [cust: Customers, amt: Int] \cup [sales: Int, collected: Int, balance: Int]
    /\ InvoiceAmounts \subseteq Int /\ MoneyAmounts \subseteq Int
    /\ Days \subseteq Int /\ PaymentTerms \subseteq Nat
    /\ MaxRequests \in Nat
    /\ FailingSteps \subseteq Step
    /\ MayCancelSale \in BOOLEAN /\ MayChangeCustomer \in BOOLEAN

VARIABLES
    ar,            \* tb_accounts_receivable, by customer (cu_id is unique)
    invoice,       \* tb_invoice
    collection,    \* tb_receivable_collection
    saleCancelled, \* invoices with an item whose sale has sa_cancelled_at set
    today, pc, arg, held, heldInv,
    looked, lookedInv, \* what a save under way has seen and has still to write
    started,
    torn           \* history: customers whose row a save left with a total, the
                   \* balance or the status other than it held

db   == <<ar, torn, invoice, collection, saleCancelled, today>>
vars == <<db, pc, arg, held, heldInv, looked, lookedInv, started>>

NoArg  == [cust |-> None, inv |-> None, col |-> None, amt |-> 0, old |-> 0, day |-> 0]
NoRows == [c \in Customers |-> None]

-----------------------------------------------------------------------------
(* What the handlers compute from the row they hold.                       *)

\* Mutated: the two tests in the other order.
PaidFirst(balance, collected) ==
    IF collected > 0 THEN "PARTIAL"
    ELSE IF balance <= 0 THEN "COMPLETED" ELSE "OUTSTANDING"

StatusAfter(balance, collected) ==
    IF balance <= 0 THEN "COMPLETED"
    ELSE IF collected > 0 THEN "PARTIAL" ELSE "OUTSTANDING"

\* collect: the balance is lowered by the amount, the warning is reset.
Collected(row, a) ==
    LET tc == row.totalCollected + a
        b  == row.balance - a
    IN  [row EXCEPT !.totalCollected = tc, !.balance = b,
                    !.status = StatusAfter(b, tc), !.warning = None]

\* collectByCustomer: the balance is recomputed from the totals.
CollectedByCustomer(row, a) ==
    LET tc == row.totalCollected + a
        b  == row.totalSales - tc
    IN  [row EXCEPT !.totalCollected = tc, !.balance = b,
                    !.status = StatusAfter(b, tc), !.warning = None]

\* Mutated: the balance is left as it was.
CorrectedTotalOnly(row, diff) == [row EXCEPT !.totalCollected = row.totalCollected + diff]

\* updateCollection: PARTIAL asks for some sales as well, the warning stays.
Corrected(row, diff) ==
    LET tc == row.totalCollected + diff
        b  == row.balance - diff
    IN  [row EXCEPT !.totalCollected = tc, !.balance = b,
                    !.status = StatusAfter(b, IF row.totalSales > 0 THEN tc ELSE 0)]

\* Mutated: one of the two totals is forgotten.
UncollectedBalanceOnly(row, a) == [row EXCEPT !.balance = row.balance + a]
UncollectedTotalOnly(row, a) == [row EXCEPT !.totalCollected = row.totalCollected - a]

\* deleteCollection: the total is clamped at 0, the balance is not.
Uncollected(row, a) ==
    LET tc == row.totalCollected - a
        b  == row.balance + a
    IN  [row EXCEPT !.totalCollected = IF tc < 0 THEN 0 ELSE tc, !.balance = b,
                    !.status = StatusAfter(b, IF row.totalSales > 0 THEN tc ELSE 0)]

\* createInvoice, updateInvoice, deleteInvoice: a new sales total.
Resold(row, sales) ==
    LET b == sales - row.totalCollected
    IN  [row EXCEPT !.totalSales = sales, !.balance = b,
                    !.status = StatusAfter(b, row.totalCollected)]

DefaultTerms == 7

\* The row collectByCustomer creates for a customer that has none.
EmptyRow == [totalSales |-> 0, totalCollected |-> 0, balance |-> 0,
             status |-> "OUTSTANDING", warning |-> None,
             terms |-> DefaultTerms, due |-> None]

\* The row createInvoice creates: OUTSTANDING whatever the amount is.
FirstSaleRow(a) == [EmptyRow EXCEPT !.totalSales = a, !.balance = a]

\* Mutated: the word the batch reports for "no warning" is stored.
WarningOrNull(days) ==
    CASE days >= 43 -> "MALICIOUS"
      [] days >= 28 /\ days < 43 -> "WARNING_3RD"
      [] days >= 14 /\ days < 28 -> "WARNING_2ND"
      [] days >= 7  /\ days < 14 -> "WARNING_1ST"
      [] OTHER -> "NULL"

\* Days past the last due date turned into a warning level.
WarningFor(days) ==
    CASE days >= 43 -> "MALICIOUS"
      [] days >= 28 /\ days < 43 -> "WARNING_3RD"
      [] days >= 14 /\ days < 28 -> "WARNING_2ND"
      [] days >= 7  /\ days < 14 -> "WARNING_1ST"
      [] OTHER -> None

DueDates(is, terms) == {invoice[i].issued + terms : i \in is}

\* Mutated: the earliest date.
IsEarliest(d, ds) == d \in ds /\ \A e \in ds : d <= e
IsLatest(d, ds) == d \in ds /\ \A e \in ds : e <= d

\* The invoices updateIssuedAt and updatePaymentTerms date the receivable by.
CountedInvoices(c) ==
    {i \in InvoiceIds \ saleCancelled : invoice[i].state = "live" /\ invoice[i].cust = c}

-----------------------------------------------------------------------------
(* Requests.                                                               *)

Start(w, step, a) ==
    /\ pc[w] = "idle" /\ started < MaxRequests
    /\ started' = started + 1
    /\ pc' = [pc EXCEPT ![w] = step]
    /\ arg' = [arg EXCEPT ![w] = a]
    /\ UNCHANGED <<looked, lookedInv>>

Goto(w, from, to) ==
    pc[w] = from /\ pc' = [pc EXCEPT ![w] = to] /\ UNCHANGED <<looked, lookedInv, started>>

Finish(w) ==
    /\ pc' = [pc EXCEPT ![w] = "idle"]
    /\ arg' = [arg EXCEPT ![w] = NoArg]
    /\ held' = [held EXCEPT ![w] = NoRows]
    /\ heldInv' = [heldInv EXCEPT ![w] = None]
    /\ looked' = [looked EXCEPT ![w] = NoRows]
    /\ lookedInv' = [lookedInv EXCEPT ![w] = None]
    /\ UNCHANGED started

Hold(w, c) == held' = [held EXCEPT ![w] = [NoRows EXCEPT ![c] = ar[c]]]
HeldRow(w) == held[w][arg[w].cust]

\* What a save of `row` leaves: the columns that differed from what it saw, and
\* the amounts it assigned as text ("1" is not the stored "1.00"), over the row
\* as it is stored by now.  With no look of its own it saw that very row, or an
\* earlier write of its own transaction; where there is no row it inserts one.
Left(row, seen, stored, assigned) ==
    IF None \in {seen, stored} THEN row
    ELSE [x \in DOMAIN row |-> IF x \in assigned \/ row[x] # seen[x]
                               THEN row[x] ELSE stored[x]]

SaveRow(w, c, row, assigned) ==
    LET left == Left(row, looked[w][c], ar[c], assigned)
    IN  /\ ar' = [ar EXCEPT ![c] = left]
        /\ torn' = IF \E x \in {"totalSales", "totalCollected", "balance", "status"} :
                          left[x] # row[x]
                   THEN torn \cup {c} ELSE torn

ArgCollection(w) == [state |-> "live", cust |-> arg[w].cust, amt |-> arg[w].amt]

\* An id a database sequence may hand out next: never handed out before.
SpareCollection(k) == collection[k].state = "unused" /\ \A v \in Workers : arg[v].col # k
SpareInvoice(i) == invoice[i].state = "unused" /\ \A v \in Workers : arg[v].inv # i

\* Mutated: the row is locked as soon as it is read.
LockedFromRead(i, w) ==
    \E v \in Workers \ {w} :
        pc[v] \in {"updateInvoice.begin", "updateInvoice.commit"} /\ arg[v].inv = i

\* updateInvoice keeps its invoice row locked from its first write to commit.
LockedByOther(i, w) ==
    \E v \in Workers \ {w} : pc[v] = "updateInvoice.commit" /\ arg[v].inv = i

\* A step that ends the request saving the receivable it holds as `row`.
SaveAndFinish(w, step, row, assigned) ==
    /\ pc[w] = step
    /\ SaveRow(w, arg[w].cust, row, assigned)
    /\ Finish(w)
    /\ UNCHANGED <<invoice, collection, saleCancelled, today>>

\* createInvoice saves its row twice: the second time it finds its own write.
SavesOnce == {"collect.save", "collectByCustomer.commit", "updateCollection.save",
              "deleteCollection.save", "updateInvoice.commit", "deleteInvoice.commit",
              "updateIssuedAt.save", "updatePaymentTerms.save",
              "updateReceivableNotes.save", "updateWarningStatuses.loop"}

SavesInvoice == {"updateIssuedAt.write", "invoiceFlag.write"}
Commits == {"createInvoice.commit", "updateInvoice.commit", "deleteInvoice.commit"}

OtherAt(w, steps) == \E v \in Workers \ {w} : pc[v] \in steps

\* The look of a save is a step of its own when another request is about to
\* write: nothing else can tell it from the write.
Look(w, c) ==
    /\ pc[w] \in SavesOnce /\ held[w][c] # None /\ looked[w] = NoRows
    /\ OtherAt(w, SavesOnce \cup Commits)
    /\ looked' = [looked EXCEPT ![w][c] = ar[c]]
    /\ UNCHANGED <<db, pc, arg, held, heldInv, lookedInv, started>>

LookInvoice(w) ==
    /\ pc[w] \in SavesInvoice /\ lookedInv[w] = None
    /\ OtherAt(w, SavesInvoice \cup Commits)
    /\ lookedInv' = [lookedInv EXCEPT ![w] = invoice[arg[w].inv]]
    /\ UNCHANGED <<db, pc, arg, held, heldInv, looked, started>>

-----------------------------------------------------------------------------
(* ReceivablesService.collect                                              *)

Collectable(row, a) == a # 0 /\ (a > 0 => a <= row.balance)

CollectRead(w, c, k, a) ==
    /\ ar[c] # None /\ Collectable(ar[c], a)
    /\ SpareCollection(k)
    /\ Start(w, "collect.insert", [NoArg EXCEPT !.cust = c, !.col = k, !.amt = a])
    /\ Hold(w, c)
    /\ UNCHANGED <<db, heldInv>>

CollectInsert(w) ==
    /\ Goto(w, "collect.insert", "collect.save")
    /\ collection' = [collection EXCEPT ![arg[w].col] = ArgCollection(w)]
    /\ UNCHANGED <<ar, torn, invoice, saleCancelled, today, arg, held, heldInv>>

Counted == {"totalCollected", "balance"}

CollectSave(w) ==
    SaveAndFinish(w, "collect.save", Collected(HeldRow(w), arg[w].amt), Counted)

(* ReceivablesService.collectByCustomer: one transaction.                  *)

CollectByCustomerRead(w, c, k, a) ==
    /\ SpareCollection(k)
    /\ Start(w, "collectByCustomer.commit", [NoArg EXCEPT !.cust = c, !.col = k, !.amt = a])
    /\ Hold(w, c)
    /\ UNCHANGED <<db, heldInv>>

\* cu_id is unique: a row created meanwhile by another request aborts the
\* transaction that inserts one too.
RowAppearedMeanwhile(w) == HeldRow(w) = None /\ ar[arg[w].cust] # None

CollectByCustomerCommit(w) ==
    LET base == IF HeldRow(w) = None THEN EmptyRow ELSE HeldRow(w)
    IN  /\ pc[w] = "collectByCustomer.commit"
        /\ ~RowAppearedMeanwhile(w)
        /\ collection' = [collection EXCEPT ![arg[w].col] = ArgCollection(w)]
        /\ SaveRow(w, arg[w].cust, CollectedByCustomer(base, arg[w].amt), Counted)
        /\ Finish(w)
        /\ UNCHANGED <<invoice, saleCancelled, today>>

(* ReceivablesService.updateCollection                                     *)

UpdateCollectionRead(w, c, k, a) ==
    /\ ar[c] # None
    /\ Start(w, "updateCollection.find",
             [NoArg EXCEPT !.cust = c, !.col = k, !.amt = a])
    /\ Hold(w, c)
    /\ UNCHANGED <<db, heldInv>>

UpdateCollectionFind(w) ==
    LET k == arg[w].col
        diff == arg[w].amt - collection[k].amt
    IN  /\ Goto(w, "updateCollection.find", "updateCollection.write")
        /\ collection[k].state = "live" /\ collection[k].cust = arg[w].cust
        /\ arg[w].amt # 0
        /\ diff > 0 => HeldRow(w).balance - diff >= 0
        /\ arg' = [arg EXCEPT ![w].old = collection[k].amt]
        /\ UNCHANGED <<db, held, heldInv>>

\* save() re-inserts the row, with its id, when it sees that it was removed
\* meanwhile; one removed after the look stays so.
UpdateCollectionWrite(w) ==
    /\ Goto(w, "updateCollection.write", "updateCollection.save")
    /\ \/ collection' = [collection EXCEPT ![arg[w].col] = ArgCollection(w)]
       \/ collection[arg[w].col].state = "removed" /\ UNCHANGED collection
    /\ UNCHANGED <<ar, torn, invoice, saleCancelled, today, arg, held, heldInv>>

UpdateCollectionSave(w) ==
    SaveAndFinish(w, "updateCollection.save",
                  Corrected(HeldRow(w), arg[w].amt - arg[w].old), Counted)

(* ReceivablesService.deleteCollection                                     *)

DeleteCollectionRead(w, c, k) ==
    /\ ar[c] # None
    /\ Start(w, "deleteCollection.find", [NoArg EXCEPT !.cust = c, !.col = k])
    /\ Hold(w, c)
    /\ UNCHANGED <<db, heldInv>>

DeleteCollectionFind(w) ==
    LET k == arg[w].col IN
    /\ Goto(w, "deleteCollection.find", "deleteCollection.remove")
    /\ collection[k].state = "live" /\ collection[k].cust = arg[w].cust
    /\ arg' = [arg EXCEPT ![w].amt = collection[k].amt]
    /\ UNCHANGED <<db, held, heldInv>>

DeleteCollectionRemove(w) ==
    /\ Goto(w, "deleteCollection.remove", "deleteCollection.save")
    /\ collection' = [collection EXCEPT ![arg[w].col] =
                        [state |-> "removed", cust |-> None, amt |-> 0]]
    /\ UNCHANGED <<ar, torn, invoice, saleCancelled, today, arg, held, heldInv>>

DeleteCollectionSave(w) ==
    SaveAndFinish(w, "deleteCollection.save", Uncollected(HeldRow(w), arg[w].amt), Counted)

\* Either handler answers 404 or 400 when the collection is gone, belongs to
\* another receivable or would overdraw it.
CollectionRefused(w) ==
    LET k == arg[w].col
        diff == arg[w].amt - collection[k].amt
    IN  /\ pc[w] \in {"updateCollection.find", "deleteCollection.find"}
        /\ \/ collection[k].state # "live"
           \/ collection[k].cust # arg[w].cust
           \/ /\ pc[w] = "updateCollection.find"
              /\ \/ arg[w].amt = 0
                 \/ diff > 0 /\ HeldRow(w).balance - diff < 0
        /\ Finish(w)
        /\ UNCHANGED db

-----------------------------------------------------------------------------
(* InvoiceService.createInvoice: one transaction.                          *)

Sold == {"totalSales", "balance"}

CreateInvoiceRead(w, c, i, a, d) ==
    /\ SpareInvoice(i)
    /\ Start(w, "createInvoice.commit",
             [NoArg EXCEPT !.cust = c, !.inv = i, !.amt = a, !.day = d])
    /\ Hold(w, c)
    /\ UNCHANGED <<db, heldInv>>

\* The due date comes from all the invoices of the customer, deleted ones too:
\* find() ignores the `deletedAt: null` of its where clause.
CreateInvoiceCommit(w) ==
    LET c    == arg[w].cust
        row  == IF HeldRow(w) = None THEN FirstSaleRow(arg[w].amt)
                ELSE Resold(HeldRow(w), HeldRow(w).totalSales + arg[w].amt)
        others == {j \in InvoiceIds : invoice[j].state # "unused" /\ invoice[j].cust = c}
        dues == DueDates(others, row.terms) \cup {arg[w].day + row.terms}
    IN  /\ pc[w] = "createInvoice.commit"
        /\ ~RowAppearedMeanwhile(w)
        /\ invoice' = [invoice EXCEPT ![arg[w].inv] =
                         [state |-> "live", cust |-> c, receivable |-> c,
                          amt |-> arg[w].amt, issued |-> arg[w].day]]
        /\ \E d \in dues : IsLatest(d, dues) /\ SaveRow(w, c, [row EXCEPT !.due = d], Sold)
        /\ Finish(w)
        /\ UNCHANGED <<collection, saleCancelled, today>>

\* The insert of a second receivable row for the customer fails: rollback.
DuplicateRowRollback(w) ==
    /\ pc[w] \in {"collectByCustomer.commit", "createInvoice.commit"}
    /\ RowAppearedMeanwhile(w)
    /\ Finish(w)
    /\ UNCHANGED db

(* InvoiceService.updateInvoice: reads the invoice, deleted or not, before  *)
(* its transaction, which locks the row, then reads the receivable of the   *)
(* customer of the request.                                                 *)

\* Mutated: deleted invoices are found as well.
InDetailDeletedToo(i) == invoice[i].state # "unused"

\* The invoices the detail query of createInvoice and updateInvoice finds.
InDetail(i) == invoice[i].state = "live"

\* The edit form sends the customer of the items it lists.
UpdateInvoiceRead(w, i, c, a) ==
    /\ invoice[i].state # "unused"
    /\ MayChangeCustomer \/ c = invoice[i].cust
    /\ Start(w, "updateInvoice.begin",
             [NoArg EXCEPT !.cust = c, !.inv = i, !.amt = a, !.old = invoice[i].amt])
    /\ UNCHANGED <<db, held, heldInv>>

UpdateInvoiceBegin(w) ==
    /\ Goto(w, "updateInvoice.begin", "updateInvoice.commit")
    /\ ~LockedByOther(arg[w].inv, w)
    /\ Hold(w, arg[w].cust)
    /\ UNCHANGED <<db, arg, heldInv>>

\* The customer and amount change, the receivable link does not.
UpdateInvoiceCommit(w) ==
    LET i == arg[w].inv
        c == arg[w].cust
    IN  /\ pc[w] = "updateInvoice.commit"
        /\ InDetail(i)
        /\ invoice' = [invoice EXCEPT ![i].cust = c, ![i].amt = arg[w].amt]
        /\ IF HeldRow(w) = None THEN UNCHANGED <<ar, torn>>
           ELSE SaveRow(w, c, Resold(HeldRow(w),
                                     HeldRow(w).totalSales + (arg[w].amt - arg[w].old)), Sold)
        /\ Finish(w)
        /\ UNCHANGED <<collection, saleCancelled, today>>

\* The detail query that ends the transaction finds no deleted invoice and
\* throws, which rolls everything back.
UpdateInvoiceRollback(w) ==
    /\ pc[w] = "updateInvoice.commit"
    /\ ~InDetail(arg[w].inv)
    /\ Finish(w)
    /\ UNCHANGED db

(* InvoiceService.deleteInvoice: one transaction, soft delete.              *)

DeleteInvoiceRead(w, i) ==
    /\ invoice[i].state = "live"
    /\ Start(w, "deleteInvoice.find",
             [NoArg EXCEPT !.cust = invoice[i].receivable, !.inv = i, !.amt = invoice[i].amt])
    /\ UNCHANGED <<db, held, heldInv>>

\* Mutated: the invoice is marked deleted before the transaction.
DeletedBeforehand(w) ==
    /\ Goto(w, "deleteInvoice.find", "deleteInvoice.commit")
    /\ Hold(w, arg[w].cust)
    /\ invoice' = [invoice EXCEPT ![arg[w].inv].state = "deleted"]
    /\ UNCHANGED <<ar, torn, collection, saleCancelled, today, arg, heldInv>>

DeleteInvoiceFind(w) ==
    /\ Goto(w, "deleteInvoice.find", "deleteInvoice.commit")
    /\ Hold(w, arg[w].cust)
    /\ UNCHANGED <<db, arg, heldInv>>

DeleteInvoiceCommit(w) ==
    LET i == arg[w].inv
        rest == HeldRow(w).totalSales - arg[w].amt
    IN  /\ pc[w] = "deleteInvoice.commit"
        /\ ~LockedByOther(i, w)
        /\ IF HeldRow(w) = None THEN UNCHANGED <<ar, torn>>
           ELSE SaveRow(w, arg[w].cust, Resold(HeldRow(w), IF rest < 0 THEN 0 ELSE rest), Sold)
        /\ invoice' = [invoice EXCEPT ![i].state = "deleted"]
        /\ Finish(w)
        /\ UNCHANGED <<collection, saleCancelled, today>>

(* InvoiceService.updateIssuedAt: four awaits, no transaction.  The invoice  *)
(* is written back with the deletedAt it had when it was read.               *)

SaveInvoice(w, row) ==
    LET i == arg[w].inv
    IN  invoice' = [invoice EXCEPT ![i] = Left(row, lookedInv[w], invoice[i], {})]

UpdateIssuedAtRead(w, i, d) ==
    /\ invoice[i].state # "unused"
    /\ Start(w, "updateIssuedAt.write",
             [NoArg EXCEPT !.cust = invoice[i].cust, !.inv = i, !.day = d])
    /\ heldInv' = [heldInv EXCEPT ![w] = invoice[i]]
    /\ UNCHANGED <<db, held>>

UpdateIssuedAtWrite(w) ==
    /\ pc[w] = "updateIssuedAt.write" /\ pc' = [pc EXCEPT ![w] = "updateIssuedAt.find"]
    /\ ~LockedByOther(arg[w].inv, w)
    /\ SaveInvoice(w, [heldInv[w] EXCEPT !.issued = arg[w].day])
    /\ heldInv' = [heldInv EXCEPT ![w] = None]
    /\ lookedInv' = [lookedInv EXCEPT ![w] = None]
    /\ UNCHANGED <<ar, torn, collection, saleCancelled, today, arg, held, looked, started>>

UpdateIssuedAtFind(w) ==
    /\ Goto(w, "updateIssuedAt.find", "updateIssuedAt.save")
    /\ Hold(w, arg[w].cust)
    /\ UNCHANGED <<db, arg, heldInv>>

UpdateIssuedAtSave(w) ==
    LET c == arg[w].cust
        dues == DueDates(CountedInvoices(c), HeldRow(w).terms)
    IN  /\ pc[w] = "updateIssuedAt.save"
        /\ \/ /\ HeldRow(w) = None \/ CountedInvoices(c) = {}
              /\ UNCHANGED <<ar, torn>>
           \/ /\ HeldRow(w) # None
              /\ \E d \in dues :
                    IsLatest(d, dues) /\ SaveRow(w, c, [HeldRow(w) EXCEPT !.due = d], {})
        /\ Finish(w)
        /\ UNCHANGED <<invoice, collection, saleCancelled, today>>

(* updateEcountProcessingStatus and updateSmsNotApplicable: the invoice is   *)
(* read, one flag outside this model is set, and the row is saved.           *)

InvoiceFlagRead(w, i) ==
    /\ invoice[i].state # "unused"
    /\ Start(w, "invoiceFlag.write", [NoArg EXCEPT !.inv = i])
    /\ heldInv' = [heldInv EXCEPT ![w] = invoice[i]]
    /\ UNCHANGED <<db, held>>

InvoiceFlagWrite(w) ==
    /\ pc[w] = "invoiceFlag.write"
    /\ ~LockedByOther(arg[w].inv, w)
    /\ SaveInvoice(w, heldInv[w])
    /\ Finish(w)
    /\ UNCHANGED <<ar, torn, collection, saleCancelled, today>>

-----------------------------------------------------------------------------
(* ReceivablesService.updatePaymentTerms and updateReceivableNotes           *)

UpdatePaymentTermsRead(w, c, t) ==
    /\ ar[c] # None
    /\ Start(w, "updatePaymentTerms.save", [NoArg EXCEPT !.cust = c, !.day = t])
    /\ Hold(w, c)
    /\ UNCHANGED <<db, heldInv>>

UpdatePaymentTermsSave(w) ==
    LET t == arg[w].day
        dues == DueDates(CountedInvoices(arg[w].cust), t)
    IN  \E d \in dues \cup {None} :
            /\ IF dues = {} THEN d = None ELSE IsLatest(d, dues)
            /\ SaveAndFinish(w, "updatePaymentTerms.save",
                             [HeldRow(w) EXCEPT !.terms = t, !.due = d], {})

UpdateReceivableNotesRead(w, c) ==
    /\ ar[c] # None
    /\ Start(w, "updateReceivableNotes.save", [NoArg EXCEPT !.cust = c])
    /\ Hold(w, c)
    /\ UNCHANGED <<db, heldInv>>

UpdateReceivableNotesSave(w) ==
    SaveAndFinish(w, "updateReceivableNotes.save", HeldRow(w), {})

(* ReceivablesService.updateWarningStatuses: loads every unsettled           *)
(* receivable, then saves, one by one, those whose level has changed.        *)

Unsettled(c) == ar[c] # None /\ ar[c].status \in {"OUTSTANDING", "PARTIAL"}

\* Mutated: a level is only ever raised, never cleared.
WarningRaised(row, level) == row.due # None /\ row.warning # level /\ level # None
WarningStale(row, level) == row.due # None /\ row.warning # level

UpdateWarningStatusesRead(w) ==
    /\ Start(w, "updateWarningStatuses.loop", [NoArg EXCEPT !.day = today])
    /\ held' = [held EXCEPT ![w] = [c \in Customers |-> IF Unsettled(c) THEN ar[c] ELSE None]]
    /\ UNCHANGED <<db, heldInv>>

UpdateWarningStatusesStep(w, c) ==
    LET row   == held[w][c]
        level == WarningFor(arg[w].day - row.due)
    IN  /\ pc[w] = "updateWarningStatuses.loop" /\ row # None
        /\ looked[w] \in {NoRows, [NoRows EXCEPT ![c] = looked[w][c]]}
        /\ IF WarningStale(row, level) THEN SaveRow(w, c, [row EXCEPT !.warning = level], {})
           ELSE UNCHANGED <<ar, torn>>
        /\ held' = [held EXCEPT ![w][c] = None]
        /\ looked' = [looked EXCEPT ![w] = NoRows]
        /\ UNCHANGED <<invoice, collection, saleCancelled, today, pc, arg, heldInv, lookedInv,
                       started>>

UpdateWarningStatusesEnd(w) ==
    /\ pc[w] = "updateWarningStatuses.loop"
    /\ held[w] = NoRows
    /\ Finish(w)
    /\ UNCHANGED db

-----------------------------------------------------------------------------
(* The environment.                                                        *)

\* A request dies (process killed, connection lost, deadlock victim): what it
\* has already written outside a transaction stays.
Fail(w) ==
    /\ pc[w] \in FailingSteps /\ pc[w] # "idle"
    /\ Finish(w)
    /\ UNCHANGED db

\* SalesService.update cancels every item of the sale behind an invoice; the
\* receivable is not touched.
CancelSale(i) ==
    /\ MayCancelSale /\ invoice[i].state # "unused"
    /\ saleCancelled' = saleCancelled \cup {i}
    /\ UNCHANGED <<ar, torn, invoice, collection, today, pc, arg, held, heldInv, looked, lookedInv,
                   started>>

NextDay(d) ==
    /\ d > today /\ today' = d
    /\ UNCHANGED <<ar, torn, invoice, collection, saleCancelled, pc, arg, held, heldInv, looked,
                   lookedInv, started>>

-----------------------------------------------------------------------------
Init ==
    /\ ar = [c \in Customers |-> None]
    /\ invoice = [i \in InvoiceIds |->
                    [state |-> "unused", cust |-> None, receivable |-> None,
                     amt |-> 0, issued |-> 0]]
    /\ collection = [k \in CollectionIds |-> [state |-> "unused", cust |-> None, amt |-> 0]]
    /\ saleCancelled = {}
    /\ today \in Days
    /\ pc = [w \in Workers |-> "idle"]
    /\ arg = [w \in Workers |-> NoArg]
    /\ held = [w \in Workers |-> NoRows]
    /\ heldInv = [w \in Workers |-> None]
    /\ looked = [w \in Workers |-> NoRows]
    /\ lookedInv = [w \in Workers |-> None]
    /\ started = 0
    /\ torn = {}

\* A client sends a request.
Request(w) ==
    \/ \E c \in Customers, k \in CollectionIds :
          \/ \E a \in MoneyAmounts :
                \/ CollectRead(w, c, k, a)
                \/ CollectByCustomerRead(w, c, k, a)
                \/ UpdateCollectionRead(w, c, k, a)
          \/ DeleteCollectionRead(w, c, k)
    \/ \E c \in Customers, i \in InvoiceIds, a \in InvoiceAmounts :
          \/ \E d \in Days : CreateInvoiceRead(w, c, i, a, d)
          \/ UpdateInvoiceRead(w, i, c, a)
    \/ \E i \in InvoiceIds :
          \/ DeleteInvoiceRead(w, i) \/ InvoiceFlagRead(w, i)
          \/ \E d \in Days : UpdateIssuedAtRead(w, i, d)
    \/ \E c \in Customers :
          \/ UpdateReceivableNotesRead(w, c)
          \/ \E t \in PaymentTerms : UpdatePaymentTermsRead(w, c, t)
    \/ UpdateWarningStatusesRead(w)

\* The server carries a request on.
Proceed(w) ==
    \/ LookInvoice(w) \/ \E c \in Customers : Look(w, c)
    \/ CollectInsert(w) \/ CollectSave(w) \/ CollectByCustomerCommit(w)
    \/ UpdateCollectionFind(w) \/ UpdateCollectionWrite(w) \/ UpdateCollectionSave(w)
    \/ DeleteCollectionFind(w) \/ DeleteCollectionRemove(w) \/ DeleteCollectionSave(w)
    \/ CollectionRefused(w)
    \/ CreateInvoiceCommit(w) \/ DuplicateRowRollback(w)
    \/ UpdateInvoiceBegin(w) \/ UpdateInvoiceCommit(w) \/ UpdateInvoiceRollback(w)
    \/ DeleteInvoiceFind(w) \/ DeleteInvoiceCommit(w)
    \/ UpdateIssuedAtWrite(w) \/ UpdateIssuedAtFind(w) \/ UpdateIssuedAtSave(w)
    \/ InvoiceFlagWrite(w)
    \/ UpdatePaymentTermsSave(w) \/ UpdateReceivableNotesSave(w)
    \/ \E c \in Customers : UpdateWarningStatusesStep(w, c)
    \/ UpdateWarningStatusesEnd(w)

Next ==
    \/ \E w \in Workers : Request(w) \/ Proceed(w) \/ Fail(w)
    \/ \E i \in InvoiceIds : CancelSale(i)
    \/ \E d \in Days : NextDay(d)

Spec == Init /\ [][Next]_vars
FairSpec == Spec /\ \A w \in Workers : WF_vars(Proceed(w))
-----------------------------------------------------------------------------
(* Properties.                                                             *)

TypeOK ==
    /\ ar \in [Customers -> Row \cup {None}]
    /\ invoice \in [InvoiceIds -> Invoice]
    /\ collection \in [CollectionIds -> Collection]
    /\ saleCancelled \subseteq InvoiceIds
    /\ today \in Days
    /\ pc \in [Workers -> Step]
    /\ arg \in [Workers -> Arg]
    /\ held \in [Workers -> [Customers -> Row \cup {None}]]
    /\ heldInv \in [Workers -> Invoice \cup {None}]
    /\ looked \in [Workers -> [Customers -> Row \cup {None}]]
    /\ lookedInv \in [Workers -> Invoice \cup {None}]
    /\ started \in 0 .. MaxRequests
    /\ torn \subseteq Customers

RowNotUnderstated(row) == row.balance >= row.totalSales - row.totalCollected

\* Whatever requests overlap or die, and however stale the row they write
\* back, a receivable never shows less than its sales minus its collections
\* (deleteCollection clamps the collected total at 0 but not the balance),
\* unless two saves have each written some of its columns: a collect that
\* looks before an invoice is committed and writes after it leaves the sales
\* of the one beside the balance of the other.
BalanceNotUnderstated ==
    \A c \in Customers \ torn : ar[c] # None => RowNotUnderstated(ar[c])

RowStatusAgrees(row) ==
    /\ row.status = "COMPLETED" => row.balance <= 0
    /\ row.status = "PARTIAL" => row.balance > 0 /\ row.totalCollected > 0

\* A receivable with money owed on it is never COMPLETED, which would take it
\* out of the warning batch for good, and PARTIAL means a part has been paid,
\* but for a row that two saves have each written a part of.
StatusAgreesWithBalance ==
    \A c \in Customers \ torn : ar[c] # None => RowStatusAgrees(ar[c])

Total(f, ids) == FoldFunctionOnSet(+, 0, [x \in ids |-> f[x].amt], ids)
LiveOf(f, owner(_), c) == {x \in DOMAIN f : f[x].state = "live" /\ owner(x) = c}

InvoicesOf(c) == LiveOf(invoice, LAMBDA i : invoice[i].receivable, c)
CollectionsOf(c) == LiveOf(collection, LAMBDA k : collection[k].cust, c)

\* With requests one at a time, even dying midway, the sales total of a
\* customer is the sum of its live invoices: the invoice handlers post to the
\* receivable in the transaction that writes the invoice.
SalesConserved ==
    \A c \in Customers :
        Total(invoice, InvoicesOf(c)) = IF ar[c] = None THEN 0 ELSE ar[c].totalSales

Idle == \A w \in Workers : pc[w] = "idle"

\* With requests one at a time that all complete and no refunds, the collected
\* total is the sum of the collection rows and the balance is what is owed.
CollectedConserved ==
    Idle => \A c \in Customers : ar[c] # None =>
        /\ ar[c].totalCollected = Total(collection, CollectionsOf(c))
        /\ ar[c].balance = ar[c].totalSales - ar[c].totalCollected

BillView ==
    [i \in InvoiceIds |-> IF invoice[i].state # "live" THEN None
                          ELSE [cust |-> invoice[i].receivable, amt |-> invoice[i].amt]]

\* A collection written by a request that has not saved the receivable yet is
\* seen as it was before.
PaidView ==
    [k \in CollectionIds |->
        LET pending == {w \in Workers : arg[w].col = k /\ pc[w] \in
              {"collect.save", "updateCollection.save", "deleteCollection.save"}}
            Before(w) ==
              IF pc[w] = "collect.save" THEN None
              ELSE [cust |-> arg[w].cust, amt |-> IF pc[w] = "updateCollection.save"
                                                  THEN arg[w].old ELSE arg[w].amt]
        IN  IF pending # {} THEN Before(CHOOSE w \in pending : TRUE)
            ELSE IF collection[k].state # "live" THEN None
            ELSE [cust |-> collection[k].cust, amt |-> collection[k].amt]]

AccountView ==
    [c \in Customers |-> IF ar[c] = None THEN None
                         ELSE [sales |-> ar[c].totalSales, collected |-> ar[c].totalCollected,
                               balance |-> ar[c].balance]]

Book == INSTANCE AccountBook WITH bill <- BillView, paid <- PaidView, account <- AccountView

\* With requests one at a time that all complete and no refunds, each handler
\* is one posting to the account of its customer, however many rows it writes
\* and in however many steps.
ImplementsBook == Book!Spec

\* With requests one at a time, the due date the warnings count from is never
\* earlier than the due date of an invoice that still counts.
DueCoversLiveInvoices ==
    Idle => \A c \in Customers : \A i \in CountedInvoices(c) :
        ar[c] # None /\ ar[c].due # None /\ ar[c].due >= invoice[i].issued + ar[c].terms

\* With requests one at a time, no handler changes the customer or the amount
\* of a deleted invoice or brings it back: updateInvoice has no check of its
\* own and depends on its last query to roll back.
DeletedInvoiceFrozen ==
    [][\A i \in InvoiceIds : invoice[i].state = "deleted" =>
           invoice'[i] = [invoice[i] EXCEPT !.issued = invoice'[i].issued]]_vars

\* With requests one at a time, a batch run leaves every receivable it covers
\* with the level its due date calls for, a level to be cleared included.
BatchLeavesNoStaleWarning ==
    [][\A w \in Workers : UpdateWarningStatusesEnd(w) =>
           \A c \in Customers : Unsettled(c) /\ ar[c].due # None =>
               ar[c].warning = WarningFor(arg[w].day - ar[c].due)]_vars

\* Every request ends, those that wait for a row lock too.
RequestsEnd == \A w \in Workers : pc[w] # "idle" ~> pc[w] = "idle"

\* The currentBalance of getCustomerLedger.
LedgerBalance(c) ==
    Total(invoice, CountedInvoices(c)) - Total(collection, CollectionsOf(c))

\* getCustomerLedger says it selects on the same basis as the balance shown in
\* the receivable's detail.
LedgerMatchesDetail ==
    Idle => \A c \in Customers : ar[c] # None => ar[c].balance = LedgerBalance(c)
=============================================================================
