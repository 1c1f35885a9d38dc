------------------------ MODULE ReceivableLedgerProofs ------------------------
(***************************************************************************)
(* Theorems about ReceivableLedger for any workers, customers, amounts and *)
(* terms.                                                                  *)
(*                                                                         *)
(* First what holds however requests overlap and die.  What is inductive   *)
(* is not a fact about the receivables alone: a stale row held by a worker *)
(* is written back later, so every row in memory has to be good as well,   *)
(* and each step that uses a held row has to have one.  A customer whose   *)
(* row was left part by one save and part by another is out of it.         *)
(*                                                                         *)
(* Then what holds with one request at a time (OneAtATime): what a request *)
(* has read is what the database still holds.  From this follow the two    *)
(* action properties, the due date and, with sums over the rows of a       *)
(* customer, the totals and the refinement of AccountBook.                 *)
(***************************************************************************)
EXTENDS ReceivableLedger, FiniteSetTheorems, WellFoundedInduction, TLAPS

GoodRow(row) == RowNotUnderstated(row) /\ RowStatusAgrees(row)
Known(v) == v.state # "unused" /\ v.cust \in Customers /\ v.receivable \in Customers
GoodInvoice(v) == v.state # "unused" => Known(v)

DbOK ==
    /\ ar \in [Customers -> Row \cup {None}]
    /\ torn \subseteq Customers
    /\ invoice \in [InvoiceIds -> Invoice]
    /\ \A i \in InvoiceIds : GoodInvoice(invoice[i])
    /\ collection \in [CollectionIds -> Collection]
    /\ saleCancelled \subseteq InvoiceIds
    /\ today \in Days

NeedsRow == {"collect.insert", "collect.save",
             "updateCollection.find", "updateCollection.write", "updateCollection.save",
             "deleteCollection.find", "deleteCollection.remove", "deleteCollection.save",
             "updatePaymentTerms.save", "updateReceivableNotes.save"}
NeedsCustomer == NeedsRow \cup
            {"collectByCustomer.commit", "createInvoice.commit",
             "updateInvoice.begin", "updateInvoice.commit",
             "deleteInvoice.find", "deleteInvoice.commit",
             "updateIssuedAt.write", "updateIssuedAt.find", "updateIssuedAt.save"}
NeedsInvoice == {"updateIssuedAt.write", "invoiceFlag.write"}
NeedsCollectionId == {"updateCollection.find", "updateCollection.write",
                      "deleteCollection.find", "deleteCollection.remove"}
NeedsInvoiceId == {"updateInvoice.begin", "updateInvoice.commit",
                   "deleteInvoice.find", "deleteInvoice.commit",
                   "updateIssuedAt.write", "invoiceFlag.write"}

\* What a worker at step p with argument a may count on in its memory.
ProgressOK(p, a, h, hi) ==
    /\ hi # None => Known(hi)
    /\ p \in NeedsCustomer => a.cust \in Customers
    /\ p \in NeedsRow => h[a.cust] # None
    /\ p \in NeedsInvoice => hi # None
    /\ p \in NeedsCollectionId => a.col \in CollectionIds
    /\ p \in NeedsInvoiceId => a.inv \in InvoiceIds
    /\ p = "updatePaymentTerms.save" => a.day \in Nat

WorkersOK ==
    /\ pc \in [Workers -> Step]
    /\ arg \in [Workers -> Arg]
    /\ held \in [Workers -> [Customers -> Row \cup {None}]]
    /\ heldInv \in [Workers -> Invoice \cup {None}]
    /\ started \in 0 .. MaxRequests
    /\ \A w \in Workers : ProgressOK(pc[w], arg[w], held[w], heldInv[w])

\* Every row, stored or held, of a customer whose row is not torn is good.
GoodFor(c, row) == c \in torn \/ GoodRow(row)
RowsOK ==
    \A c \in Customers :
        /\ ar[c] # None => GoodFor(c, ar[c])
        /\ \A w \in Workers : held[w][c] # None => GoodFor(c, held[w][c])

LooksOK ==
    /\ looked \in [Workers -> [Customers -> Row \cup {None}]]
    /\ lookedInv \in [Workers -> Invoice \cup {None}]

\* deleteInvoice and the two saves of an invoice write a row that was read,
\* not a row of their own making.
Deleting == {"deleteInvoice.find", "deleteInvoice.commit"}
Rewriting == Deleting \cup NeedsInvoice
RewritersOK ==
    \A w \in Workers : pc[w] \in Rewriting => invoice[arg[w].inv].state # "unused"

LInv == DbOK /\ WorkersOK /\ RowsOK
IInv == LInv /\ RewritersOK /\ LooksOK

-----------------------------------------------------------------------------
(* What the handlers compute keeps a row good.                             *)

LEMMA StatusAfterType ==
    ASSUME NEW b \in Int, NEW n \in Int PROVE StatusAfter(b, n) \in Status
BY DEF StatusAfter, Status

LEMMA CollectedGood ==
    ASSUME NEW row \in Row, NEW a \in Int
    PROVE  Collected(row, a) \in Row /\ (GoodRow(row) => GoodRow(Collected(row, a)))
<1> DEFINE tc == row.totalCollected + a
           b  == row.balance - a
           n  == tc
<1>1. tc \in Int /\ b \in Int /\ n \in Int BY DEF Row
<1>2. StatusAfter(b, n) \in Status BY <1>1, StatusAfterType
<1>3. None \in Warning BY DEF Warning
<1>4. Collected(row, a) \in Row BY <1>1, <1>2, <1>3 DEF Collected, Row
<1>5. GoodRow(row) => GoodRow(Collected(row, a))
    BY SMT DEF Collected, Row, GoodRow, RowNotUnderstated, RowStatusAgrees, StatusAfter, Status, Warning
<1> QED BY <1>4, <1>5

LEMMA CollectedByCustomerGood ==
    ASSUME NEW row \in Row, NEW a \in Int
    PROVE  CollectedByCustomer(row, a) \in Row /\ GoodRow(CollectedByCustomer(row, a))
<1> DEFINE tc == row.totalCollected + a
           b  == row.totalSales - tc
           n  == tc
<1>1. tc \in Int /\ b \in Int /\ n \in Int BY DEF Row
<1>2. StatusAfter(b, n) \in Status BY <1>1, StatusAfterType
<1>3. None \in Warning BY DEF Warning
<1>4. CollectedByCustomer(row, a) \in Row BY <1>1, <1>2, <1>3 DEF CollectedByCustomer, Row
<1>5. GoodRow(CollectedByCustomer(row, a))
    BY SMT DEF CollectedByCustomer, Row, GoodRow, RowNotUnderstated, RowStatusAgrees, StatusAfter, Status, Warning
<1> QED BY <1>4, <1>5

LEMMA CorrectedGood ==
    ASSUME NEW row \in Row, NEW a \in Int
    PROVE  Corrected(row, a) \in Row /\ (GoodRow(row) => GoodRow(Corrected(row, a)))
<1> DEFINE tc == row.totalCollected + a
           b  == row.balance - a
           n  == IF row.totalSales > 0 THEN tc ELSE 0
<1>1. tc \in Int /\ b \in Int /\ n \in Int BY DEF Row
<1>2. StatusAfter(b, n) \in Status BY <1>1, StatusAfterType
<1>3. None \in Warning BY DEF Warning
<1>4. Corrected(row, a) \in Row BY <1>1, <1>2, <1>3 DEF Corrected, Row
<1>5. GoodRow(row) => GoodRow(Corrected(row, a))
    BY SMT DEF Corrected, Row, GoodRow, RowNotUnderstated, RowStatusAgrees, StatusAfter, Status, Warning
<1> QED BY <1>4, <1>5

LEMMA UncollectedGood ==
    ASSUME NEW row \in Row, NEW a \in Int
    PROVE  Uncollected(row, a) \in Row /\ (GoodRow(row) => GoodRow(Uncollected(row, a)))
<1> DEFINE tc == row.totalCollected - a
           b  == row.balance + a
           n  == IF row.totalSales > 0 THEN tc ELSE 0
           m  == IF tc < 0 THEN 0 ELSE tc
<1>1. tc \in Int /\ b \in Int /\ n \in Int /\ m \in Int BY DEF Row
<1>2. StatusAfter(b, n) \in Status BY <1>1, StatusAfterType
<1>3. None \in Warning BY DEF Warning
<1>4. Uncollected(row, a) \in Row BY <1>1, <1>2, <1>3 DEF Uncollected, Row
<1>5. GoodRow(row) => GoodRow(Uncollected(row, a))
    BY SMT DEF Uncollected, Row, GoodRow, RowNotUnderstated, RowStatusAgrees, StatusAfter, Status, Warning
<1> QED BY <1>4, <1>5

LEMMA ResoldGood ==
    ASSUME NEW row \in Row, NEW a \in Int
    PROVE  Resold(row, a) \in Row /\ GoodRow(Resold(row, a))
<1> DEFINE tc == row.totalCollected
           b  == a - tc
           n  == tc
<1>1. tc \in Int /\ b \in Int /\ n \in Int BY DEF Row
<1>2. StatusAfter(b, n) \in Status BY <1>1, StatusAfterType
<1>3. None \in Warning BY DEF Warning
<1>4. Resold(row, a) \in Row BY <1>1, <1>2, <1>3 DEF Resold, Row
<1>5. GoodRow(Resold(row, a))
    BY SMT DEF Resold, Row, GoodRow, RowNotUnderstated, RowStatusAgrees, StatusAfter, Status, Warning
<1> QED BY <1>4, <1>5

LEMMA EmptyRowGood == EmptyRow \in Row /\ GoodRow(EmptyRow)
BY SMT DEF EmptyRow, Row, GoodRow, RowNotUnderstated, RowStatusAgrees, Status, Warning, DefaultTerms

LEMMA FirstSaleRowGood ==
    ASSUME NEW a \in Int
    PROVE  FirstSaleRow(a) \in Row /\ GoodRow(FirstSaleRow(a))
<1>1. FirstSaleRow(a) \in Row BY EmptyRowGood DEF FirstSaleRow, Row
<1>2. GoodRow(FirstSaleRow(a))
    BY SMT DEF FirstSaleRow, EmptyRow, GoodRow, RowNotUnderstated, RowStatusAgrees
<1> QED BY <1>1, <1>2

\* Fields that the properties do not read may change freely.
LEMMA DatedGood ==
    ASSUME NEW row \in Row, NEW t \in Nat, NEW d \in Int \cup {None}
    PROVE  /\ [row EXCEPT !.terms = t, !.due = d] \in Row
           /\ GoodRow(row) => GoodRow([row EXCEPT !.terms = t, !.due = d])
           /\ [row EXCEPT !.due = d] \in Row
           /\ GoodRow(row) => GoodRow([row EXCEPT !.due = d])
<1>1. [row EXCEPT !.terms = t, !.due = d] \in Row BY DEF Row
<1>2. GoodRow(row) => GoodRow([row EXCEPT !.terms = t, !.due = d])
    BY DEF Row, GoodRow, RowNotUnderstated, RowStatusAgrees
<1>3. [row EXCEPT !.due = d] \in Row BY DEF Row
<1>4. GoodRow(row) => GoodRow([row EXCEPT !.due = d])
    BY DEF Row, GoodRow, RowNotUnderstated, RowStatusAgrees
<1> QED BY <1>1, <1>2, <1>3, <1>4

LEMMA WarnedGood ==
    ASSUME NEW row \in Row, NEW l \in Warning
    PROVE  /\ [row EXCEPT !.warning = l] \in Row
           /\ GoodRow(row) => GoodRow([row EXCEPT !.warning = l])
BY SMT DEF Row, GoodRow, RowNotUnderstated, RowStatusAgrees

LEMMA WarningForType == ASSUME NEW d PROVE WarningFor(d) \in Warning
BY SMT DEF WarningFor, Warning

LEMMA DueDatesType ==
    ASSUME DbOK, NEW is \in SUBSET InvoiceIds, NEW t \in Nat
    PROVE  DueDates(is, t) \subseteq Int
BY SMT DEF DueDates, DbOK, Invoice

-----------------------------------------------------------------------------
(* A step of one worker leaves the others as they were.                    *)

Rows == [Customers -> Row \cup {None}]

LEMMA NoArgType == NoArg \in Arg /\ NoRows \in Rows
BY DEF NoArg, Arg, NoRows, Rows

LEMMA OthersKept ==
    ASSUME WorkersOK, NEW w \in Workers,
           NEW p \in Step, NEW a \in Arg, NEW h \in Rows, NEW hi \in Invoice \cup {None},
           ProgressOK(p, a, h, hi),
           pc' = [pc EXCEPT ![w] = p], arg' = [arg EXCEPT ![w] = a],
           held' = [held EXCEPT ![w] = h], heldInv' = [heldInv EXCEPT ![w] = hi],
           started' \in 0 .. MaxRequests
    PROVE  WorkersOK'
<1>1. /\ pc' \in [Workers -> Step]
      /\ arg' \in [Workers -> Arg]
      /\ held' \in [Workers -> [Customers -> Row \cup {None}]]
      /\ heldInv' \in [Workers -> Invoice \cup {None}]
    BY DEF WorkersOK, Rows
<1>2. ASSUME NEW v \in Workers PROVE ProgressOK(pc'[v], arg'[v], held'[v], heldInv'[v])
  <2>1. CASE v = w BY <2>1 DEF WorkersOK, Rows
  <2>2. CASE v # w
    <3>1. /\ pc'[v] = pc[v] /\ arg'[v] = arg[v]
          /\ held'[v] = held[v] /\ heldInv'[v] = heldInv[v]
        BY <2>2 DEF WorkersOK
    <3> QED BY <3>1 DEF WorkersOK
  <2> QED BY <2>1, <2>2
<1> QED BY <1>1, <1>2 DEF WorkersOK, ProgressOK

LEMMA FinishKeeps ==
    ASSUME WorkersOK, NEW w \in Workers, Finish(w)
    PROVE  WorkersOK'
<1>1. ProgressOK("idle", NoArg, NoRows, None)
    BY DEF ProgressOK, NoRows, NeedsRow, NeedsCustomer, NeedsInvoice, NeedsCollectionId,
           NeedsInvoiceId
<1>2. "idle" \in Step BY DEF Step
<1>3. started' \in 0 .. MaxRequests BY DEF Finish, WorkersOK
<1> QED BY <1>1, <1>2, <1>3, NoArgType, OthersKept DEF Finish

\* A request that starts by holding the receivable of its customer.
LEMMA StartHolding ==
    ASSUME LInv, NEW w \in Workers, NEW p \in Step, NEW a \in Arg, NEW c \in Customers,
           Start(w, p, a), Hold(w, c), heldInv' = heldInv, a.cust = c,
           p \in NeedsRow => ar[c] # None,
           p \notin NeedsInvoice, p \notin NeedsInvoiceId,
           p \in NeedsCollectionId => a.col \in CollectionIds,
           p = "updatePaymentTerms.save" => a.day \in Nat
    PROVE  WorkersOK'
<1> DEFINE h == [NoRows EXCEPT ![c] = ar[c]]
<1>1. h \in Rows BY NoArgType DEF Rows, LInv, DbOK
<1>3. h[c] = ar[c] BY NoArgType DEF Rows
<1>4. heldInv[w] \in Invoice \cup {None} /\ (heldInv[w] # None => Known(heldInv[w]))
    BY DEF LInv, WorkersOK, ProgressOK
<1>5. ProgressOK(p, a, h, heldInv[w]) BY <1>3, <1>4 DEF ProgressOK
<1>6. heldInv' = [heldInv EXCEPT ![w] = heldInv[w]] BY DEF LInv, WorkersOK
<1>7. started' \in 0 .. MaxRequests
    BY LedgerAssumption DEF Start, LInv, WorkersOK
<1> QED BY <1>1, <1>4, <1>5, <1>6, <1>7, OthersKept DEF Start, Hold, LInv

\* A step that only moves on, or changes fields of the argument nothing needs.
LEMMA GotoKeeps ==
    ASSUME LInv, NEW w \in Workers, NEW from, NEW p \in Step, NEW a \in Arg,
           Goto(w, from, p), arg' = [arg EXCEPT ![w] = a], a.cust = arg[w].cust,
           a.col = arg[w].col, a.inv = arg[w].inv, held' = held, heldInv' = heldInv,
           p \in NeedsCollectionId => from \in NeedsCollectionId, p \notin NeedsInvoiceId,
           p \in NeedsRow => from \in NeedsRow, p \in NeedsCustomer => from \in NeedsCustomer,
           p \notin NeedsInvoice, p # "updatePaymentTerms.save"
    PROVE  WorkersOK'
<1>1. ProgressOK(p, a, held[w], heldInv[w]) BY DEF LInv, WorkersOK, ProgressOK, Goto
<1>2. /\ held' = [held EXCEPT ![w] = held[w]] /\ heldInv' = [heldInv EXCEPT ![w] = heldInv[w]]
      /\ held[w] \in Rows /\ heldInv[w] \in Invoice \cup {None}
    BY DEF LInv, WorkersOK, Rows
<1>3. started' \in 0 .. MaxRequests BY DEF Goto, LInv, WorkersOK
<1>4. WorkersOK /\ pc' = [pc EXCEPT ![w] = p] BY DEF Goto, LInv
<1> QED BY <1>1, <1>2, <1>3, <1>4, OthersKept, ZenonT(30)

\* A step of a transaction that reads the receivable it will post to.
LEMMA GotoHolding ==
    ASSUME LInv, NEW w \in Workers, NEW from \in NeedsCustomer, NEW p \in Step,
           Goto(w, from, p), arg' = arg, Hold(w, arg[w].cust), heldInv' = heldInv,
           p \notin NeedsRow, p \notin NeedsInvoice, p \notin NeedsCollectionId,
           p \in NeedsInvoiceId => from \in NeedsInvoiceId
    PROVE  WorkersOK'
<1> DEFINE c == arg[w].cust
           h == [NoRows EXCEPT ![c] = ar[c]]
<1>1. c \in Customers BY DEF LInv, WorkersOK, ProgressOK, Goto
<1>2. h \in Rows BY <1>1, NoArgType DEF Rows, LInv, DbOK
<1>4. heldInv[w] \in Invoice \cup {None} /\ (heldInv[w] # None => Known(heldInv[w]))
    BY DEF LInv, WorkersOK, ProgressOK
<1>5. p # "updatePaymentTerms.save" BY DEF NeedsRow
<1>0. p \in NeedsInvoiceId => arg[w].inv \in InvoiceIds
    BY DEF LInv, WorkersOK, ProgressOK, Goto
<1>6. ProgressOK(p, arg[w], h, heldInv[w]) BY <1>0, <1>1, <1>4, <1>5 DEF ProgressOK
<1>7. /\ arg' = [arg EXCEPT ![w] = arg[w]] /\ heldInv' = [heldInv EXCEPT ![w] = heldInv[w]]
      /\ arg[w] \in Arg
    BY DEF LInv, WorkersOK
<1>8. started' \in 0 .. MaxRequests BY DEF Goto, LInv, WorkersOK
<1>9. WorkersOK /\ pc' = [pc EXCEPT ![w] = p] /\ held' = [held EXCEPT ![w] = h]
    BY DEF Goto, Hold, LInv
<1> HIDE DEF h
<1> QED BY <1>2, <1>4, <1>6, <1>7, <1>8, <1>9, OthersKept, ZenonT(30)

\* What a worker may hold next: what it held, what is stored, or nothing.
Loads ==
    \A v \in Workers, c \in Customers : held'[v][c] \in {None, ar[c], held[v][c]}

LEMMA KeepsLoads == ASSUME held' = held PROVE Loads
BY DEF Loads

LEMMA HoldLoads ==
    ASSUME WorkersOK, NEW w \in Workers, NEW c, Hold(w, c) PROVE Loads
<1> SUFFICES ASSUME NEW v \in Workers, NEW d \in Customers
             PROVE  held'[v][d] \in {None, ar[d], held[v][d]}
    BY DEF Loads
<1>1. CASE v = w BY <1>1 DEF WorkersOK, Hold, NoRows
<1>2. CASE v # w BY <1>2 DEF WorkersOK, Hold
<1> QED BY <1>1, <1>2

LEMMA FinishLoads ==
    ASSUME WorkersOK, NEW w \in Workers, Finish(w) PROVE Loads
<1> SUFFICES ASSUME NEW v \in Workers, NEW d \in Customers
             PROVE  held'[v][d] \in {None, ar[d], held[v][d]}
    BY DEF Loads
<1>1. CASE v = w BY <1>1 DEF WorkersOK, Finish, NoRows
<1>2. CASE v # w BY <1>2 DEF WorkersOK, Finish
<1> QED BY <1>1, <1>2

LEMMA LoadsKeepRows ==
    ASSUME RowsOK, UNCHANGED <<ar, torn>>, Loads PROVE RowsOK'
<1> SUFFICES ASSUME NEW c \in Customers
             PROVE  /\ ar'[c] # None => GoodFor(c, ar[c])
                    /\ \A w \in Workers : held'[w][c] # None => GoodFor(c, held'[w][c])
    BY DEF RowsOK, GoodFor
<1> QED BY DEF RowsOK, Loads

\* What a save leaves is a row, whatever it saw.
LEMMA LeftType ==
    ASSUME NEW row \in Row, NEW seen, NEW stored \in Row \cup {None}, NEW assigned
    PROVE  Left(row, seen, stored, assigned) \in Row
<1>1. CASE None \in {seen, stored} BY <1>1 DEF Left
<1>2. CASE None \notin {seen, stored}
  <2> DEFINE P(x) == x \in assigned \/ row[x] # seen[x]
  <2>1. stored \in Row BY <1>2
  <2>2. Left(row, seen, stored, assigned) =
          [x \in DOMAIN row |-> IF P(x) THEN row[x] ELSE stored[x]]
      BY <1>2 DEF Left
  <2> HIDE DEF P
  <2>3. DOMAIN row = {"totalSales", "totalCollected", "balance", "status", "warning", "terms",
                      "due"}
      BY DEF Row
  <2>4. Left(row, seen, stored, assigned) =
          [totalSales |-> IF P("totalSales") THEN row.totalSales ELSE stored.totalSales,
           totalCollected |-> IF P("totalCollected") THEN row.totalCollected
                              ELSE stored.totalCollected,
           balance |-> IF P("balance") THEN row.balance ELSE stored.balance,
           status |-> IF P("status") THEN row.status ELSE stored.status,
           warning |-> IF P("warning") THEN row.warning ELSE stored.warning,
           terms |-> IF P("terms") THEN row.terms ELSE stored.terms,
           due |-> IF P("due") THEN row.due ELSE stored.due]
      BY <2>2, <2>3
  <2> QED BY <2>1, <2>4 DEF Row
<1> QED BY <1>1, <1>2

\* What an invoice is left as is an invoice with its customers, when the row
\* held and the row stored are.
LEMMA LeftInvoice ==
    ASSUME NEW v \in Invoice, NEW stored \in Invoice, Known(v), Known(stored),
           NEW seen, NEW assigned
    PROVE  Left(v, seen, stored, assigned) \in Invoice /\ Known(Left(v, seen, stored, assigned))
<1>1. CASE None \in {seen, stored} BY <1>1 DEF Left
<1>2. CASE None \notin {seen, stored}
  <2> DEFINE P(x) == x \in assigned \/ v[x] # seen[x]
  <2>2. Left(v, seen, stored, assigned) =
          [x \in DOMAIN v |-> IF P(x) THEN v[x] ELSE stored[x]]
      BY <1>2 DEF Left
  <2> HIDE DEF P
  <2>3. DOMAIN v = {"state", "cust", "receivable", "amt", "issued"} BY DEF Invoice
  <2>4. Left(v, seen, stored, assigned) =
          [state |-> IF P("state") THEN v.state ELSE stored.state,
           cust |-> IF P("cust") THEN v.cust ELSE stored.cust,
           receivable |-> IF P("receivable") THEN v.receivable ELSE stored.receivable,
           amt |-> IF P("amt") THEN v.amt ELSE stored.amt,
           issued |-> IF P("issued") THEN v.issued ELSE stored.issued]
      BY <2>2, <2>3
  <2> QED BY <2>4 DEF Invoice, Known
<1> QED BY <1>1, <1>2

\* Saving a row.
LEMMA SaveRowKeeps ==
    ASSUME DbOK, NEW w, NEW c \in Customers, NEW row \in Row, NEW assigned,
           SaveRow(w, c, row, assigned)
    PROVE  ar' \in [Customers -> Row \cup {None}] /\ torn' \subseteq Customers
<1>0. PICK left : left = Left(row, looked[w][c], ar[c], assigned) OBVIOUS
<1>1. left \in Row BY <1>0, LeftType DEF DbOK
<1>4. ar' = [ar EXCEPT ![c] = left] BY <1>0 DEF SaveRow
<1>2. ar' \in [Customers -> Row \cup {None}] BY <1>1, <1>4 DEF DbOK
<1>5. torn' \in {torn, torn \cup {c}} BY DEF SaveRow
<1>3. torn' \subseteq Customers BY <1>5 DEF DbOK
<1> QED BY <1>2, <1>3

\* Saving a good row: what is left is as good as far as it counts, or torn.
LEMMA SaveKeepsRows ==
    ASSUME DbOK, RowsOK, Loads, NEW w, NEW c \in Customers, NEW row \in Row, GoodFor(c, row),
           NEW assigned, SaveRow(w, c, row, assigned)
    PROVE  RowsOK'
<1>0. PICK left : left = Left(row, looked[w][c], ar[c], assigned) OBVIOUS
<1>1. torn \subseteq torn' BY DEF SaveRow
<1>2. ar' = [ar EXCEPT ![c] = left] BY <1>0 DEF SaveRow
<1>3. c \notin torn' => /\ left.totalSales = row.totalSales
                        /\ left.totalCollected = row.totalCollected
                        /\ left.balance = row.balance /\ left.status = row.status
    BY <1>0 DEF SaveRow
<1>4. c \in torn' \/ GoodRow(left)
  <2>1. CASE c \in torn' BY <2>1
  <2>2. CASE c \notin torn'
    <3>1. GoodRow(row) BY <1>1, <2>2 DEF GoodFor
    <3> QED BY <1>3, <2>2, <3>1 DEF GoodRow, RowNotUnderstated, RowStatusAgrees
  <2> QED BY <2>1, <2>2
<1> SUFFICES ASSUME NEW d \in Customers
             PROVE  /\ ar'[d] # None => d \in torn' \/ GoodRow(ar'[d])
                    /\ \A v \in Workers : held'[v][d] # None => d \in torn' \/ GoodRow(held'[v][d])
    BY DEF RowsOK, GoodFor
<1>5. ar'[d] # None => d \in torn' \/ GoodRow(ar'[d])
  <2>1. CASE d = c BY <2>1, <1>2, <1>4 DEF DbOK
  <2>2. CASE d # c BY <2>2, <1>1, <1>2 DEF DbOK, RowsOK, GoodFor
  <2> QED BY <2>1, <2>2
<1>6. ASSUME NEW v \in Workers, held'[v][d] # None PROVE d \in torn' \/ GoodRow(held'[v][d])
    BY <1>1, <1>6 DEF Loads, RowsOK, GoodFor
<1> QED BY <1>5, <1>6

LEMMA HeldRowGood ==
    ASSUME LInv, NEW w \in Workers, pc[w] \in NeedsCustomer
    PROVE  /\ arg[w].cust \in Customers /\ arg[w] \in Arg
           /\ HeldRow(w) \in Row \cup {None}
           /\ HeldRow(w) # None => HeldRow(w) \in Row /\ GoodFor(arg[w].cust, HeldRow(w))
           /\ pc[w] \in NeedsRow => HeldRow(w) # None
BY DEF LInv, WorkersOK, ProgressOK, RowsOK, HeldRow

LEMMA SaveAndFinishKeeps ==
    ASSUME LInv, NEW w \in Workers, NEW step, NEW row \in Row, NEW assigned,
           arg[w].cust \in Customers, GoodFor(arg[w].cust, row),
           SaveAndFinish(w, step, row, assigned)
    PROVE  LInv'
<1>0. /\ SaveRow(w, arg[w].cust, row, assigned) /\ Finish(w)
      /\ UNCHANGED <<invoice, collection, saleCancelled, today>>
    BY DEF SaveAndFinish
<1>1. WorkersOK' BY <1>0, FinishKeeps DEF LInv
<1>2. DbOK' BY <1>0, SaveRowKeeps DEF LInv, DbOK
<1>3. RowsOK' BY <1>0, FinishLoads, SaveKeepsRows DEF LInv
<1> QED BY <1>1, <1>2, <1>3 DEF LInv

LEMMA DbKept == DbOK /\ UNCHANGED db => DbOK'
BY DEF DbOK, db

\* A request that starts with what it needs in its argument or its invoice.
LEMMA StartBare ==
    ASSUME LInv, NEW w \in Workers, NEW p \in Step, NEW a \in Arg,
           NEW hi \in Invoice \cup {None}, hi # None => Known(hi),
           Start(w, p, a), held' = held, heldInv' = [heldInv EXCEPT ![w] = hi],
           p \in NeedsCustomer => a.cust \in Customers,
           p \notin NeedsRow, p \in NeedsInvoice => hi # None,
           p \notin NeedsCollectionId, p \in NeedsInvoiceId => a.inv \in InvoiceIds
    PROVE  WorkersOK'
<1>2. p # "updatePaymentTerms.save" BY DEF NeedsRow
<1>3. ProgressOK(p, a, held[w], hi) BY <1>2 DEF ProgressOK
<1>4. held[w] \in Rows /\ held' = [held EXCEPT ![w] = held[w]]
    BY DEF LInv, WorkersOK, Rows
<1>5. started' \in 0 .. MaxRequests BY LedgerAssumption DEF Start, LInv, WorkersOK
<1>6. /\ WorkersOK
      /\ pc' = [pc EXCEPT ![w] = p] /\ arg' = [arg EXCEPT ![w] = a]
    BY DEF Start, LInv
<1> QED BY <1>3, <1>4, <1>5, <1>6, OthersKept, ZenonT(30)

-----------------------------------------------------------------------------
(* Each action keeps the invariant.                                        *)

LEMMA RequestKeeps ==
    ASSUME LInv, NEW w \in Workers, Request(w)
    PROVE  LInv'
<1> USE LedgerAssumption
<1>l. ASSUME UNCHANGED db, WorkersOK', Loads PROVE LInv'
    BY <1>l, DbKept, LoadsKeepRows DEF LInv, db
<1>d. ASSUME UNCHANGED db, WorkersOK', held' = held \/ \E c : Hold(w, c) PROVE LInv'
    BY <1>d, <1>l, KeepsLoads, HoldLoads DEF LInv
<1>1. ASSUME NEW c \in Customers, NEW k \in CollectionIds, NEW a \in MoneyAmounts,
             CollectRead(w, c, k, a)
      PROVE  LInv'
  <2> DEFINE x == [NoArg EXCEPT !.cust = c, !.col = k, !.amt = a]
  <2>1. x \in Arg /\ x.cust = c /\ x.col = k BY NoArgType DEF Arg
  <2>2. ar[c] # None /\ Start(w, "collect.insert", x) /\ Hold(w, c) /\ heldInv' = heldInv
      BY <1>1 DEF CollectRead
  <2> HIDE DEF x
  <2>3. WorkersOK' BY <2>1, <2>2, StartHolding
      DEF Step, NeedsInvoice, NeedsCollectionId, NeedsInvoiceId
  <2> QED BY <2>3, <1>1, <1>d DEF CollectRead
<1>2. ASSUME NEW c \in Customers, NEW k \in CollectionIds, NEW a \in MoneyAmounts,
             CollectByCustomerRead(w, c, k, a)
      PROVE  LInv'
  <2> DEFINE x == [NoArg EXCEPT !.cust = c, !.col = k, !.amt = a]
  <2>1. x \in Arg /\ x.cust = c /\ x.col = k BY NoArgType DEF Arg
  <2>2. Start(w, "collectByCustomer.commit", x) /\ Hold(w, c) /\ heldInv' = heldInv
      BY <1>2 DEF CollectByCustomerRead
  <2> HIDE DEF x
  <2>3. WorkersOK' BY <2>1, <2>2, StartHolding
      DEF Step, NeedsRow, NeedsInvoice, NeedsCollectionId, NeedsInvoiceId
  <2> QED BY <2>3, <1>2, <1>d DEF CollectByCustomerRead
<1>3. ASSUME NEW c \in Customers, NEW k \in CollectionIds, NEW a \in MoneyAmounts,
             UpdateCollectionRead(w, c, k, a)
      PROVE  LInv'
  <2> DEFINE x == [NoArg EXCEPT !.cust = c, !.col = k, !.amt = a]
  <2>1. x \in Arg /\ x.cust = c /\ x.col = k BY NoArgType DEF Arg
  <2>2. ar[c] # None /\ Start(w, "updateCollection.find", x) /\ Hold(w, c) /\ heldInv' = heldInv
      BY <1>3 DEF UpdateCollectionRead
  <2> HIDE DEF x
  <2>3. WorkersOK' BY <2>1, <2>2, StartHolding
      DEF Step, NeedsInvoice, NeedsCollectionId, NeedsInvoiceId
  <2> QED BY <2>3, <1>3, <1>d DEF UpdateCollectionRead
<1>4. ASSUME NEW c \in Customers, NEW k \in CollectionIds, DeleteCollectionRead(w, c, k)
      PROVE  LInv'
  <2> DEFINE x == [NoArg EXCEPT !.cust = c, !.col = k]
  <2>1. x \in Arg /\ x.cust = c /\ x.col = k BY NoArgType DEF Arg
  <2>2. ar[c] # None /\ Start(w, "deleteCollection.find", x) /\ Hold(w, c) /\ heldInv' = heldInv
      BY <1>4 DEF DeleteCollectionRead
  <2> HIDE DEF x
  <2>3. WorkersOK' BY <2>1, <2>2, StartHolding
      DEF Step, NeedsInvoice, NeedsCollectionId, NeedsInvoiceId
  <2> QED BY <2>3, <1>4, <1>d DEF DeleteCollectionRead
<1>5. ASSUME NEW c \in Customers, NEW i \in InvoiceIds, NEW a \in InvoiceAmounts, NEW d \in Days,
             CreateInvoiceRead(w, c, i, a, d)
      PROVE  LInv'
  <2> DEFINE x == [NoArg EXCEPT !.cust = c, !.inv = i, !.amt = a, !.day = d]
  <2>1. x \in Arg /\ x.cust = c BY NoArgType DEF Arg
  <2>2. Start(w, "createInvoice.commit", x) /\ Hold(w, c) /\ heldInv' = heldInv
      BY <1>5 DEF CreateInvoiceRead
  <2> HIDE DEF x
  <2>3. WorkersOK' BY <2>1, <2>2, StartHolding
      DEF Step, NeedsRow, NeedsInvoice, NeedsCollectionId, NeedsInvoiceId
  <2> QED BY <2>3, <1>5, <1>d DEF CreateInvoiceRead
<1>6. ASSUME NEW c \in Customers, NEW i \in InvoiceIds, NEW a \in InvoiceAmounts,
             UpdateInvoiceRead(w, i, c, a)
      PROVE  LInv'
  <2> DEFINE x == [NoArg EXCEPT !.cust = c, !.inv = i, !.amt = a, !.old = invoice[i].amt]
  <2>1. x \in Arg /\ x.cust = c /\ x.inv = i BY NoArgType DEF Arg, LInv, DbOK, Invoice
  <2>2. Start(w, "updateInvoice.begin", x) /\ held' = held /\ heldInv' = heldInv
      BY <1>6 DEF UpdateInvoiceRead
  <2> HIDE DEF x
  <2>3. /\ heldInv' = [heldInv EXCEPT ![w] = heldInv[w]] /\ heldInv[w] \in Invoice \cup {None}
        /\ heldInv[w] # None => Known(heldInv[w])
      BY <2>2 DEF LInv, WorkersOK, ProgressOK
  <2>4. WorkersOK' BY <2>1, <2>2, <2>3, StartBare
      DEF Step, NeedsRow, NeedsInvoice, NeedsCollectionId, NeedsInvoiceId
  <2> QED BY <2>4, <1>6, <1>d DEF UpdateInvoiceRead
<1>7. ASSUME NEW i \in InvoiceIds, DeleteInvoiceRead(w, i) PROVE LInv'
  <2> DEFINE c == invoice[i].receivable
             x == [NoArg EXCEPT !.cust = c, !.inv = i, !.amt = invoice[i].amt]
  <2>1. c \in Customers /\ invoice[i].amt \in Int
      BY <1>7 DEF DeleteInvoiceRead, LInv, DbOK, Invoice, GoodInvoice, Known
  <2>2. x \in Arg /\ x.cust = c /\ x.inv = i BY <2>1, NoArgType DEF Arg
  <2>3. Start(w, "deleteInvoice.find", x) /\ held' = held /\ heldInv' = heldInv
      BY <1>7 DEF DeleteInvoiceRead
  <2> HIDE DEF x
  <2>4. /\ heldInv' = [heldInv EXCEPT ![w] = heldInv[w]] /\ heldInv[w] \in Invoice \cup {None}
        /\ heldInv[w] # None => Known(heldInv[w])
      BY <2>3 DEF LInv, WorkersOK, ProgressOK
  <2>5. WorkersOK' BY <2>1, <2>2, <2>3, <2>4, StartBare
      DEF Step, NeedsRow, NeedsInvoice, NeedsCollectionId, NeedsInvoiceId
  <2> QED BY <2>5, <1>7, <1>d DEF DeleteInvoiceRead
<1>8. ASSUME NEW i \in InvoiceIds, InvoiceFlagRead(w, i) PROVE LInv'
  <2> DEFINE x == [NoArg EXCEPT !.inv = i]
  <2>1. x \in Arg /\ x.inv = i BY NoArgType DEF Arg
  <2>2. /\ Start(w, "invoiceFlag.write", x) /\ held' = held
        /\ heldInv' = [heldInv EXCEPT ![w] = invoice[i]]
      BY <1>8 DEF InvoiceFlagRead
  <2> HIDE DEF x
  <2>3. invoice[i] \in Invoice /\ invoice[i] # None /\ Known(invoice[i])
      BY <1>8 DEF InvoiceFlagRead, GoodInvoice, LInv, DbOK
  <2>4. WorkersOK' BY <2>1, <2>2, <2>3, StartBare
      DEF Step, NeedsRow, NeedsCustomer, NeedsCollectionId, NeedsInvoiceId
  <2> QED BY <2>4, <1>8, <1>d DEF InvoiceFlagRead
<1>9. ASSUME NEW i \in InvoiceIds, NEW d \in Days, UpdateIssuedAtRead(w, i, d) PROVE LInv'
  <2> DEFINE x == [NoArg EXCEPT !.cust = invoice[i].cust, !.inv = i, !.day = d]
  <2>1. invoice[i] \in Invoice /\ invoice[i] # None /\ Known(invoice[i])
      BY <1>9 DEF UpdateIssuedAtRead, GoodInvoice, LInv, DbOK
  <2>2. invoice[i].cust \in Customers BY <2>1, <1>9 DEF UpdateIssuedAtRead, GoodInvoice, Known
  <2>3. x \in Arg /\ x.cust \in Customers /\ x.inv = i BY <2>2, NoArgType DEF Arg
  <2>4. /\ Start(w, "updateIssuedAt.write", x) /\ held' = held
        /\ heldInv' = [heldInv EXCEPT ![w] = invoice[i]]
      BY <1>9 DEF UpdateIssuedAtRead
  <2> HIDE DEF x
  <2>5. WorkersOK' BY <2>1, <2>3, <2>4, StartBare
      DEF Step, NeedsRow, NeedsCollectionId, NeedsInvoiceId
  <2> QED BY <2>5, <1>9, <1>d DEF UpdateIssuedAtRead
<1>10. ASSUME NEW c \in Customers, UpdateReceivableNotesRead(w, c) PROVE LInv'
  <2> DEFINE x == [NoArg EXCEPT !.cust = c]
  <2>1. x \in Arg /\ x.cust = c BY NoArgType DEF Arg
  <2>2. /\ ar[c] # None /\ Start(w, "updateReceivableNotes.save", x) /\ Hold(w, c)
        /\ heldInv' = heldInv
      BY <1>10 DEF UpdateReceivableNotesRead
  <2> HIDE DEF x
  <2>3. WorkersOK' BY <2>1, <2>2, StartHolding
      DEF Step, NeedsInvoice, NeedsCollectionId, NeedsInvoiceId
  <2> QED BY <2>3, <1>10, <1>d DEF UpdateReceivableNotesRead
<1>11. ASSUME NEW c \in Customers, NEW t \in PaymentTerms, UpdatePaymentTermsRead(w, c, t)
       PROVE  LInv'
  <2> DEFINE x == [NoArg EXCEPT !.cust = c, !.day = t]
  <2>a. t \in Nat /\ t \in Int OBVIOUS
  <2>1. x \in Arg BY <2>a, NoArgType DEF Arg
  <2>0. x.cust = c /\ x.day \in Nat BY <2>a DEF NoArg
  <2>2. /\ ar[c] # None /\ Start(w, "updatePaymentTerms.save", x) /\ Hold(w, c)
        /\ heldInv' = heldInv
      BY <1>11 DEF UpdatePaymentTermsRead
  <2> HIDE DEF x
  <2>3. WorkersOK' BY <2>0, <2>1, <2>2, StartHolding
      DEF Step, NeedsInvoice, NeedsCollectionId, NeedsInvoiceId
  <2> QED BY <2>3, <1>11, <1>d DEF UpdatePaymentTermsRead
<1>12. ASSUME UpdateWarningStatusesRead(w) PROVE LInv'
  <2> DEFINE x == [NoArg EXCEPT !.day = today]
             h == [c \in Customers |-> IF Unsettled(c) THEN ar[c] ELSE None]
             p == "updateWarningStatuses.loop"
  <2>1. x \in Arg BY NoArgType DEF Arg, LInv, DbOK
  <2>2. h \in Rows /\ \A c \in Customers : h[c] \in {None, ar[c]}
      BY DEF LInv, DbOK, Rows
  <2>3. /\ WorkersOK /\ pc' = [pc EXCEPT ![w] = p] /\ arg' = [arg EXCEPT ![w] = x]
        /\ held' = [held EXCEPT ![w] = h] /\ heldInv' = [heldInv EXCEPT ![w] = heldInv[w]]
        /\ heldInv[w] \in Invoice \cup {None} /\ started' \in 0 .. MaxRequests
        /\ heldInv[w] # None => Known(heldInv[w])
      BY <1>12 DEF UpdateWarningStatusesRead, Start, LInv, WorkersOK, ProgressOK
  <2> HIDE DEF x, h
  <2>4. ProgressOK(p, x, h, heldInv[w])
      BY <2>2, <2>3 DEF ProgressOK, NeedsRow, NeedsCustomer, NeedsInvoice, NeedsCollectionId,
             NeedsInvoiceId
  <2>5. p \in Step BY DEF Step
  <2> HIDE DEF p
  <2>6. WorkersOK' BY <2>1, <2>2, <2>3, <2>4, <2>5, OthersKept, ZenonT(30)
  <2>7. Loads BY <2>2, <2>3 DEF Loads, LInv, WorkersOK
  <2> QED BY <2>6, <2>7, <1>12, <1>l DEF UpdateWarningStatusesRead
<1> QED
    BY <1>1, <1>2, <1>3, <1>4, <1>5, <1>6, <1>7, <1>8, <1>9, <1>10, <1>11, <1>12 DEF Request
LEMMA ProceedKeeps ==
    ASSUME LInv, RewritersOK, NEW w \in Workers, Proceed(w)
    PROVE  LInv'
<1> USE LedgerAssumption
<1>r. ASSUME UNCHANGED <<ar, torn>>, Loads PROVE RowsOK' BY <1>r, LoadsKeepRows DEF LInv
<1>d. ASSUME UNCHANGED db, WorkersOK', held' = held \/ \E c : Hold(w, c) PROVE LInv'
    BY <1>d, <1>r, DbKept, KeepsLoads, HoldLoads DEF LInv, db
<1>f. ASSUME UNCHANGED db, Finish(w) PROVE LInv'
    BY <1>f, <1>r, DbKept, FinishKeeps, FinishLoads DEF LInv, db
<1>g. Finish(w) => WorkersOK' /\ Loads BY FinishKeeps, FinishLoads DEF LInv
<1>a. pc[w] \in NeedsCustomer => ArgCollection(w) \in Collection
    BY HeldRowGood DEF ArgCollection, Collection, Arg
<1>b. arg[w] \in Arg /\ arg = [arg EXCEPT ![w] = arg[w]]
    BY DEF LInv, WorkersOK
<1>c. /\ pc[w] \in NeedsCollectionId => arg[w].col \in CollectionIds
      /\ pc[w] \in NeedsInvoiceId => arg[w].inv \in InvoiceIds
      /\ pc[w] \in NeedsInvoice => heldInv[w] \in Invoice /\ Known(heldInv[w])
      /\ pc[w] = "updatePaymentTerms.save" => arg[w].day \in Nat
    BY DEF LInv, WorkersOK, ProgressOK
<1>1. CASE CollectInsert(w)
  <2>1. DbOK' BY <1>1, <1>a DEF CollectInsert, Goto, LInv, DbOK, NeedsCustomer, NeedsRow
  <2>2. WorkersOK'
      BY <1>1, <1>b, GotoKeeps
      DEF CollectInsert, Step, NeedsCustomer, NeedsRow, NeedsInvoice, NeedsCollectionId,
          NeedsInvoiceId
  <2>3. RowsOK' BY <1>1, <1>r, KeepsLoads DEF CollectInsert
  <2> QED BY <2>1, <2>2, <2>3 DEF LInv
<1>2. CASE CollectSave(w)
  <2>1. pc[w] = "collect.save" /\ SaveAndFinish(w, "collect.save", Collected(HeldRow(w), arg[w].amt),
                                                     Counted)
      BY <1>2 DEF CollectSave, SaveAndFinish
  <2>2. /\ arg[w].cust \in Customers /\ HeldRow(w) \in Row /\ arg[w].amt \in Int
        /\ GoodFor(arg[w].cust, HeldRow(w))
      BY <2>1, HeldRowGood DEF NeedsCustomer, NeedsRow, Arg
  <2>3. GoodFor(arg[w].cust, Collected(HeldRow(w), arg[w].amt))
      BY <2>2, CollectedGood DEF GoodFor
  <2> QED BY <2>1, <2>2, <2>3, CollectedGood, SaveAndFinishKeeps
<1>3. CASE CollectByCustomerCommit(w)
  <2> DEFINE base == IF HeldRow(w) = None THEN EmptyRow ELSE HeldRow(w)
  <2>1. pc[w] \in NeedsCustomer BY <1>3 DEF CollectByCustomerCommit, NeedsCustomer
  <2>2. base \in Row /\ arg[w].amt \in Int BY <2>1, HeldRowGood, EmptyRowGood DEF Arg
  <2>3. /\ SaveRow(w, arg[w].cust, CollectedByCustomer(base, arg[w].amt), Counted) /\ Finish(w)
        /\ collection' = [collection EXCEPT ![arg[w].col] = ArgCollection(w)]
        /\ UNCHANGED <<invoice, saleCancelled, today>>
      BY <1>3 DEF CollectByCustomerCommit
  <2> HIDE DEF base
  <2>4. DbOK'
    <3>1. arg[w].cust \in Customers BY <2>1, HeldRowGood
    <3>2. ar' \in [Customers -> Row \cup {None}] /\ torn' \subseteq Customers
        BY <2>2, <2>3, <3>1, CollectedByCustomerGood, SaveRowKeeps DEF LInv
    <3> QED BY <1>a, <2>1, <2>3, <3>2 DEF LInv, DbOK
  <2>5. GoodFor(arg[w].cust, CollectedByCustomer(base, arg[w].amt)) /\ arg[w].cust \in Customers
      BY <2>1, <2>2, CollectedByCustomerGood, HeldRowGood DEF GoodFor
  <2>6. RowsOK' BY <1>g, <2>2, <2>3, <2>5, CollectedByCustomerGood, SaveKeepsRows DEF LInv
  <2> QED BY <1>g, <2>3, <2>4, <2>6 DEF LInv
<1>4. CASE UpdateCollectionFind(w)
  <2> DEFINE x == [arg[w] EXCEPT !.old = collection[arg[w].col].amt]
  <2>1. /\ Goto(w, "updateCollection.find", "updateCollection.write")
        /\ arg' = [arg EXCEPT ![w] = x]
        /\ held' = held /\ heldInv' = heldInv /\ UNCHANGED db
      BY <1>4 DEF UpdateCollectionFind
  <2>2. collection[arg[w].col].amt \in Int
      BY <1>c, <2>1 DEF Goto, NeedsCollectionId, LInv, DbOK, Collection
  <2>3. /\ x \in Arg /\ x.cust = arg[w].cust /\ x.col = arg[w].col /\ x.inv = arg[w].inv
      BY <1>b, <2>2 DEF Arg
  <2> HIDE DEF x
  <2>4. WorkersOK'
      BY <2>1, <2>3, GotoKeeps
      DEF Step, NeedsCustomer, NeedsRow, NeedsInvoice, NeedsCollectionId, NeedsInvoiceId
  <2> QED BY <2>1, <2>4, <1>d
<1>5. CASE UpdateCollectionWrite(w)
  <2>1. DbOK'
    <3>1. /\ UNCHANGED <<ar, torn, invoice, saleCancelled, today>>
          /\ \/ collection' = [collection EXCEPT ![arg[w].col] = ArgCollection(w)]
             \/ UNCHANGED collection
        BY <1>5 DEF UpdateCollectionWrite
    <3>2. ArgCollection(w) \in Collection
        BY <1>5, <1>a DEF UpdateCollectionWrite, Goto, NeedsCustomer, NeedsRow
    <3> QED BY <3>1, <3>2 DEF LInv, DbOK
  <2>2. WorkersOK'
      BY <1>5, <1>b, GotoKeeps
      DEF UpdateCollectionWrite, Step, NeedsCustomer, NeedsRow, NeedsInvoice, NeedsCollectionId,
          NeedsInvoiceId
  <2>3. RowsOK' BY <1>5, <1>r, KeepsLoads DEF UpdateCollectionWrite
  <2> QED BY <2>1, <2>2, <2>3 DEF LInv
<1>6. CASE UpdateCollectionSave(w)
  <2>1. /\ pc[w] = "updateCollection.save"
        /\ SaveAndFinish(w, "updateCollection.save",
                         Corrected(HeldRow(w), arg[w].amt - arg[w].old), Counted)
      BY <1>6 DEF UpdateCollectionSave, SaveAndFinish
  <2>2. /\ arg[w].cust \in Customers /\ HeldRow(w) \in Row /\ arg[w].amt - arg[w].old \in Int
        /\ GoodFor(arg[w].cust, HeldRow(w))
      BY <2>1, HeldRowGood DEF NeedsCustomer, NeedsRow, Arg
  <2>3. GoodFor(arg[w].cust, Corrected(HeldRow(w), arg[w].amt - arg[w].old))
      BY <2>2, CorrectedGood DEF GoodFor
  <2> QED BY <2>1, <2>2, <2>3, CorrectedGood, SaveAndFinishKeeps
<1>7. CASE DeleteCollectionFind(w)
  <2> DEFINE x == [arg[w] EXCEPT !.amt = collection[arg[w].col].amt]
  <2>1. /\ Goto(w, "deleteCollection.find", "deleteCollection.remove")
        /\ arg' = [arg EXCEPT ![w] = x]
        /\ held' = held /\ heldInv' = heldInv /\ UNCHANGED db
      BY <1>7 DEF DeleteCollectionFind
  <2>2. collection[arg[w].col].amt \in Int
      BY <1>c, <2>1 DEF Goto, NeedsCollectionId, LInv, DbOK, Collection
  <2>3. /\ x \in Arg /\ x.cust = arg[w].cust /\ x.col = arg[w].col /\ x.inv = arg[w].inv
      BY <1>b, <2>2 DEF Arg
  <2> HIDE DEF x
  <2>4. WorkersOK'
      BY <2>1, <2>3, GotoKeeps
      DEF Step, NeedsCustomer, NeedsRow, NeedsInvoice, NeedsCollectionId, NeedsInvoiceId
  <2> QED BY <2>1, <2>4, <1>d
<1>8. CASE DeleteCollectionRemove(w)
  <2>0. [state |-> "removed", cust |-> None, amt |-> 0] \in Collection BY DEF Collection
  <2>1. DbOK' BY <1>8, <2>0 DEF DeleteCollectionRemove, LInv, DbOK
  <2>2. WorkersOK'
      BY <1>8, <1>b, GotoKeeps
      DEF DeleteCollectionRemove, Step, NeedsCustomer, NeedsRow, NeedsInvoice, NeedsCollectionId,
          NeedsInvoiceId
  <2>3. RowsOK' BY <1>8, <1>r, KeepsLoads DEF DeleteCollectionRemove
  <2> QED BY <2>1, <2>2, <2>3 DEF LInv
<1>9. CASE DeleteCollectionSave(w)
  <2>1. /\ pc[w] = "deleteCollection.save"
        /\ SaveAndFinish(w, "deleteCollection.save", Uncollected(HeldRow(w), arg[w].amt),
                         Counted)
      BY <1>9 DEF DeleteCollectionSave, SaveAndFinish
  <2>2. /\ arg[w].cust \in Customers /\ HeldRow(w) \in Row /\ arg[w].amt \in Int
        /\ GoodFor(arg[w].cust, HeldRow(w))
      BY <2>1, HeldRowGood DEF NeedsCustomer, NeedsRow, Arg
  <2>3. GoodFor(arg[w].cust, Uncollected(HeldRow(w), arg[w].amt))
      BY <2>2, UncollectedGood DEF GoodFor
  <2> QED BY <2>1, <2>2, <2>3, UncollectedGood, SaveAndFinishKeeps
<1>10. CASE CollectionRefused(w) BY <1>10, <1>f DEF CollectionRefused
<1>11. CASE CreateInvoiceCommit(w)
  <2> DEFINE c   == arg[w].cust
             row == IF HeldRow(w) = None THEN FirstSaleRow(arg[w].amt)
                    ELSE Resold(HeldRow(w), HeldRow(w).totalSales + arg[w].amt)
             new == [state |-> "live", cust |-> c, receivable |-> c,
                     amt |-> arg[w].amt, issued |-> arg[w].day]
             others == {j \in InvoiceIds : invoice[j].state # "unused" /\ invoice[j].cust = c}
             dues == DueDates(others, row.terms) \cup {arg[w].day + row.terms}
  <2>1. pc[w] \in NeedsCustomer BY <1>11 DEF CreateInvoiceCommit, NeedsCustomer
  <2>2. c \in Customers /\ arg[w].amt \in Int /\ arg[w].day \in Int
      BY <2>1, HeldRowGood DEF Arg
  <2>3. row \in Row /\ GoodRow(row)
    <3>1. CASE HeldRow(w) = None BY <3>1, <2>2, FirstSaleRowGood
    <3>2. CASE HeldRow(w) # None
      <4>1. HeldRow(w) \in Row BY <2>1, <3>2, HeldRowGood
      <4>2. HeldRow(w).totalSales + arg[w].amt \in Int BY <2>2, <4>1 DEF Row
      <4> QED BY <3>2, <4>1, <4>2, ResoldGood
    <3> QED BY <3>1, <3>2
  <2>4. new \in Invoice /\ GoodInvoice(new) BY <2>2 DEF Invoice, GoodInvoice, Known
  <2>5. /\ \E d \in dues : SaveRow(w, c, [row EXCEPT !.due = d], Sold)
        /\ invoice' = [invoice EXCEPT ![arg[w].inv] = new]
        /\ Finish(w) /\ UNCHANGED <<collection, saleCancelled, today>>
      BY <1>11 DEF CreateInvoiceCommit
  <2> HIDE DEF row, new
  <2>6. row.terms \in Nat BY <2>3 DEF Row
  <2>7. dues \subseteq Int
    <3>1. DueDates(others, row.terms) \subseteq Int BY <2>6, DueDatesType DEF LInv
    <3>2. arg[w].day + row.terms \in Int BY <2>2, <2>6
    <3> QED BY <3>1, <3>2
  <2> HIDE DEF dues
  <2>8. PICK d \in dues : SaveRow(w, c, [row EXCEPT !.due = d], Sold) BY <2>5
  <2>9. [row EXCEPT !.due = d] \in Row /\ GoodRow([row EXCEPT !.due = d])
      BY <2>3, <2>6, <2>7, <2>8, DatedGood
  <2>10. DbOK'
    <3>1. c \in Customers BY <2>1, HeldRowGood
    <3>2. ar' \in [Customers -> Row \cup {None}] /\ torn' \subseteq Customers
        BY <2>8, <2>9, <3>1, SaveRowKeeps DEF LInv
    <3> QED BY <2>4, <2>5, <3>2 DEF LInv, DbOK
  <2>11. GoodFor(c, [row EXCEPT !.due = d]) BY <2>9 DEF GoodFor
  <2>12. RowsOK' BY <1>g, <2>2, <2>5, <2>8, <2>9, <2>11, SaveKeepsRows DEF LInv
  <2> QED BY <1>g, <2>5, <2>10, <2>12 DEF LInv
<1>12. CASE DuplicateRowRollback(w) BY <1>12, <1>f DEF DuplicateRowRollback
<1>13. CASE UpdateInvoiceBegin(w)
  <2>1. WorkersOK'
      BY <1>13, GotoHolding
      DEF UpdateInvoiceBegin, Step, NeedsCustomer, NeedsRow, NeedsInvoice, NeedsCollectionId,
          NeedsInvoiceId
  <2> QED BY <1>13, <2>1, <1>d DEF UpdateInvoiceBegin
<1>14. CASE UpdateInvoiceCommit(w)
  <2> DEFINE i == arg[w].inv
             c == arg[w].cust
             v == [invoice[i] EXCEPT !.cust = c, !.amt = arg[w].amt]
             row == Resold(HeldRow(w), HeldRow(w).totalSales + (arg[w].amt - arg[w].old))
  <2>1. pc[w] \in NeedsCustomer /\ i \in InvoiceIds
      BY <1>14, <1>c DEF UpdateInvoiceCommit, NeedsCustomer, NeedsInvoiceId
  <2>2. c \in Customers /\ arg[w].amt \in Int /\ arg[w].old \in Int
      BY <2>1, HeldRowGood DEF Arg
  <2>3. v \in Invoice /\ GoodInvoice(v)
      BY <1>14, <2>1, <2>2 DEF UpdateInvoiceCommit, InDetail, LInv, DbOK, Invoice, GoodInvoice, Known
  <2>4. /\ invoice' = [invoice EXCEPT ![i] = v]
        /\ Finish(w) /\ UNCHANGED <<collection, saleCancelled, today>>
        /\ IF HeldRow(w) = None THEN UNCHANGED <<ar, torn>> ELSE SaveRow(w, c, row, Sold)
      BY <1>14 DEF UpdateInvoiceCommit
  <2>5. HeldRow(w) # None => row \in Row /\ GoodRow(row)
    <3>1. HeldRow(w) # None => HeldRow(w) \in Row BY <2>1, HeldRowGood
    <3>2. HeldRow(w) # None => HeldRow(w).totalSales + (arg[w].amt - arg[w].old) \in Int
        BY <2>2, <3>1 DEF Row
    <3> QED BY <3>1, <3>2, ResoldGood
  <2> HIDE DEF row, v
  <2>6. DbOK'
    <3>1. CASE HeldRow(w) = None BY <3>1, <2>1, <2>3, <2>4 DEF LInv, DbOK
    <3>2. CASE HeldRow(w) # None
      <4>1. arg[w].cust \in Customers BY <2>1, HeldRowGood
      <4>2. ar' \in [Customers -> Row \cup {None}] /\ torn' \subseteq Customers
          BY <3>2, <2>4, <2>5, <4>1, SaveRowKeeps DEF LInv
      <4> QED BY <2>1, <2>3, <2>4, <4>2 DEF LInv, DbOK
    <3> QED BY <3>1, <3>2
  <2>7. RowsOK'
    <3>1. CASE HeldRow(w) = None BY <3>1, <1>g, <1>r, <2>4
    <3>2. CASE HeldRow(w) # None
      <4>1. arg[w].cust \in Customers /\ GoodFor(arg[w].cust, row)
          BY <3>2, <2>1, <2>5, HeldRowGood DEF GoodFor
      <4> QED BY <3>2, <4>1, <1>g, <2>4, <2>5, SaveKeepsRows DEF LInv
    <3> QED BY <3>1, <3>2
  <2> QED BY <1>g, <2>4, <2>6, <2>7 DEF LInv
<1>15. CASE UpdateInvoiceRollback(w) BY <1>15, <1>f DEF UpdateInvoiceRollback
<1>16. CASE DeleteInvoiceFind(w)
  <2>1. WorkersOK'
      BY <1>16, GotoHolding
      DEF DeleteInvoiceFind, Step, NeedsCustomer, NeedsRow, NeedsInvoice, NeedsCollectionId,
          NeedsInvoiceId
  <2> QED BY <1>16, <2>1, <1>d DEF DeleteInvoiceFind
<1>17. CASE DeleteInvoiceCommit(w)
  <2> DEFINE i == arg[w].inv
             v == [invoice[i] EXCEPT !.state = "deleted"]
             rest == HeldRow(w).totalSales - arg[w].amt
             sales == IF rest < 0 THEN 0 ELSE rest
             row == Resold(HeldRow(w), sales)
  <2>1. pc[w] \in NeedsCustomer /\ i \in InvoiceIds
      BY <1>17, <1>c DEF DeleteInvoiceCommit, NeedsCustomer, NeedsInvoiceId
  <2>2. arg[w].amt \in Int BY <2>1, HeldRowGood DEF Arg
  <2>3. v \in Invoice /\ GoodInvoice(v)
      BY <1>17, <2>1 DEF DeleteInvoiceCommit, RewritersOK, Rewriting, Deleting, LInv, DbOK, Invoice,
                         GoodInvoice, Known
  <2>4. /\ invoice' = [invoice EXCEPT ![i] = v]
        /\ Finish(w) /\ UNCHANGED <<collection, saleCancelled, today>>
        /\ IF HeldRow(w) = None THEN UNCHANGED <<ar, torn>>
           ELSE SaveRow(w, arg[w].cust, row, Sold)
      BY <1>17 DEF DeleteInvoiceCommit
  <2>5. HeldRow(w) # None => row \in Row /\ GoodRow(row)
    <3>1. HeldRow(w) # None => HeldRow(w) \in Row BY <2>1, HeldRowGood
    <3>2. HeldRow(w) # None => sales \in Int BY <2>2, <3>1 DEF Row
    <3> QED BY <3>1, <3>2, ResoldGood
  <2> HIDE DEF row, v
  <2>6. DbOK'
    <3>1. CASE HeldRow(w) = None BY <3>1, <2>1, <2>3, <2>4 DEF LInv, DbOK
    <3>2. CASE HeldRow(w) # None
      <4>1. arg[w].cust \in Customers BY <2>1, HeldRowGood
      <4>2. ar' \in [Customers -> Row \cup {None}] /\ torn' \subseteq Customers
          BY <3>2, <2>4, <2>5, <4>1, SaveRowKeeps DEF LInv
      <4> QED BY <2>1, <2>3, <2>4, <4>2 DEF LInv, DbOK
    <3> QED BY <3>1, <3>2
  <2>7. RowsOK'
    <3>1. CASE HeldRow(w) = None BY <3>1, <1>g, <1>r, <2>4
    <3>2. CASE HeldRow(w) # None
      <4>1. arg[w].cust \in Customers /\ GoodFor(arg[w].cust, row)
          BY <3>2, <2>1, <2>5, HeldRowGood DEF GoodFor
      <4> QED BY <3>2, <4>1, <1>g, <2>4, <2>5, SaveKeepsRows DEF LInv
    <3> QED BY <3>1, <3>2
  <2> QED BY <1>g, <2>4, <2>6, <2>7 DEF LInv
<1>18. CASE UpdateIssuedAtWrite(w)
  <2> DEFINE i == arg[w].inv
             u == [heldInv[w] EXCEPT !.issued = arg[w].day]
             v == Left(u, lookedInv[w], invoice[i], {})
             p == "updateIssuedAt.find"
  <2>1. /\ heldInv[w] \in Invoice /\ Known(heldInv[w]) /\ arg[w].day \in Int
        /\ arg[w].cust \in Customers /\ i \in InvoiceIds
        /\ invoice[i] \in Invoice /\ Known(invoice[i])
      BY <1>18, <1>b, <1>c, HeldRowGood
      DEF UpdateIssuedAtWrite, NeedsInvoice, NeedsInvoiceId, NeedsCustomer, Arg, RewritersOK,
          Rewriting, LInv, DbOK, GoodInvoice
  <2>a. u \in Invoice /\ Known(u) BY <2>1 DEF Invoice, Known
  <2>3. /\ pc' = [pc EXCEPT ![w] = p] /\ invoice' = [invoice EXCEPT ![i] = v]
        /\ heldInv' = [heldInv EXCEPT ![w] = None]
        /\ UNCHANGED <<ar, torn, collection, saleCancelled, today, arg, held, started>>
      BY <1>18 DEF UpdateIssuedAtWrite, SaveInvoice
  <2> HIDE DEF u
  <2>2. v \in Invoice /\ GoodInvoice(v) BY <2>1, <2>a, LeftInvoice DEF GoodInvoice
  <2> HIDE DEF v
  <2>4. DbOK' BY <2>2, <2>3 DEF LInv, DbOK
  <2>5. ProgressOK(p, arg[w], held[w], None)
      BY <2>1 DEF LInv, WorkersOK, ProgressOK, NeedsRow, NeedsInvoice, NeedsCollectionId,
             NeedsInvoiceId
  <2>6. /\ WorkersOK /\ pc' = [pc EXCEPT ![w] = p] /\ arg' = [arg EXCEPT ![w] = arg[w]]
        /\ held' = [held EXCEPT ![w] = held[w]] /\ heldInv' = [heldInv EXCEPT ![w] = None]
        /\ held[w] \in Rows /\ started' \in 0 .. MaxRequests
      BY <2>3 DEF LInv, WorkersOK, Rows
  <2>7. p \in Step BY DEF Step
  <2> HIDE DEF p
  <2>8. WorkersOK' BY <1>b, <2>5, <2>6, <2>7, OthersKept, ZenonT(30)
  <2>9. RowsOK' BY <1>r, <2>3, KeepsLoads
  <2> QED BY <2>4, <2>8, <2>9 DEF LInv
<1>19. CASE UpdateIssuedAtFind(w)
  <2>1. WorkersOK'
      BY <1>19, GotoHolding
      DEF UpdateIssuedAtFind, Step, NeedsCustomer, NeedsRow, NeedsInvoice, NeedsCollectionId,
          NeedsInvoiceId
  <2> QED BY <1>19, <2>1, <1>d DEF UpdateIssuedAtFind
<1>20. CASE UpdateIssuedAtSave(w)
  <2> DEFINE c == arg[w].cust
             dues == DueDates(CountedInvoices(c), HeldRow(w).terms)
  <2>1. pc[w] \in NeedsCustomer BY <1>20 DEF UpdateIssuedAtSave, NeedsCustomer
  <2>2. /\ \/ UNCHANGED <<ar, torn>>
           \/ HeldRow(w) # None /\ \E d \in dues : SaveRow(w, c, [HeldRow(w) EXCEPT !.due = d], {})
        /\ Finish(w) /\ UNCHANGED <<invoice, collection, saleCancelled, today>>
      BY <1>20 DEF UpdateIssuedAtSave
  <2>3. CASE UNCHANGED <<ar, torn>> BY <2>2, <2>3, <1>f DEF db
  <2>4. ASSUME NEW d \in dues, HeldRow(w) # None,
               SaveRow(w, c, [HeldRow(w) EXCEPT !.due = d], {})
        PROVE  LInv'
    <3>1. /\ c \in Customers /\ HeldRow(w) \in Row /\ GoodFor(c, HeldRow(w))
          /\ HeldRow(w).terms \in Nat
        BY <2>1, <2>4, HeldRowGood DEF Row
    <3>2. d \in Int BY <3>1, DueDatesType DEF CountedInvoices, LInv
    <3> DEFINE row == [HeldRow(w) EXCEPT !.due = d]
    <3>3. row \in Row /\ GoodFor(c, row) BY <3>1, <3>2, DatedGood DEF GoodFor
    <3>4. SaveRow(w, c, row, {}) BY <2>4
    <3> HIDE DEF row, dues
    <3>7. ar' \in [Customers -> Row \cup {None}] /\ torn' \subseteq Customers
        BY <3>1, <3>3, <3>4, SaveRowKeeps DEF LInv
    <3>5. DbOK' BY <2>2, <3>7 DEF LInv, DbOK
    <3>6. RowsOK' BY <1>g, <2>2, <3>1, <3>3, <3>4, SaveKeepsRows DEF LInv
    <3> QED BY <1>g, <3>5, <3>6, <2>2 DEF LInv
  <2> QED BY <2>2, <2>3, <2>4
<1>21. CASE InvoiceFlagWrite(w)
  <2> DEFINE i == arg[w].inv
             v == Left(heldInv[w], lookedInv[w], invoice[i], {})
  <2>1. /\ pc[w] \in NeedsInvoice /\ pc[w] \in NeedsInvoiceId
        /\ invoice' = [invoice EXCEPT ![i] = v]
        /\ Finish(w) /\ UNCHANGED <<ar, torn, collection, saleCancelled, today>>
      BY <1>21 DEF InvoiceFlagWrite, SaveInvoice, NeedsInvoice, NeedsInvoiceId
  <2>2. i \in InvoiceIds /\ invoice[i] \in Invoice /\ Known(invoice[i])
      BY <1>c, <2>1 DEF RewritersOK, Rewriting, LInv, DbOK, GoodInvoice
  <2>3. v \in Invoice /\ GoodInvoice(v) BY <1>c, <2>1, <2>2, LeftInvoice DEF GoodInvoice
  <2> HIDE DEF v
  <2>4. DbOK' BY <2>1, <2>3 DEF LInv, DbOK
  <2> QED BY <1>g, <1>r, <2>1, <2>4 DEF LInv
<1>22. CASE UpdatePaymentTermsSave(w)
  <2> DEFINE t == arg[w].day
             dues == DueDates(CountedInvoices(arg[w].cust), t)
             Saved(d) == [HeldRow(w) EXCEPT !.terms = t, !.due = d]
  <2>1. PICK d \in dues \cup {None} :
          SaveAndFinish(w, "updatePaymentTerms.save", Saved(d), {})
      BY <1>22 DEF UpdatePaymentTermsSave
  <2>2. /\ arg[w].cust \in Customers /\ HeldRow(w) \in Row /\ GoodFor(arg[w].cust, HeldRow(w))
        /\ t \in Nat
      BY <1>c, <2>1, HeldRowGood DEF SaveAndFinish, NeedsCustomer, NeedsRow
  <2>3. d \in Int \cup {None} BY <2>2, DueDatesType DEF CountedInvoices, LInv
  <2>4. Saved(d) \in Row /\ GoodFor(arg[w].cust, Saved(d)) BY <2>2, <2>3, DatedGood DEF GoodFor
  <2> QED BY <2>1, <2>2, <2>4, SaveAndFinishKeeps
<1>23. CASE UpdateReceivableNotesSave(w)
  <2>1. arg[w].cust \in Customers /\ HeldRow(w) \in Row /\ GoodFor(arg[w].cust, HeldRow(w))
      BY <1>23, HeldRowGood
      DEF UpdateReceivableNotesSave, SaveAndFinish, NeedsCustomer, NeedsRow
  <2> QED BY <1>23, <2>1, SaveAndFinishKeeps DEF UpdateReceivableNotesSave
<1>24. ASSUME NEW c \in Customers, UpdateWarningStatusesStep(w, c) PROVE LInv'
  <2> DEFINE row == held[w][c]
             level == WarningFor(arg[w].day - row.due)
             warned == [row EXCEPT !.warning = level]
             h == [held[w] EXCEPT ![c] = None]
  <2>1. /\ row # None /\ (UNCHANGED <<ar, torn>> \/ SaveRow(w, c, warned, {}))
        /\ held' = [held EXCEPT ![w] = h]
        /\ UNCHANGED <<invoice, collection, saleCancelled, today, pc, arg, heldInv, started>>
      BY <1>24 DEF UpdateWarningStatusesStep, LInv, WorkersOK
  <2>2. row \in Row /\ GoodFor(c, row) BY <2>1 DEF LInv, WorkersOK, RowsOK
  <2>3. level \in Warning BY WarningForType
  <2>4. warned \in Row /\ GoodFor(c, warned)
    <3> HIDE DEF row, level
    <3> QED BY <2>2, <2>3, WarnedGood DEF GoodFor
  <2> HIDE DEF warned
  <2>5. DbOK'
    <3>1. CASE UNCHANGED <<ar, torn>> BY <2>1, <3>1 DEF LInv, DbOK
    <3>2. CASE SaveRow(w, c, warned, {}) BY <2>1, <2>4, <3>2, SaveRowKeeps DEF LInv, DbOK
    <3> QED BY <2>1, <3>1, <3>2
  <2>6. h \in Rows /\ \A d \in Customers : h[d] \in {None, held[w][d]}
      BY DEF LInv, WorkersOK, Rows
  <2>l. Loads BY <2>1, <2>6 DEF Loads, LInv, WorkersOK
  <2>7. pc[w] = "updateWarningStatuses.loop" BY <1>24 DEF UpdateWarningStatusesStep
  <2> HIDE DEF h, row, level
  <2>8. ProgressOK(pc[w], arg[w], h, heldInv[w])
      BY <2>6, <2>7 DEF LInv, WorkersOK, ProgressOK, NeedsRow, NeedsCustomer
  <2>9. /\ WorkersOK /\ pc[w] \in Step /\ heldInv[w] \in Invoice \cup {None}
        /\ pc' = [pc EXCEPT ![w] = pc[w]] /\ arg' = [arg EXCEPT ![w] = arg[w]]
        /\ heldInv' = [heldInv EXCEPT ![w] = heldInv[w]] /\ started' \in 0 .. MaxRequests
      BY <2>1 DEF LInv, WorkersOK
  <2>10. WorkersOK'
    <3>1. h \in Rows /\ arg[w] \in Arg /\ held' = [held EXCEPT ![w] = h] BY <1>b, <2>1, <2>6
    <3> QED BY <2>8, <2>9, <3>1, OthersKept, ZenonT(30)
  <2>11. RowsOK'
    <3>1. CASE UNCHANGED <<ar, torn>> BY <1>r, <2>l, <3>1
    <3>2. CASE SaveRow(w, c, warned, {}) BY <2>4, <2>l, <3>2, SaveKeepsRows DEF LInv
    <3> QED BY <2>1, <3>1, <3>2
  <2> QED BY <2>5, <2>10, <2>11 DEF LInv
<1>26. CASE LookInvoice(w) \/ \E c \in Customers : Look(w, c)
  <2>1. UNCHANGED <<db, pc, arg, held, heldInv, started>> BY <1>26 DEF LookInvoice, Look
  <2>2. WorkersOK' BY <2>1 DEF LInv, WorkersOK, ProgressOK
  <2> QED BY <2>1, <2>2, <1>d
<1>25. CASE UpdateWarningStatusesEnd(w) BY <1>25, <1>f DEF UpdateWarningStatusesEnd
<1> QED
    BY <1>1, <1>2, <1>3, <1>4, <1>5, <1>6, <1>7, <1>8, <1>9, <1>10, <1>11, <1>12, <1>13,
       <1>14, <1>15, <1>16, <1>17, <1>18, <1>19, <1>20, <1>21, <1>22, <1>23, <1>24, <1>25, <1>26
    DEF Proceed

-----------------------------------------------------------------------------
(* deleteInvoice goes on with an invoice that exists: an invoice once used is *)
(* never unused again, whichever request writes it back.                      *)

InvoicesStay ==
    \A i \in InvoiceIds : invoice[i].state # "unused" => invoice'[i].state # "unused"

LEMMA ProceedKeepsInvoices ==
    ASSUME LInv, RewritersOK, NEW w \in Workers, Proceed(w) PROVE InvoicesStay
<1> DEFINE i == arg[w].inv
<1>1. ASSUME NEW v, v.state # "unused", invoice' = [invoice EXCEPT ![i] = v]
      PROVE  InvoicesStay
    BY <1>1 DEF InvoicesStay, LInv, DbOK
<1>2. ASSUME UNCHANGED invoice PROVE InvoicesStay BY <1>2 DEF InvoicesStay
<1>3. CASE CreateInvoiceCommit(w)
  <2> DEFINE v == [state |-> "live", cust |-> arg[w].cust, receivable |-> arg[w].cust,
                   amt |-> arg[w].amt, issued |-> arg[w].day]
  <2>1. v.state # "unused" /\ invoice' = [invoice EXCEPT ![i] = v]
      BY <1>3 DEF CreateInvoiceCommit
  <2> HIDE DEF v, i
  <2> QED BY <2>1, <1>1
<1>4. CASE UpdateInvoiceCommit(w)
  BY <1>4 DEF UpdateInvoiceCommit, InvoicesStay, LInv, DbOK, Invoice
<1>5. CASE DeleteInvoiceCommit(w)
  BY <1>5 DEF DeleteInvoiceCommit, InvoicesStay, LInv, DbOK, Invoice
<1>6. CASE UpdateIssuedAtWrite(w) \/ InvoiceFlagWrite(w)
  <2>1. /\ heldInv[w] \in Invoice /\ Known(heldInv[w]) /\ i \in InvoiceIds
        /\ invoice[i] \in Invoice /\ Known(invoice[i])
      BY <1>6 DEF UpdateIssuedAtWrite, InvoiceFlagWrite, LInv, DbOK, GoodInvoice, WorkersOK,
             ProgressOK, NeedsInvoice, NeedsInvoiceId, RewritersOK, Rewriting
  <2>a. arg[w].day \in Int BY DEF LInv, WorkersOK, Arg
  <2>2. ASSUME NEW u \in Invoice, Known(u),
               invoice' = [invoice EXCEPT ![i] = Left(u, lookedInv[w], invoice[i], {})]
        PROVE  InvoicesStay
    <3> DEFINE v == Left(u, lookedInv[w], invoice[i], {})
    <3>1. v.state # "unused" BY <2>1, <2>2, LeftInvoice DEF Known
    <3>2. invoice' = [invoice EXCEPT ![i] = v] BY <2>2
    <3> HIDE DEF v, i
    <3> QED BY <3>1, <3>2, <1>1
  <2>3. CASE UpdateIssuedAtWrite(w)
    <3> DEFINE u == [heldInv[w] EXCEPT !.issued = arg[w].day]
    <3>1. u \in Invoice /\ Known(u) BY <2>1, <2>a DEF Known, Invoice
    <3>2. invoice' = [invoice EXCEPT ![i] = Left(u, lookedInv[w], invoice[i], {})]
        BY <2>3 DEF UpdateIssuedAtWrite, SaveInvoice
    <3> HIDE DEF u, i
    <3> QED BY <3>1, <3>2, <2>2
  <2>4. CASE InvoiceFlagWrite(w)
    <3>1. invoice' = [invoice EXCEPT ![i] = Left(heldInv[w], lookedInv[w], invoice[i], {})]
        BY <2>4 DEF InvoiceFlagWrite, SaveInvoice
    <3> QED BY <2>1, <3>1, <2>2
  <2> QED BY <1>6, <2>3, <2>4
<1> QED
    BY <1>2, <1>3, <1>4, <1>5, <1>6
    DEF Proceed, db, SaveAndFinish, CollectInsert, CollectSave, CollectByCustomerCommit,
        UpdateCollectionFind, UpdateCollectionWrite, UpdateCollectionSave, DeleteCollectionFind,
        DeleteCollectionRemove, DeleteCollectionSave, CollectionRefused, DuplicateRowRollback,
        UpdateInvoiceBegin, UpdateInvoiceRollback, DeleteInvoiceFind, UpdateIssuedAtFind,
        UpdateIssuedAtSave, UpdatePaymentTermsSave, UpdateReceivableNotesSave,
        UpdateWarningStatusesStep, UpdateWarningStatusesEnd, Look, LookInvoice

LEMMA MoveKeepsRewriters ==
    ASSUME LInv, RewritersOK, InvoicesStay, NEW w \in Workers, NEW p, NEW a,
           pc' = [pc EXCEPT ![w] = p], arg' = [arg EXCEPT ![w] = a],
           p \in Rewriting => a.inv \in InvoiceIds /\ invoice[a.inv].state # "unused"
    PROVE  RewritersOK'
<1> SUFFICES ASSUME NEW v \in Workers, pc'[v] \in Rewriting
             PROVE  invoice'[arg'[v].inv].state # "unused"
    BY DEF RewritersOK, Rewriting, Deleting, NeedsInvoice
<1>1. CASE v = w BY <1>1 DEF LInv, WorkersOK, InvoicesStay
<1>2. CASE v # w
  <2>1. pc'[v] = pc[v] /\ arg'[v] = arg[v] BY <1>2 DEF LInv, WorkersOK
  <2>2. arg[v].inv \in InvoiceIds
      BY <2>1 DEF LInv, WorkersOK, ProgressOK, Rewriting, Deleting, NeedsInvoice, NeedsInvoiceId
  <2> QED BY <2>1, <2>2 DEF RewritersOK, InvoicesStay
<1> QED BY <1>1, <1>2

LEMMA RequestKeepsRewriters ==
    ASSUME LInv, RewritersOK, NEW w \in Workers, Request(w) PROVE RewritersOK'
<1>s. ASSUME NEW p, NEW a, Start(w, p, a), UNCHANGED db,
             p \in Rewriting => a.inv \in InvoiceIds /\ invoice[a.inv].state # "unused"
      PROVE  RewritersOK'
  <2>1. InvoicesStay BY <1>s DEF db, InvoicesStay
  <2> QED BY <1>s, <2>1, MoveKeepsRewriters DEF Start
<1>1. ASSUME NEW c \in Customers, NEW k \in CollectionIds, NEW a \in MoneyAmounts,
             CollectRead(w, c, k, a) \/ CollectByCustomerRead(w, c, k, a)
               \/ UpdateCollectionRead(w, c, k, a)
      PROVE  RewritersOK'
    BY <1>s, <1>1, Zenon
    DEF CollectRead, CollectByCustomerRead, UpdateCollectionRead, Rewriting, Deleting, NeedsInvoice
<1>2. ASSUME NEW c \in Customers, NEW k \in CollectionIds, DeleteCollectionRead(w, c, k)
      PROVE  RewritersOK'
    BY <1>s, <1>2, Zenon DEF DeleteCollectionRead, Rewriting, Deleting, NeedsInvoice
<1>3. ASSUME NEW c \in Customers, NEW i \in InvoiceIds, NEW a \in InvoiceAmounts,
             UpdateInvoiceRead(w, i, c, a) \/ \E d \in Days : CreateInvoiceRead(w, c, i, a, d)
      PROVE  RewritersOK'
    BY <1>s, <1>3, Zenon DEF UpdateInvoiceRead, CreateInvoiceRead, Rewriting, Deleting, NeedsInvoice
<1>4. ASSUME NEW i \in InvoiceIds, DeleteInvoiceRead(w, i) PROVE RewritersOK'
  <2> DEFINE a == [NoArg EXCEPT !.cust = invoice[i].receivable, !.inv = i, !.amt = invoice[i].amt]
  <2>1. a.inv = i BY DEF NoArg
  <2>2. Start(w, "deleteInvoice.find", a) /\ invoice[i].state = "live" /\ UNCHANGED db
      BY <1>4 DEF DeleteInvoiceRead
  <2> HIDE DEF a
  <2> QED BY <1>s, <2>1, <2>2
<1>5. ASSUME NEW i \in InvoiceIds, InvoiceFlagRead(w, i) PROVE RewritersOK'
  <2> DEFINE a == [NoArg EXCEPT !.inv = i]
  <2>1. a.inv = i BY DEF NoArg
  <2>2. Start(w, "invoiceFlag.write", a) /\ invoice[i].state # "unused" /\ UNCHANGED db
      BY <1>5 DEF InvoiceFlagRead
  <2> HIDE DEF a
  <2> QED BY <1>s, <2>1, <2>2
<1>8. ASSUME NEW i \in InvoiceIds, NEW d \in Days, UpdateIssuedAtRead(w, i, d) PROVE RewritersOK'
  <2> DEFINE a == [NoArg EXCEPT !.cust = invoice[i].cust, !.inv = i, !.day = d]
  <2>1. a.inv = i BY DEF NoArg
  <2>2. Start(w, "updateIssuedAt.write", a) /\ invoice[i].state # "unused" /\ UNCHANGED db
      BY <1>8 DEF UpdateIssuedAtRead
  <2> HIDE DEF a
  <2> QED BY <1>s, <2>1, <2>2
<1>6. ASSUME NEW c \in Customers,
             UpdateReceivableNotesRead(w, c)
               \/ \E t \in PaymentTerms : UpdatePaymentTermsRead(w, c, t)
      PROVE  RewritersOK'
    BY <1>s, <1>6, Zenon DEF UpdateReceivableNotesRead, UpdatePaymentTermsRead, Rewriting, Deleting, NeedsInvoice
<1>7. ASSUME UpdateWarningStatusesRead(w) PROVE RewritersOK'
    BY <1>s, <1>7, Zenon DEF UpdateWarningStatusesRead, Rewriting, Deleting, NeedsInvoice
<1> QED BY <1>1, <1>2, <1>3, <1>4, <1>5, <1>6, <1>7, <1>8 DEF Request

LEMMA ProceedKeepsRewriters ==
    ASSUME LInv, RewritersOK, NEW w \in Workers, Proceed(w) PROVE RewritersOK'
<1>1. InvoicesStay BY ProceedKeepsInvoices
<1>2. ASSUME NEW p, NEW a, p \notin Rewriting,
             pc' = [pc EXCEPT ![w] = p], arg' = [arg EXCEPT ![w] = a]
      PROVE  RewritersOK'
    BY <1>1, <1>2, MoveKeepsRewriters
<1>3. ASSUME Finish(w) PROVE RewritersOK' 
    BY <1>2, <1>3 DEF Finish, Rewriting, Deleting, NeedsInvoice
<1>4. CASE DeleteInvoiceFind(w)
  <2>1. /\ pc' = [pc EXCEPT ![w] = "deleteInvoice.commit"] /\ pc[w] \in Rewriting
        /\ arg' = [arg EXCEPT ![w] = arg[w]]
      BY <1>4 DEF DeleteInvoiceFind, Goto, Rewriting, Deleting, LInv, WorkersOK
  <2>2. arg[w].inv \in InvoiceIds /\ invoice[arg[w].inv].state # "unused"
      BY <2>1
      DEF RewritersOK, LInv, WorkersOK, ProgressOK, Rewriting, Deleting, NeedsInvoice,
          NeedsInvoiceId
  <2> QED BY <1>1, <2>1, <2>2, MoveKeepsRewriters
<1>5. ASSUME NEW p, p \notin Rewriting, pc' = [pc EXCEPT ![w] = p],
             \E a : arg' = [arg EXCEPT ![w] = a]
      PROVE  RewritersOK'
    BY <1>2, <1>5
<1>6. arg = [arg EXCEPT ![w] = arg[w]] BY DEF LInv, WorkersOK
<1>7. CASE CollectInsert(w) \/ UpdateCollectionFind(w) \/ UpdateCollectionWrite(w)
           \/ DeleteCollectionFind(w) \/ DeleteCollectionRemove(w)
    BY <1>5, <1>6, <1>7 DEF CollectInsert, UpdateCollectionFind, UpdateCollectionWrite,
       DeleteCollectionFind, DeleteCollectionRemove, Goto, Rewriting, Deleting, NeedsInvoice
<1>8. CASE UpdateInvoiceBegin(w) \/ UpdateIssuedAtWrite(w) \/ UpdateIssuedAtFind(w)
    BY <1>5, <1>6, <1>8 DEF UpdateInvoiceBegin, UpdateIssuedAtWrite, UpdateIssuedAtFind,
       Goto, Rewriting, Deleting, NeedsInvoice
<1>9. ASSUME NEW c \in Customers, UpdateWarningStatusesStep(w, c) PROVE RewritersOK'
    BY <1>9 DEF UpdateWarningStatusesStep, RewritersOK
<1>10. CASE LookInvoice(w) \/ \E c \in Customers : Look(w, c)
    BY <1>10 DEF LookInvoice, Look, RewritersOK, db
<1> QED
    BY <1>3, <1>4, <1>7, <1>8, <1>9, <1>10
    DEF Proceed, SaveAndFinish, CollectSave, CollectByCustomerCommit, UpdateCollectionSave,
        DeleteCollectionSave, CollectionRefused, CreateInvoiceCommit, DuplicateRowRollback,
        UpdateInvoiceCommit, UpdateInvoiceRollback, DeleteInvoiceCommit, UpdateIssuedAtSave,
        InvoiceFlagWrite, UpdatePaymentTermsSave, UpdateReceivableNotesSave,
        UpdateWarningStatusesEnd

-----------------------------------------------------------------------------
(* The invariant holds, and what follows from it.                            *)

LEMMA InitOK == Init => IInv
<1> SUFFICES ASSUME Init PROVE IInv OBVIOUS
<1> USE LedgerAssumption DEF Init
<1>1. DbOK
  <2>1. \A i \in InvoiceIds : invoice[i] \in Invoice /\ GoodInvoice(invoice[i])
      BY DEF Invoice, GoodInvoice
  <2>2. \A k \in CollectionIds : collection[k] \in Collection BY DEF Collection
  <2> QED BY <2>1, <2>2 DEF DbOK
<1>5. RowsOK BY DEF RowsOK, NoRows
<1>6. LooksOK BY NoArgType DEF LooksOK, Rows
<1>2. ASSUME NEW w \in Workers PROVE ProgressOK("idle", NoArg, NoRows, None)
    BY DEF ProgressOK, NoRows, NeedsRow, NeedsCustomer, NeedsInvoice, NeedsCollectionId,
           NeedsInvoiceId
<1>3. WorkersOK BY <1>2, NoArgType DEF WorkersOK, Rows, Step
<1>4. RewritersOK BY DEF RewritersOK, Rewriting, Deleting, NeedsInvoice
<1> QED BY <1>1, <1>3, <1>4, <1>5, <1>6 DEF IInv, LInv

LEMMA LooksKept == LInv /\ LooksOK /\ [Next]_vars => LooksOK'
<1> SUFFICES ASSUME LInv, LooksOK, [Next]_vars PROVE LooksOK' OBVIOUS
<1> USE DEF LooksOK
<1>0. ASSUME UNCHANGED <<looked, lookedInv>> PROVE LooksOK' BY <1>0
<1>1. ASSUME NEW w \in Workers, Finish(w) PROVE LooksOK' BY <1>1, NoArgType DEF Finish, Rows
<1>2. ASSUME NEW w \in Workers, Request(w) PROVE LooksOK'
    BY <1>0, <1>2
    DEF Request, Start, CollectRead, CollectByCustomerRead, UpdateCollectionRead,
        DeleteCollectionRead, CreateInvoiceRead, UpdateInvoiceRead, DeleteInvoiceRead,
        InvoiceFlagRead, UpdateIssuedAtRead, UpdateReceivableNotesRead, UpdatePaymentTermsRead,
        UpdateWarningStatusesRead
<1>3. ASSUME NEW w \in Workers, Proceed(w) PROVE LooksOK'
  <2>1. CASE LookInvoice(w)
    <3>1. arg[w].inv \in InvoiceIds
        BY <2>1 DEF LookInvoice, SavesInvoice, LInv, WorkersOK, ProgressOK, NeedsInvoiceId
    <3>2. invoice[arg[w].inv] \in Invoice BY <3>1 DEF LInv, DbOK
    <3> QED BY <2>1, <3>2 DEF LookInvoice
  <2>2. ASSUME NEW c \in Customers, Look(w, c) PROVE LooksOK'
      BY <2>2 DEF Look, LInv, DbOK
  <2>3. CASE UpdateIssuedAtWrite(w) BY <2>3 DEF UpdateIssuedAtWrite
  <2>4. ASSUME NEW c \in Customers, UpdateWarningStatusesStep(w, c) PROVE LooksOK'
      BY <2>4, NoArgType DEF UpdateWarningStatusesStep, Rows
  <2> QED
      BY <1>0, <1>1, <1>3, <2>1, <2>2, <2>3, <2>4
      DEF Proceed, Goto, SaveAndFinish, CollectInsert, CollectSave, CollectByCustomerCommit,
          UpdateCollectionFind, UpdateCollectionWrite, UpdateCollectionSave, DeleteCollectionFind,
          DeleteCollectionRemove, DeleteCollectionSave, CollectionRefused, CreateInvoiceCommit,
          DuplicateRowRollback, UpdateInvoiceBegin, UpdateInvoiceCommit, UpdateInvoiceRollback,
          DeleteInvoiceFind, DeleteInvoiceCommit, UpdateIssuedAtFind, UpdateIssuedAtSave,
          InvoiceFlagWrite, UpdatePaymentTermsSave, UpdateReceivableNotesSave,
          UpdateWarningStatusesEnd
<1>4. ASSUME NEW w \in Workers, Fail(w) PROVE LooksOK' BY <1>1, <1>4 DEF Fail
<1> QED BY <1>0, <1>1, <1>2, <1>3, <1>4 DEF Next, CancelSale, NextDay, vars

LEMMA NextKeeps == IInv /\ [Next]_vars => IInv'
<1> SUFFICES ASSUME IInv, [Next]_vars PROVE IInv' OBVIOUS
<1>a. LInv /\ RewritersOK BY DEF IInv
<1>k. LooksOK' BY <1>a, LooksKept DEF IInv
<1>1. ASSUME NEW w \in Workers, Request(w) PROVE IInv'
    BY <1>a, <1>k, <1>1, RequestKeeps, RequestKeepsRewriters DEF IInv
<1>2. ASSUME NEW w \in Workers, Proceed(w) PROVE IInv'
    BY <1>a, <1>k, <1>2, ProceedKeeps, ProceedKeepsRewriters DEF IInv
<1>3. ASSUME NEW w \in Workers, Fail(w) PROVE IInv'
  <2>1. UNCHANGED db /\ Finish(w) BY <1>3 DEF Fail
  <2>2. DbOK' /\ WorkersOK' /\ RowsOK'
      BY <1>a, <2>1, DbKept, FinishKeeps, FinishLoads, LoadsKeepRows DEF LInv, db
  <2>3. InvoicesStay BY <2>1 DEF db, InvoicesStay
  <2>4. RewritersOK' BY <1>a, <2>1, <2>3, MoveKeepsRewriters DEF Finish, Rewriting, Deleting, NeedsInvoice
  <2> QED BY <1>k, <2>2, <2>4 DEF IInv, LInv
<1>b. ASSUME UNCHANGED <<pc, arg, held, heldInv, started, ar, torn, invoice>>
      PROVE  WorkersOK' /\ RewritersOK' /\ RowsOK' /\ LooksOK'
    BY <1>a, <1>b, <1>k DEF LInv, WorkersOK, RewritersOK, ProgressOK, RowsOK, GoodFor
<1>4. ASSUME NEW i \in InvoiceIds, CancelSale(i) PROVE IInv'
  <2>1. DbOK' BY <1>a, <1>4 DEF CancelSale, LInv, DbOK
  <2> QED BY <1>b, <1>4, <2>1 DEF CancelSale, IInv, LInv
<1>5. ASSUME NEW d \in Days, NextDay(d) PROVE IInv'
  <2>1. DbOK' BY <1>a, <1>5 DEF NextDay, LInv, DbOK
  <2> QED BY <1>b, <1>5, <2>1 DEF NextDay, IInv, LInv
<1>6. CASE UNCHANGED vars
  <2>1. DbOK' BY <1>a, <1>6, DbKept DEF vars, db, LInv
  <2>2. WorkersOK' /\ RewritersOK' /\ RowsOK' /\ LooksOK' BY <1>b, <1>6 DEF vars, db
  <2> QED BY <2>1, <2>2 DEF IInv, LInv
<1> QED BY <1>1, <1>2, <1>3, <1>4, <1>5, <1>6 DEF Next

THEOREM IndInv == Spec => []IInv
BY InitOK, NextKeeps, PTL DEF Spec

\* Every variable keeps its type: in particular no handler posts to a row, or
\* writes back an invoice, that it does not have.
THEOREM TypeCorrect == Spec => []TypeOK
<1>1. IInv => TypeOK BY DEF IInv, LInv, LooksOK, DbOK, WorkersOK, TypeOK
<1> QED BY <1>1, IndInv, PTL

\* However many requests overlap or die, whatever the amounts (refunds too), a
\* receivable never shows less than its sales minus its collections, until two
\* saves of it have each written some of its columns.
THEOREM BalanceNeverUnderstated == Spec => []BalanceNotUnderstated
<1>1. IInv => BalanceNotUnderstated BY 
    DEF IInv, LInv, RowsOK, GoodFor, GoodRow, BalanceNotUnderstated
<1> QED BY <1>1, IndInv, PTL

\* However many requests overlap or die, no receivable with money owed is
\* COMPLETED, and PARTIAL means that a part is paid and a part is owed, until two
\* saves of it have each written some of its columns.
THEOREM StatusAlwaysAgrees == Spec => []StatusAgreesWithBalance
<1>1. IInv => StatusAgreesWithBalance
    BY DEF IInv, LInv, RowsOK, GoodFor, GoodRow, StatusAgreesWithBalance
<1> QED BY <1>1, IndInv, PTL
-----------------------------------------------------------------------------
(* One request at a time.  What it has read is then what the database holds: *)
(* the rows it will write back are not stale, and the amounts it remembers   *)
(* are current.                                                              *)

OneAtATime == \A v, w \in Workers : v = w

Holding == NeedsRow \cup {"collectByCustomer.commit", "createInvoice.commit",
                          "updateInvoice.commit", "deleteInvoice.commit",
                          "updateIssuedAt.save"}
Adding    == {"collect.insert", "collectByCustomer.commit"}
Editing   == {"updateInvoice.begin", "updateInvoice.commit"}
Redating  == {"updateIssuedAt.write", "updateIssuedAt.find", "updateIssuedAt.save"}
Recorded  == {"collect.save", "updateCollection.save"}
Replacing == {"updateCollection.find", "updateCollection.write"}

\* p, a, h and hi are the step, the argument, the rows and the invoice of the
\* request, as in ProgressOK.
HeldIsCurrent(p, a, h, hi) ==
    /\ \A c \in Customers : h[c] # None => h[c] = ar[c]
    /\ p \in Holding => h[a.cust] = ar[a.cust]
    /\ p \in NeedsInvoice => a.inv \in InvoiceIds /\ hi = invoice[a.inv]

InvoiceIsCurrent(p, a) ==
    LET v == invoice[a.inv] IN
    /\ p = "createInvoice.commit" =>
          a.inv \in InvoiceIds /\ v.state = "unused" /\ a.amt \in InvoiceAmounts
    /\ p \in Editing =>
          /\ MayChangeCustomer \/ v.cust = a.cust
          /\ v.amt = a.old /\ a.amt \in InvoiceAmounts
    /\ p \in Deleting => v.state = "live" /\ v.receivable = a.cust /\ v.amt = a.amt
    /\ p \in Redating => a.inv \in InvoiceIds /\ v.cust = a.cust

CollectionIsCurrent(p, a) ==
    LET k == collection[a.col]
        LiveAs(amount) == k.state = "live" /\ k.cust = a.cust /\ k.amt = amount
    IN
    /\ p \in Adding \cup Recorded \cup {"deleteCollection.save"} => a.col \in CollectionIds
    /\ p \in Adding \cup Recorded \cup Replacing => a.amt \in MoneyAmounts
    /\ p \in Adding => k.state = "unused"
    /\ p \in Recorded => LiveAs(a.amt)
    /\ p = "updateCollection.write" => LiveAs(a.old)
    /\ p = "updateCollection.save" => a.old \in MoneyAmounts
    /\ p = "deleteCollection.remove" => LiveAs(a.amt)
    /\ p = "deleteCollection.save" => k.state = "removed" /\ a.amt \in MoneyAmounts

AloneOK(p, a, h, hi) ==
    HeldIsCurrent(p, a, h, hi) /\ InvoiceIsCurrent(p, a) /\ CollectionIsCurrent(p, a)

\* Every invoice and every collection has a customer with a receivable.
InvoicesOwned ==
    \A i \in InvoiceIds : invoice[i].state # "unused" =>
        /\ invoice[i].amt \in InvoiceAmounts /\ ar[invoice[i].receivable] # None
        /\ MayChangeCustomer \/ invoice[i].cust = invoice[i].receivable
CollectionsOwned ==
    \A k \in CollectionIds : collection[k].state = "live" =>
        /\ collection[k].cust \in Customers /\ collection[k].amt \in MoneyAmounts
        /\ ar[collection[k].cust] # None

CurrentInv ==
    /\ InvoicesOwned /\ CollectionsOwned
    /\ \A w \in Workers : AloneOK(pc[w], arg[w], held[w], heldInv[w])

\* No other request is about to write, so no save looks apart from its write,
\* and what a save leaves is the row it holds.
NoneLooked == \A w \in Workers : looked[w] = NoRows /\ lookedInv[w] = None

AloneInv == CurrentInv /\ NoneLooked

Saved(c, row) == ar' = [ar EXCEPT ![c] = row]
SavedAndFinished(w, step, row) ==
    /\ pc[w] = step
    /\ Saved(arg[w].cust, row)
    /\ Finish(w)
    /\ UNCHANGED <<invoice, collection, saleCancelled, today>>

LEMMA SavesWhole ==
    ASSUME LInv, NoneLooked, NEW w \in Workers
    PROVE  /\ \A c, row, assigned : SaveRow(w, c, row, assigned) => Saved(c, row)
           /\ \A step, row, assigned :
                 SaveAndFinish(w, step, row, assigned) => SavedAndFinished(w, step, row)
           /\ \A row : SaveInvoice(w, row) => invoice' = [invoice EXCEPT ![arg[w].inv] = row]
<1>1. ASSUME NEW c, NEW row, NEW assigned, SaveRow(w, c, row, assigned) PROVE Saved(c, row)
  <2>1. PICK left : /\ left = Left(row, looked[w][c], ar[c], assigned)
                    /\ ar' = [ar EXCEPT ![c] = left]
      BY <1>1 DEF SaveRow
  <2>2. CASE c \in Customers
    <3>1. looked[w][c] = None BY <2>2 DEF NoneLooked, NoRows
    <3> QED BY <2>1, <3>1 DEF Left, Saved
  <2>3. CASE c \notin Customers BY <2>1, <2>3 DEF Saved, LInv, DbOK
  <2> QED BY <2>2, <2>3
<1>2. ASSUME NEW step, NEW row, NEW assigned, SaveAndFinish(w, step, row, assigned)
      PROVE  SavedAndFinished(w, step, row)
    BY <1>1, <1>2 DEF SaveAndFinish, SavedAndFinished
<1>3. ASSUME NEW row, SaveInvoice(w, row) PROVE invoice' = [invoice EXCEPT ![arg[w].inv] = row]
    BY <1>3 DEF SaveInvoice, Left, NoneLooked
<1> QED BY <1>1, <1>2, <1>3

LEMMA NoneLookedKept ==
    ASSUME LInv, LooksOK, NoneLooked, OneAtATime, [Next]_vars PROVE NoneLooked'
<1> USE DEF NoneLooked, LooksOK
<1>0. ASSUME UNCHANGED <<looked, lookedInv>> PROVE NoneLooked' BY <1>0
<1>1. ASSUME NEW w \in Workers, Finish(w) PROVE NoneLooked' BY <1>1 DEF Finish
<1>2. ASSUME NEW w \in Workers, Request(w) PROVE NoneLooked'
    BY <1>0, <1>2
    DEF Request, Start, CollectRead, CollectByCustomerRead, UpdateCollectionRead,
        DeleteCollectionRead, CreateInvoiceRead, UpdateInvoiceRead, DeleteInvoiceRead,
        InvoiceFlagRead, UpdateIssuedAtRead, UpdateReceivableNotesRead, UpdatePaymentTermsRead,
        UpdateWarningStatusesRead
<1>3. ASSUME NEW w \in Workers, Proceed(w) PROVE NoneLooked'
  <2>1. CASE LookInvoice(w) \/ \E c \in Customers : Look(w, c)
      BY <2>1 DEF LookInvoice, Look, OtherAt, OneAtATime
  <2>2. CASE UpdateIssuedAtWrite(w) BY <2>2 DEF UpdateIssuedAtWrite
  <2>3. ASSUME NEW c \in Customers, UpdateWarningStatusesStep(w, c) PROVE NoneLooked'
      BY <2>3 DEF UpdateWarningStatusesStep
  <2> QED
      BY <1>0, <1>1, <1>3, <2>1, <2>2, <2>3
      DEF Proceed, Goto, SaveAndFinish, CollectInsert, CollectSave, CollectByCustomerCommit,
          UpdateCollectionFind, UpdateCollectionWrite, UpdateCollectionSave, DeleteCollectionFind,
          DeleteCollectionRemove, DeleteCollectionSave, CollectionRefused, CreateInvoiceCommit,
          DuplicateRowRollback, UpdateInvoiceBegin, UpdateInvoiceCommit, UpdateInvoiceRollback,
          DeleteInvoiceFind, DeleteInvoiceCommit, UpdateIssuedAtFind, UpdateIssuedAtSave,
          InvoiceFlagWrite, UpdatePaymentTermsSave, UpdateReceivableNotesSave,
          UpdateWarningStatusesEnd
<1>4. ASSUME NEW w \in Workers, Fail(w) PROVE NoneLooked' BY <1>1, <1>4 DEF Fail
<1> QED BY <1>0, <1>1, <1>2, <1>3, <1>4 DEF Next, CancelSale, NextDay, vars

LEMMA AloneMoves ==
    ASSUME LInv, OneAtATime, NEW w \in Workers, NEW p, NEW a, NEW h, NEW hi,
           pc' = [pc EXCEPT ![w] = p], arg' = [arg EXCEPT ![w] = a],
           held' = [held EXCEPT ![w] = h], heldInv' = [heldInv EXCEPT ![w] = hi]
    PROVE  /\ pc'[w] = p /\ arg'[w] = a /\ held'[w] = h /\ heldInv'[w] = hi
           /\ \A v \in Workers : v = w
BY DEF LInv, WorkersOK, OneAtATime

\* A step that leaves the database alone.
LEMMA AloneReads ==
    ASSUME LInv, CurrentInv, OneAtATime, UNCHANGED db,
           NEW w \in Workers, NEW p, NEW a, NEW h, NEW hi, AloneOK(p, a, h, hi),
           pc' = [pc EXCEPT ![w] = p], arg' = [arg EXCEPT ![w] = a],
           held' = [held EXCEPT ![w] = h], heldInv' = [heldInv EXCEPT ![w] = hi]
    PROVE  CurrentInv'
<1>1. InvoicesOwned' /\ CollectionsOwned' BY DEF CurrentInv, db, InvoicesOwned, CollectionsOwned
<1>2. /\ pc'[w] = p /\ arg'[w] = a /\ held'[w] = h /\ heldInv'[w] = hi
      /\ \A v \in Workers : v = w
    BY AloneMoves
<1>3. AloneOK(pc'[w], arg'[w], held'[w], heldInv'[w]) BY <1>2
<1>4. ASSUME NEW v \in Workers PROVE AloneOK(pc[v], arg[v], held[v], heldInv[v])'
    BY <1>2, <1>3 DEF db, AloneOK, HeldIsCurrent, InvoiceIsCurrent, CollectionIsCurrent
<1> QED BY <1>1, <1>4 DEF CurrentInv

\* The last step of a request has only the database to answer for.
LEMMA IdleAlone == AloneOK("idle", NoArg, NoRows, None)
BY DEF AloneOK, HeldIsCurrent, InvoiceIsCurrent, CollectionIsCurrent, NoRows, Holding,
       NeedsRow, NeedsInvoice, Editing, Deleting, Redating, Adding, Recorded, Replacing

LEMMA AloneFinishes ==
    ASSUME LInv, OneAtATime, NEW w \in Workers, Finish(w), InvoicesOwned', CollectionsOwned'
    PROVE  CurrentInv'
<1>1. /\ pc'[w] = "idle" /\ arg'[w] = NoArg /\ held'[w] = NoRows /\ heldInv'[w] = None
      /\ \A v \in Workers : v = w
    BY AloneMoves DEF Finish
<1>2. AloneOK(pc[w], arg[w], held[w], heldInv[w])'
    BY <1>1 DEF AloneOK, HeldIsCurrent, InvoiceIsCurrent, CollectionIsCurrent, NoRows, Holding,
       NeedsRow, NeedsInvoice, Editing, Deleting, Redating, Adding, Recorded, Replacing
<1>3. \A v \in Workers : AloneOK(pc[v], arg[v], held[v], heldInv[v])' BY <1>1, <1>2
<1> QED BY <1>3 DEF CurrentInv

LEMMA StartsHolding ==
    ASSUME LInv, CurrentInv, OneAtATime, UNCHANGED db,
           NEW w \in Workers, NEW p, NEW a, NEW c \in Customers, a.cust = c,
           Start(w, p, a), Hold(w, c), heldInv' = heldInv, p \notin NeedsInvoice,
           InvoiceIsCurrent(p, a), CollectionIsCurrent(p, a)
    PROVE  CurrentInv'
<1> DEFINE h == [NoRows EXCEPT ![c] = ar[c]]
<1>1. h[c] = ar[c] /\ \A d \in Customers : h[d] # None => h[d] = ar[d] BY DEF NoRows
<1>2. AloneOK(p, a, h, heldInv[w])
  <2> HIDE DEF h
  <2> QED BY <1>1 DEF AloneOK, HeldIsCurrent
<1>3. /\ pc' = [pc EXCEPT ![w] = p] /\ arg' = [arg EXCEPT ![w] = a]
      /\ held' = [held EXCEPT ![w] = h] /\ heldInv' = [heldInv EXCEPT ![w] = heldInv[w]]
    BY DEF Start, Hold, LInv, WorkersOK
<1> HIDE DEF h
<1> QED BY <1>2, <1>3, AloneReads, ZenonT(30)

LEMMA StartsBare ==
    ASSUME LInv, CurrentInv, OneAtATime, UNCHANGED db,
           NEW w \in Workers, NEW p, NEW a, NEW hi,
           Start(w, p, a), held' = held, heldInv' = [heldInv EXCEPT ![w] = hi],
           p \notin Holding, p \in NeedsInvoice => a.inv \in InvoiceIds /\ hi = invoice[a.inv],
           InvoiceIsCurrent(p, a), CollectionIsCurrent(p, a)
    PROVE  CurrentInv'
<1>1. \A c \in Customers : held[w][c] # None => held[w][c] = ar[c]
    BY DEF CurrentInv, AloneOK, HeldIsCurrent
<1>2. AloneOK(p, a, held[w], hi) BY <1>1 DEF AloneOK, HeldIsCurrent
<1>3. /\ pc' = [pc EXCEPT ![w] = p] /\ arg' = [arg EXCEPT ![w] = a]
      /\ held' = [held EXCEPT ![w] = held[w]]
    BY DEF Start, LInv, WorkersOK
<1> QED BY <1>2, <1>3, AloneReads, ZenonT(30)

LEMMA RequestAlone ==
    ASSUME LInv, CurrentInv, OneAtATime, NEW w \in Workers, Request(w)
    PROVE  CurrentInv'
<1>h. heldInv' = heldInv => heldInv' = [heldInv EXCEPT ![w] = heldInv[w]]
    BY DEF LInv, WorkersOK
<1> USE DEF InvoiceIsCurrent, CollectionIsCurrent, Editing, Deleting, Redating, Adding,
            Recorded, Replacing
<1>1. ASSUME NEW c \in Customers, NEW k \in CollectionIds, NEW a \in MoneyAmounts,
             CollectRead(w, c, k, a)
      PROVE  CurrentInv'
  <2> DEFINE x == [NoArg EXCEPT !.cust = c, !.col = k, !.amt = a]
             p == "collect.insert"
  <2>1. x.cust = c /\ x.col = k /\ x.amt = a BY DEF NoArg
  <2>2. Start(w, p, x) /\ Hold(w, c) /\ heldInv' = heldInv /\ UNCHANGED db /\ SpareCollection(k)
      BY <1>1 DEF CollectRead
  <2> HIDE DEF x
  <2>3. InvoiceIsCurrent(p, x) /\ CollectionIsCurrent(p, x) /\ p \notin NeedsInvoice
      BY <2>1, <2>2 DEF SpareCollection, NeedsInvoice
  <2> HIDE DEF p
  <2> QED BY <2>1, <2>2, <2>3, StartsHolding
<1>2. ASSUME NEW c \in Customers, NEW k \in CollectionIds, NEW a \in MoneyAmounts,
             CollectByCustomerRead(w, c, k, a)
      PROVE  CurrentInv'
  <2> DEFINE x == [NoArg EXCEPT !.cust = c, !.col = k, !.amt = a]
             p == "collectByCustomer.commit"
  <2>1. x.cust = c /\ x.col = k /\ x.amt = a BY DEF NoArg
  <2>2. Start(w, p, x) /\ Hold(w, c) /\ heldInv' = heldInv /\ UNCHANGED db /\ SpareCollection(k)
      BY <1>2 DEF CollectByCustomerRead
  <2> HIDE DEF x
  <2>3. InvoiceIsCurrent(p, x) /\ CollectionIsCurrent(p, x) /\ p \notin NeedsInvoice
      BY <2>1, <2>2 DEF SpareCollection, NeedsInvoice
  <2> HIDE DEF p
  <2> QED BY <2>1, <2>2, <2>3, StartsHolding
<1>3. ASSUME NEW c \in Customers, NEW k \in CollectionIds, NEW a \in MoneyAmounts,
             UpdateCollectionRead(w, c, k, a)
      PROVE  CurrentInv'
  <2> DEFINE x == [NoArg EXCEPT !.cust = c, !.col = k, !.amt = a]
             p == "updateCollection.find"
  <2>1. x.cust = c /\ x.col = k /\ x.amt = a BY DEF NoArg
  <2>2. Start(w, p, x) /\ Hold(w, c) /\ heldInv' = heldInv /\ UNCHANGED db
      BY <1>3 DEF UpdateCollectionRead
  <2> HIDE DEF x
  <2>3. InvoiceIsCurrent(p, x) /\ CollectionIsCurrent(p, x) /\ p \notin NeedsInvoice
      BY <2>1, <2>2 DEF NeedsInvoice
  <2> HIDE DEF p
  <2> QED BY <2>1, <2>2, <2>3, StartsHolding
<1>4. ASSUME NEW c \in Customers, NEW k \in CollectionIds, DeleteCollectionRead(w, c, k)
      PROVE  CurrentInv'
  <2> DEFINE x == [NoArg EXCEPT !.cust = c, !.col = k]
             p == "deleteCollection.find"
  <2>1. x.cust = c BY DEF NoArg
  <2>2. Start(w, p, x) /\ Hold(w, c) /\ heldInv' = heldInv /\ UNCHANGED db
      BY <1>4 DEF DeleteCollectionRead
  <2> HIDE DEF x
  <2>3. InvoiceIsCurrent(p, x) /\ CollectionIsCurrent(p, x) /\ p \notin NeedsInvoice
      BY DEF NeedsInvoice
  <2> HIDE DEF p
  <2> QED BY <2>1, <2>2, <2>3, StartsHolding
<1>5. ASSUME NEW c \in Customers, NEW i \in InvoiceIds, NEW a \in InvoiceAmounts, NEW d \in Days,
             CreateInvoiceRead(w, c, i, a, d)
      PROVE  CurrentInv'
  <2> DEFINE x == [NoArg EXCEPT !.cust = c, !.inv = i, !.amt = a, !.day = d]
             p == "createInvoice.commit"
  <2>1. x.cust = c /\ x.inv = i /\ x.amt = a BY DEF NoArg
  <2>2. Start(w, p, x) /\ Hold(w, c) /\ heldInv' = heldInv /\ UNCHANGED db /\ SpareInvoice(i)
      BY <1>5 DEF CreateInvoiceRead
  <2> HIDE DEF x
  <2>3. InvoiceIsCurrent(p, x) /\ CollectionIsCurrent(p, x) /\ p \notin NeedsInvoice
      BY <2>1, <2>2 DEF SpareInvoice, NeedsInvoice
  <2> HIDE DEF p
  <2> QED BY <2>1, <2>2, <2>3, StartsHolding
<1>6. ASSUME NEW c \in Customers, NEW i \in InvoiceIds, NEW a \in InvoiceAmounts,
             UpdateInvoiceRead(w, i, c, a)
      PROVE  CurrentInv'
  <2> DEFINE x == [NoArg EXCEPT !.cust = c, !.inv = i, !.amt = a, !.old = invoice[i].amt]
             p == "updateInvoice.begin"
  <2>1. x.cust = c /\ x.inv = i /\ x.amt = a /\ x.old = invoice[i].amt BY DEF NoArg
  <2>2. /\ Start(w, p, x) /\ held' = held /\ heldInv' = heldInv /\ UNCHANGED db
        /\ MayChangeCustomer \/ c = invoice[i].cust
      BY <1>6 DEF UpdateInvoiceRead
  <2> HIDE DEF x
  <2>3. /\ InvoiceIsCurrent(p, x) /\ CollectionIsCurrent(p, x)
        /\ p \notin NeedsInvoice /\ p \notin Holding
      BY <2>1, <2>2 DEF NeedsInvoice, Holding, NeedsRow
  <2> HIDE DEF p
  <2> QED BY <1>h, <2>1, <2>2, <2>3, StartsBare
<1>7. ASSUME NEW i \in InvoiceIds, DeleteInvoiceRead(w, i) PROVE CurrentInv'
  <2> DEFINE x == [NoArg EXCEPT !.cust = invoice[i].receivable, !.inv = i, !.amt = invoice[i].amt]
             p == "deleteInvoice.find"
  <2>1. x.cust = invoice[i].receivable /\ x.inv = i /\ x.amt = invoice[i].amt BY DEF NoArg
  <2>2. /\ Start(w, p, x) /\ held' = held /\ heldInv' = heldInv /\ UNCHANGED db
        /\ invoice[i].state = "live"
      BY <1>7 DEF DeleteInvoiceRead
  <2> HIDE DEF x
  <2>3. /\ InvoiceIsCurrent(p, x) /\ CollectionIsCurrent(p, x)
        /\ p \notin NeedsInvoice /\ p \notin Holding
      BY <2>1, <2>2 DEF NeedsInvoice, Holding, NeedsRow
  <2> HIDE DEF p
  <2> QED BY <1>h, <2>1, <2>2, <2>3, StartsBare
<1>8. ASSUME NEW i \in InvoiceIds, InvoiceFlagRead(w, i) PROVE CurrentInv'
  <2> DEFINE x == [NoArg EXCEPT !.inv = i]
             p == "invoiceFlag.write"
  <2>1. x.inv = i BY DEF NoArg
  <2>2. /\ Start(w, p, x) /\ held' = held /\ heldInv' = [heldInv EXCEPT ![w] = invoice[i]]
        /\ UNCHANGED db
      BY <1>8 DEF InvoiceFlagRead
  <2> HIDE DEF x
  <2>3. InvoiceIsCurrent(p, x) /\ CollectionIsCurrent(p, x) /\ p \notin Holding
      BY DEF Holding, NeedsRow
  <2> HIDE DEF p
  <2> QED BY <2>1, <2>2, <2>3, StartsBare
<1>9. ASSUME NEW i \in InvoiceIds, NEW d \in Days, UpdateIssuedAtRead(w, i, d) PROVE CurrentInv'
  <2> DEFINE x == [NoArg EXCEPT !.cust = invoice[i].cust, !.inv = i, !.day = d]
             p == "updateIssuedAt.write"
  <2>1. x.inv = i /\ x.cust = invoice[i].cust BY DEF NoArg
  <2>2. /\ Start(w, p, x) /\ held' = held /\ heldInv' = [heldInv EXCEPT ![w] = invoice[i]]
        /\ UNCHANGED db
      BY <1>9 DEF UpdateIssuedAtRead
  <2> HIDE DEF x
  <2>3. InvoiceIsCurrent(p, x) /\ CollectionIsCurrent(p, x) /\ p \notin Holding
      BY <2>1 DEF Holding, NeedsRow
  <2> HIDE DEF p
  <2> QED BY <2>1, <2>2, <2>3, StartsBare
<1>10. ASSUME NEW c \in Customers, NEW x, NEW p \in {"updateReceivableNotes.save",
                                                     "updatePaymentTerms.save"},
              x.cust = c, Start(w, p, x), Hold(w, c), UNCHANGED <<db, heldInv>>
       PROVE  CurrentInv'
  <2>1. InvoiceIsCurrent(p, x) /\ CollectionIsCurrent(p, x) /\ p \notin NeedsInvoice
      BY DEF NeedsInvoice
  <2> QED BY <1>10, <2>1, StartsHolding
<1>11. ASSUME NEW c \in Customers, UpdateReceivableNotesRead(w, c) PROVE CurrentInv'
  <2> DEFINE x == [NoArg EXCEPT !.cust = c]
  <2>1. x.cust = c BY DEF NoArg
  <2>2. Start(w, "updateReceivableNotes.save", x) /\ Hold(w, c) /\ UNCHANGED <<db, heldInv>>
      BY <1>11 DEF UpdateReceivableNotesRead
  <2> HIDE DEF x
  <2> QED BY <2>1, <2>2, <1>10
<1>12. ASSUME NEW c \in Customers, NEW t \in PaymentTerms, UpdatePaymentTermsRead(w, c, t)
       PROVE  CurrentInv'
  <2> DEFINE x == [NoArg EXCEPT !.cust = c, !.day = t]
  <2>1. x.cust = c BY DEF NoArg
  <2>2. Start(w, "updatePaymentTerms.save", x) /\ Hold(w, c) /\ UNCHANGED <<db, heldInv>>
      BY <1>12 DEF UpdatePaymentTermsRead
  <2> HIDE DEF x
  <2> QED BY <2>1, <2>2, <1>10
<1>13. ASSUME UpdateWarningStatusesRead(w) PROVE CurrentInv'
  <2> DEFINE x == [NoArg EXCEPT !.day = today]
             h == [c \in Customers |-> IF Unsettled(c) THEN ar[c] ELSE None]
             p == "updateWarningStatuses.loop"
  <2>1. \A d \in Customers : h[d] # None => h[d] = ar[d] OBVIOUS
  <2>2. /\ pc' = [pc EXCEPT ![w] = p] /\ arg' = [arg EXCEPT ![w] = x] /\ UNCHANGED db
        /\ held' = [held EXCEPT ![w] = h] /\ heldInv' = [heldInv EXCEPT ![w] = heldInv[w]]
      BY <1>h, <1>13 DEF UpdateWarningStatusesRead, Start
  <2> HIDE DEF x, h
  <2>3. AloneOK(p, x, h, heldInv[w])
      BY <2>1 DEF AloneOK, HeldIsCurrent, Holding, NeedsRow, NeedsInvoice
  <2> HIDE DEF p
  <2> QED BY <2>2, <2>3, AloneReads, ZenonT(30)
<1> QED
    BY <1>1, <1>2, <1>3, <1>4, <1>5, <1>6, <1>7, <1>8, <1>9, <1>11, <1>12, <1>13 DEF Request

LEMMA SavesAlone ==
    ASSUME LInv, CurrentInv, OneAtATime, NEW w \in Workers, NEW c, NEW row \in Row,
           Saved(c, row), Finish(w), UNCHANGED <<invoice, collection>>
    PROVE  CurrentInv'
<1>1. \A d \in Customers : ar[d] # None => ar'[d] # None
    BY LedgerAssumption DEF Saved, LInv, DbOK
<1>2. InvoicesOwned'
    BY <1>1 DEF CurrentInv, InvoicesOwned, LInv, DbOK, GoodInvoice, Known
<1>3. CollectionsOwned' BY <1>1 DEF CurrentInv, CollectionsOwned
<1> QED BY <1>2, <1>3, AloneFinishes

\* A step that goes on to write or save the collection.
LEMMA CollectionAlone ==
    ASSUME LInv, CurrentInv, OneAtATime, NEW w \in Workers, NEW p, NEW a,
           pc' = [pc EXCEPT ![w] = p], arg' = [arg EXCEPT ![w] = a], a.cust = arg[w].cust,
           held' = held, heldInv' = heldInv, UNCHANGED <<ar, invoice>>,
           pc[w] \in NeedsRow, p \in NeedsRow, CollectionsOwned',
           CollectionIsCurrent(p, a)'
    PROVE  CurrentInv'
<1>1. /\ held' = [held EXCEPT ![w] = held[w]] /\ heldInv' = [heldInv EXCEPT ![w] = heldInv[w]]
    BY DEF LInv, WorkersOK
<1>2. /\ pc'[w] = p /\ arg'[w] = a /\ held'[w] = held[w] /\ heldInv'[w] = heldInv[w]
      /\ \A v \in Workers : v = w
    BY <1>1, AloneMoves
<1>3. InvoicesOwned' BY DEF CurrentInv, InvoicesOwned
<1>4. HeldIsCurrent(p, a, held[w], heldInv[w])'
    BY DEF CurrentInv, AloneOK, HeldIsCurrent, Holding, NeedsRow, NeedsInvoice
<1>5. InvoiceIsCurrent(p, a)'
    BY DEF InvoiceIsCurrent, NeedsRow, Editing, Deleting, Redating
<1>6. AloneOK(pc[w], arg[w], held[w], heldInv[w])'
    BY <1>2, <1>4, <1>5 DEF AloneOK
<1>7. \A v \in Workers : AloneOK(pc[v], arg[v], held[v], heldInv[v])' BY <1>2, <1>6
<1> QED BY <1>3, <1>7 DEF CurrentInv

\* A step that writes back the invoice as it was, or with another date.
LEMMA RedatedOwned ==
    ASSUME LInv, CurrentInv, NEW i \in InvoiceIds, NEW v, UNCHANGED ar,
           invoice' = [invoice EXCEPT ![i] = v], v.state = invoice[i].state,
           v.cust = invoice[i].cust, v.receivable = invoice[i].receivable, v.amt = invoice[i].amt
    PROVE  InvoicesOwned'
BY DEF LInv, DbOK, CurrentInv, InvoicesOwned

\* A step of a transaction that reads the receivable it will post to.
LEMMA AloneHolds ==
    ASSUME LInv, CurrentInv, OneAtATime, UNCHANGED db,
           NEW w \in Workers, NEW p, arg[w].cust \in Customers,
           pc' = [pc EXCEPT ![w] = p], UNCHANGED <<arg, heldInv>>, Hold(w, arg[w].cust),
           p \notin NeedsInvoice, InvoiceIsCurrent(p, arg[w]), CollectionIsCurrent(p, arg[w])
    PROVE  CurrentInv'
<1> DEFINE c == arg[w].cust
           h == [NoRows EXCEPT ![c] = ar[c]]
<1>1. h[c] = ar[c] /\ \A d \in Customers : h[d] # None => h[d] = ar[d] BY DEF NoRows
<1>2. AloneOK(p, arg[w], h, heldInv[w])
  <2> HIDE DEF h
  <2> QED BY <1>1 DEF AloneOK, HeldIsCurrent
<1>3. /\ arg' = [arg EXCEPT ![w] = arg[w]] /\ held' = [held EXCEPT ![w] = h]
      /\ heldInv' = [heldInv EXCEPT ![w] = heldInv[w]]
    BY DEF Hold, LInv, WorkersOK
<1> HIDE DEF h
<1> QED BY <1>2, <1>3, AloneReads, ZenonT(30)

LEMMA ProceedAlone ==
    ASSUME LInv, RewritersOK, CurrentInv, NoneLooked, OneAtATime, NEW w \in Workers, Proceed(w)
    PROVE  CurrentInv'
<1> USE LedgerAssumption
<1>w. /\ \A c, row, assigned : SaveRow(w, c, row, assigned) => Saved(c, row)
      /\ \A step, row, assigned :
            SaveAndFinish(w, step, row, assigned) => SavedAndFinished(w, step, row)
      /\ \A row : SaveInvoice(w, row) => invoice' = [invoice EXCEPT ![arg[w].inv] = row]
    BY SavesWhole
<1>f. ASSUME UNCHANGED db, Finish(w) PROVE CurrentInv'
  <2>1. InvoicesOwned' /\ CollectionsOwned'
      BY <1>f DEF db, CurrentInv, InvoicesOwned, CollectionsOwned
  <2> QED BY <1>f, <2>1, AloneFinishes
<1>a. AloneOK(pc[w], arg[w], held[w], heldInv[w]) BY DEF CurrentInv
<1>b. arg' = arg => arg' = [arg EXCEPT ![w] = arg[w]] BY DEF LInv, WorkersOK
<1>c. /\ pc[w] \in NeedsCustomer => arg[w].cust \in Customers /\ arg[w] \in Arg
      /\ pc[w] \in NeedsRow => HeldRow(w) \in Row /\ ar[arg[w].cust] # None
      /\ pc[w] \in NeedsCollectionId => arg[w].col \in CollectionIds
      /\ pc[w] \in NeedsInvoiceId => arg[w].inv \in InvoiceIds
    BY <1>a, HeldRowGood
    DEF LInv, WorkersOK, ProgressOK, NeedsCustomer, AloneOK, HeldIsCurrent, Holding, HeldRow
<1>1. CASE CollectInsert(w)
  <2>1. pc[w] = "collect.insert" /\ pc[w] \in NeedsRow
      BY <1>1 DEF CollectInsert, Goto, NeedsRow
  <2>2. arg[w].col \in CollectionIds /\ arg[w].amt \in MoneyAmounts
      BY <1>a, <2>1 DEF AloneOK, CollectionIsCurrent, Adding
  <2>3. collection' = [collection EXCEPT ![arg[w].col] = ArgCollection(w)] /\ ar' = ar
      BY <1>1 DEF CollectInsert
  <2>4. CollectionsOwned'
      BY <1>c, <2>1, <2>2, <2>3
      DEF CurrentInv, CollectionsOwned, LInv, DbOK, ArgCollection, NeedsCustomer
  <2>5. CollectionIsCurrent("collect.save", arg[w])'
      BY <1>1, <2>2, <2>3
      DEF CollectInsert, CollectionIsCurrent, Adding, Recorded, Replacing, ArgCollection, LInv, DbOK
  <2> QED
      BY <1>1, <1>b, <2>1, <2>4, <2>5, CollectionAlone DEF CollectInsert, Goto, NeedsRow
<1>2. CASE CollectSave(w)
  <2>1. pc[w] \in NeedsRow BY <1>2 DEF CollectSave, SaveAndFinish, NeedsRow
  <2>2. Collected(HeldRow(w), arg[w].amt) \in Row
      BY <1>c, <2>1, CollectedGood DEF NeedsCustomer, Arg
  <2> QED BY <1>2, <1>w, <2>2, SavesAlone DEF CollectSave, SavedAndFinished
<1>3. CASE CollectByCustomerCommit(w)
  <2> DEFINE base == IF HeldRow(w) = None THEN EmptyRow ELSE HeldRow(w)
             row == CollectedByCustomer(base, arg[w].amt)
             c == arg[w].cust
  <2>1. /\ pc[w] = "collectByCustomer.commit" /\ Finish(w) /\ Saved(c, row)
        /\ collection' = [collection EXCEPT ![arg[w].col] = ArgCollection(w)]
        /\ UNCHANGED invoice
      BY <1>3, <1>w DEF CollectByCustomerCommit
  <2>2. c \in Customers /\ arg[w].amt \in Int BY <1>c, <2>1 DEF NeedsCustomer, Arg
  <2>3. base \in Row BY <2>1, EmptyRowGood, HeldRowGood DEF NeedsCustomer
  <2> HIDE DEF base
  <2>4. row \in Row BY <2>2, <2>3, CollectedByCustomerGood
  <2> HIDE DEF row
  <2>5. \A d \in Customers : (ar[d] # None => ar'[d] # None) /\ ar'[c] # None
      BY <2>1, <2>2, <2>4 DEF Saved, LInv, DbOK
  <2>6. arg[w].amt \in MoneyAmounts
      BY <1>a, <2>1 DEF AloneOK, CollectionIsCurrent, Adding
  <2>7. InvoicesOwned'
      BY <2>1, <2>5 DEF CurrentInv, InvoicesOwned, LInv, DbOK, GoodInvoice, Known
  <2>8. CollectionsOwned'
      BY <2>1, <2>2, <2>5, <2>6 DEF CurrentInv, CollectionsOwned, LInv, DbOK, ArgCollection
  <2> QED BY <2>1, <2>7, <2>8, AloneFinishes
<1>4. CASE UpdateCollectionFind(w)
  <2> DEFINE k == collection[arg[w].col]
  <2>0. PICK a : a = [arg[w] EXCEPT !.old = k.amt] OBVIOUS
  <2>1. pc[w] = "updateCollection.find" /\ pc[w] \in NeedsRow /\ pc[w] \in NeedsCollectionId
      BY <1>4 DEF UpdateCollectionFind, Goto, NeedsRow, NeedsCollectionId
  <2>2. arg[w] \in Arg BY <1>c, <2>1 DEF NeedsCustomer
  <2>3. a.cust = arg[w].cust /\ a.col = arg[w].col /\ a.amt = arg[w].amt /\ a.old = k.amt
      BY <2>0, <2>2 DEF Arg
  <2>4. arg[w].amt \in MoneyAmounts
      BY <1>a, <2>1 DEF AloneOK, CollectionIsCurrent, Adding, Recorded, Replacing
  <2>5. /\ Goto(w, "updateCollection.find", "updateCollection.write")
        /\ k.state = "live" /\ k.cust = arg[w].cust
        /\ arg' = [arg EXCEPT ![w] = a]
        /\ UNCHANGED <<db, held, heldInv>>
      BY <1>4, <2>0 DEF UpdateCollectionFind
  <2>6. CollectionIsCurrent("updateCollection.write", a)'
      BY <2>3, <2>4, <2>5 DEF db, CollectionIsCurrent, Adding, Recorded, Replacing
  <2>7. CollectionsOwned' BY <2>5 DEF db, CurrentInv, CollectionsOwned
  <2> QED BY <2>1, <2>3, <2>5, <2>6, <2>7, CollectionAlone DEF Goto, NeedsRow, db
<1>5. CASE UpdateCollectionWrite(w)
  <2>1. pc[w] = "updateCollection.write" /\ pc[w] \in NeedsRow /\ pc[w] \in NeedsCollectionId
      BY <1>5 DEF UpdateCollectionWrite, Goto, NeedsRow, NeedsCollectionId
  <2>2. /\ arg[w].col \in CollectionIds /\ arg[w].amt \in MoneyAmounts
        /\ collection[arg[w].col].state = "live" /\ collection[arg[w].col].amt = arg[w].old
      BY <1>a, <1>c, <2>1 DEF AloneOK, CollectionIsCurrent, Adding, Recorded, Replacing
  <2>3. arg[w].old \in MoneyAmounts BY <2>2 DEF CurrentInv, CollectionsOwned
  <2>4. collection' = [collection EXCEPT ![arg[w].col] = ArgCollection(w)] /\ ar' = ar
      BY <1>5, <2>2 DEF UpdateCollectionWrite
  <2>5. CollectionsOwned'
      BY <1>c, <2>1, <2>2, <2>4
      DEF CurrentInv, CollectionsOwned, LInv, DbOK, ArgCollection, NeedsCustomer
  <2>6. CollectionIsCurrent("updateCollection.save", arg[w])'
      BY <1>5, <2>2, <2>3, <2>4
      DEF UpdateCollectionWrite, CollectionIsCurrent, Adding, Recorded, Replacing, ArgCollection,
          LInv, DbOK
  <2> QED
      BY <1>5, <1>b, <2>1, <2>5, <2>6, CollectionAlone DEF UpdateCollectionWrite, Goto, NeedsRow
<1>6. CASE UpdateCollectionSave(w)
  <2>1. pc[w] \in NeedsRow BY <1>6 DEF UpdateCollectionSave, SaveAndFinish, NeedsRow
  <2>2. arg[w].amt - arg[w].old \in Int BY <1>c, <2>1 DEF NeedsCustomer, Arg
  <2>3. Corrected(HeldRow(w), arg[w].amt - arg[w].old) \in Row
      BY <1>c, <2>1, <2>2, CorrectedGood
  <2> QED BY <1>6, <1>w, <2>3, SavesAlone DEF UpdateCollectionSave, SavedAndFinished
<1>7. CASE DeleteCollectionFind(w)
  <2> DEFINE k == collection[arg[w].col]
  <2>0. PICK a : a = [arg[w] EXCEPT !.amt = k.amt] OBVIOUS
  <2>1. pc[w] = "deleteCollection.find" /\ pc[w] \in NeedsRow
      BY <1>7 DEF DeleteCollectionFind, Goto, NeedsRow
  <2>2. arg[w] \in Arg BY <1>c, <2>1 DEF NeedsCustomer
  <2>3. a.cust = arg[w].cust /\ a.col = arg[w].col /\ a.amt = k.amt
      BY <2>0, <2>2 DEF Arg
  <2>5. /\ Goto(w, "deleteCollection.find", "deleteCollection.remove")
        /\ k.state = "live" /\ k.cust = arg[w].cust
        /\ arg' = [arg EXCEPT ![w] = a]
        /\ UNCHANGED <<db, held, heldInv>>
      BY <1>7, <2>0 DEF DeleteCollectionFind
  <2>6. CollectionIsCurrent("deleteCollection.remove", a)'
      BY <2>3, <2>5 DEF db, CollectionIsCurrent, Adding, Recorded, Replacing
  <2>7. CollectionsOwned' BY <2>5 DEF db, CurrentInv, CollectionsOwned
  <2> QED BY <2>1, <2>3, <2>5, <2>6, <2>7, CollectionAlone DEF Goto, NeedsRow, db
<1>8. CASE DeleteCollectionRemove(w)
  <2> DEFINE gone == [state |-> "removed", cust |-> None, amt |-> 0]
  <2>1. pc[w] = "deleteCollection.remove" /\ pc[w] \in NeedsRow /\ pc[w] \in NeedsCollectionId
      BY <1>8 DEF DeleteCollectionRemove, Goto, NeedsRow, NeedsCollectionId
  <2>2. /\ arg[w].col \in CollectionIds
        /\ collection[arg[w].col].state = "live" /\ collection[arg[w].col].amt = arg[w].amt
      BY <1>a, <1>c, <2>1 DEF AloneOK, CollectionIsCurrent, Adding, Recorded, Replacing
  <2>3. arg[w].amt \in MoneyAmounts BY <2>2 DEF CurrentInv, CollectionsOwned
  <2>4. collection' = [collection EXCEPT ![arg[w].col] = gone] /\ ar' = ar
      BY <1>8 DEF DeleteCollectionRemove
  <2>5. CollectionsOwned' BY <2>2, <2>4 DEF CurrentInv, CollectionsOwned, LInv, DbOK
  <2>6. CollectionIsCurrent("deleteCollection.save", arg[w])'
      BY <1>8, <2>2, <2>3, <2>4
      DEF DeleteCollectionRemove, CollectionIsCurrent, Adding, Recorded, Replacing, LInv, DbOK
  <2> QED
      BY <1>8, <1>b, <2>1, <2>5, <2>6, CollectionAlone DEF DeleteCollectionRemove, Goto, NeedsRow
<1>9. CASE DeleteCollectionSave(w)
  <2>1. pc[w] \in NeedsRow BY <1>9 DEF DeleteCollectionSave, SaveAndFinish, NeedsRow
  <2>2. Uncollected(HeldRow(w), arg[w].amt) \in Row
      BY <1>c, <2>1, UncollectedGood DEF NeedsCustomer, Arg
  <2> QED BY <1>9, <1>w, <2>2, SavesAlone DEF DeleteCollectionSave, SavedAndFinished
<1>10. CASE CollectionRefused(w) BY <1>10, <1>f DEF CollectionRefused
<1>12. CASE DuplicateRowRollback(w) BY <1>12, <1>f DEF DuplicateRowRollback
<1>15. CASE UpdateInvoiceRollback(w) BY <1>15, <1>f DEF UpdateInvoiceRollback
<1>25. CASE UpdateWarningStatusesEnd(w) BY <1>25, <1>f DEF UpdateWarningStatusesEnd
<1>22. CASE UpdatePaymentTermsSave(w)
  <2> DEFINE t == arg[w].day
             dues == DueDates(CountedInvoices(arg[w].cust), t)
             Dated(d) == [HeldRow(w) EXCEPT !.terms = t, !.due = d]
  <2>1. PICK d \in dues \cup {None} :
          SavedAndFinished(w, "updatePaymentTerms.save", Dated(d))
      BY <1>22, <1>w DEF UpdatePaymentTermsSave
  <2>2. pc[w] = "updatePaymentTerms.save" /\ pc[w] \in NeedsRow
      BY <2>1 DEF SavedAndFinished, NeedsRow
  <2>3. t \in Nat BY <2>2 DEF LInv, WorkersOK, ProgressOK
  <2>4. d \in Int \cup {None} BY <2>3, DueDatesType DEF CountedInvoices, LInv
  <2>5. Dated(d) \in Row BY <1>c, <2>2, <2>3, <2>4, DatedGood
  <2> QED BY <2>1, <2>5, SavesAlone DEF SavedAndFinished
<1>23. CASE UpdateReceivableNotesSave(w)
  <2>1. HeldRow(w) \in Row BY <1>23, <1>c DEF UpdateReceivableNotesSave, SaveAndFinish, NeedsRow
  <2> QED BY <1>23, <1>w, <2>1, SavesAlone DEF UpdateReceivableNotesSave, SavedAndFinished
<1>11. CASE CreateInvoiceCommit(w)
  <2> DEFINE c   == arg[w].cust
             i   == arg[w].inv
             row == IF HeldRow(w) = None THEN FirstSaleRow(arg[w].amt)
                    ELSE Resold(HeldRow(w), HeldRow(w).totalSales + arg[w].amt)
             new == [state |-> "live", cust |-> c, receivable |-> c,
                     amt |-> arg[w].amt, issued |-> arg[w].day]
             others == {j \in InvoiceIds : invoice[j].state # "unused" /\ invoice[j].cust = c}
             dues == DueDates(others, row.terms) \cup {arg[w].day + row.terms}
  <2>1. /\ \E d \in dues : Saved(c, [row EXCEPT !.due = d])
        /\ invoice' = [invoice EXCEPT ![i] = new]
        /\ pc[w] = "createInvoice.commit"
        /\ Finish(w) /\ UNCHANGED <<collection, saleCancelled, today>>
      BY <1>11, <1>w DEF CreateInvoiceCommit
  <2>2. c \in Customers /\ arg[w].amt \in Int /\ arg[w].day \in Int
      BY <1>c, <2>1 DEF NeedsCustomer, Arg
  <2>3. row \in Row
    <3>1. CASE HeldRow(w) = None BY <3>1, <2>2, FirstSaleRowGood
    <3>2. CASE HeldRow(w) # None
      <4>1. HeldRow(w) \in Row BY <2>1, <3>2, HeldRowGood DEF NeedsCustomer
      <4>2. HeldRow(w).totalSales + arg[w].amt \in Int BY <2>2, <4>1 DEF Row
      <4> QED BY <3>2, <4>1, <4>2, ResoldGood
    <3> QED BY <3>1, <3>2
  <2>4. i \in InvoiceIds /\ arg[w].amt \in InvoiceAmounts
      BY <1>a, <2>1 DEF AloneOK, InvoiceIsCurrent
  <2> HIDE DEF row
  <2>5. row.terms \in Nat BY <2>3 DEF Row
  <2>6. dues \subseteq Int
    <3>1. DueDates(others, row.terms) \subseteq Int BY <2>5, DueDatesType DEF LInv
    <3>2. arg[w].day + row.terms \in Int BY <2>2, <2>5
    <3> QED BY <3>1, <3>2
  <2> HIDE DEF dues
  <2>7. PICK d \in dues : Saved(c, [row EXCEPT !.due = d]) BY <2>1
  <2>8. [row EXCEPT !.due = d] \in Row BY <2>3, <2>5, <2>6, <2>7, DatedGood
  <2>9. \A e \in Customers : (ar[e] # None => ar'[e] # None) /\ ar'[c] # None
      BY <2>2, <2>7, <2>8 DEF Saved, LInv, DbOK
  <2>10. InvoicesOwned'
      BY <2>1, <2>2, <2>4, <2>9 DEF CurrentInv, InvoicesOwned, LInv, DbOK, GoodInvoice, Known
  <2>11. CollectionsOwned' BY <2>1, <2>9 DEF CurrentInv, CollectionsOwned
  <2> QED BY <2>1, <2>10, <2>11, AloneFinishes
<1>13. CASE UpdateInvoiceBegin(w)
  <2>1. /\ pc[w] = "updateInvoice.begin" /\ UNCHANGED db
        /\ Goto(w, "updateInvoice.begin", "updateInvoice.commit")
        /\ Hold(w, arg[w].cust) /\ UNCHANGED <<arg, heldInv>>
      BY <1>13 DEF UpdateInvoiceBegin, Goto
  <2>2. arg[w].cust \in Customers BY <1>c, <2>1 DEF NeedsCustomer
  <2>3. InvoiceIsCurrent("updateInvoice.commit", arg[w])
      BY <1>a, <2>1 DEF AloneOK, InvoiceIsCurrent, Editing, Deleting, Redating
  <2>4. CollectionIsCurrent("updateInvoice.commit", arg[w])
      BY DEF CollectionIsCurrent, Adding, Recorded, Replacing
  <2> QED BY <2>1, <2>2, <2>3, <2>4, AloneHolds DEF Goto, NeedsInvoice
<1>14. CASE UpdateInvoiceCommit(w)
  <2> DEFINE i == arg[w].inv
             c == arg[w].cust
             v == [invoice[i] EXCEPT !.cust = c, !.amt = arg[w].amt]
             row == Resold(HeldRow(w), HeldRow(w).totalSales + (arg[w].amt - arg[w].old))
  <2>1. /\ pc[w] = "updateInvoice.commit" /\ invoice' = [invoice EXCEPT ![i] = v]
        /\ Finish(w) /\ UNCHANGED <<collection, saleCancelled, today>>
        /\ invoice[i].state = "live"
        /\ IF HeldRow(w) = None THEN UNCHANGED <<ar, torn>> ELSE Saved(c, row)
      BY <1>14, <1>w DEF UpdateInvoiceCommit, InDetail
  <2>2. /\ c \in Customers /\ i \in InvoiceIds
        /\ arg[w].amt \in Int /\ arg[w].old \in Int
      BY <1>c, <2>1 DEF NeedsCustomer, NeedsInvoiceId, Arg
  <2>3. arg[w].amt \in InvoiceAmounts /\ (MayChangeCustomer \/ invoice[i].cust = c)
      BY <1>a, <2>1 DEF AloneOK, InvoiceIsCurrent, Editing
  <2>4. HeldRow(w) # None => row \in Row
    <3>1. HeldRow(w) # None => HeldRow(w) \in Row BY <2>1, HeldRowGood DEF NeedsCustomer
    <3>2. HeldRow(w) # None => HeldRow(w).totalSales + (arg[w].amt - arg[w].old) \in Int
        BY <2>2, <3>1 DEF Row
    <3> QED BY <3>1, <3>2, ResoldGood
  <2> HIDE DEF row
  <2>5. \A d \in Customers : ar[d] # None => ar'[d] # None
      BY <2>1, <2>4 DEF Saved, LInv, DbOK
  <2>6. /\ v.state = "live" /\ v.cust = c /\ v.receivable = invoice[i].receivable
        /\ v.amt = arg[w].amt
      BY <2>1, <2>2 DEF LInv, DbOK, Invoice
  <2> HIDE DEF v
  <2>7. InvoicesOwned'
      BY <2>1, <2>2, <2>3, <2>5, <2>6 DEF CurrentInv, InvoicesOwned, LInv, DbOK, GoodInvoice, Known
  <2>8. CollectionsOwned' BY <2>1, <2>5 DEF CurrentInv, CollectionsOwned
  <2> QED BY <2>1, <2>7, <2>8, AloneFinishes
<1>16. CASE DeleteInvoiceFind(w)
  <2>1. /\ pc[w] = "deleteInvoice.find" /\ UNCHANGED db
        /\ Goto(w, "deleteInvoice.find", "deleteInvoice.commit")
        /\ Hold(w, arg[w].cust) /\ UNCHANGED <<arg, heldInv>>
      BY <1>16 DEF DeleteInvoiceFind, Goto
  <2>2. arg[w].cust \in Customers BY <1>c, <2>1 DEF NeedsCustomer
  <2>3. InvoiceIsCurrent("deleteInvoice.commit", arg[w])
      BY <1>a, <2>1 DEF AloneOK, InvoiceIsCurrent, Editing, Deleting, Redating
  <2>4. CollectionIsCurrent("deleteInvoice.commit", arg[w])
      BY DEF CollectionIsCurrent, Adding, Recorded, Replacing
  <2> QED BY <2>1, <2>2, <2>3, <2>4, AloneHolds DEF Goto, NeedsInvoice
<1>17. CASE DeleteInvoiceCommit(w)
  <2> DEFINE i == arg[w].inv
             v == [invoice[i] EXCEPT !.state = "deleted"]
             rest == HeldRow(w).totalSales - arg[w].amt
             sales == IF rest < 0 THEN 0 ELSE rest
             row == Resold(HeldRow(w), sales)
  <2>1. /\ pc[w] = "deleteInvoice.commit" /\ invoice' = [invoice EXCEPT ![i] = v]
        /\ Finish(w) /\ UNCHANGED <<collection, saleCancelled, today>>
        /\ IF HeldRow(w) = None THEN UNCHANGED <<ar, torn>> ELSE Saved(arg[w].cust, row)
      BY <1>17, <1>w DEF DeleteInvoiceCommit
  <2>2. i \in InvoiceIds /\ arg[w].amt \in Int
      BY <1>c, <2>1 DEF NeedsCustomer, NeedsInvoiceId, Arg
  <2>3. HeldRow(w) # None => row \in Row
    <3>1. HeldRow(w) # None => HeldRow(w) \in Row BY <2>1, HeldRowGood DEF NeedsCustomer
    <3>2. HeldRow(w) # None => sales \in Int BY <2>2, <3>1 DEF Row
    <3> QED BY <3>1, <3>2, ResoldGood
  <2> HIDE DEF row
  <2>4. \A d \in Customers : ar[d] # None => ar'[d] # None
      BY <2>1, <2>3 DEF Saved, LInv, DbOK
  <2>5. v.cust = invoice[i].cust /\ v.receivable = invoice[i].receivable /\ v.amt = invoice[i].amt
      BY <2>2 DEF LInv, DbOK, Invoice
  <2>6. invoice[i].state # "unused" BY <2>1 DEF RewritersOK, Rewriting, Deleting
  <2> HIDE DEF v
  <2>7. InvoicesOwned'
      BY <2>1, <2>2, <2>4, <2>5, <2>6
      DEF CurrentInv, InvoicesOwned, LInv, DbOK, GoodInvoice, Known
  <2>8. CollectionsOwned' BY <2>1, <2>4 DEF CurrentInv, CollectionsOwned
  <2> QED BY <2>1, <2>7, <2>8, AloneFinishes
<1>18. CASE UpdateIssuedAtWrite(w)
  <2> DEFINE i == arg[w].inv
             v == [invoice[i] EXCEPT !.issued = arg[w].day]
             p == "updateIssuedAt.find"
  <2>1. /\ pc[w] = "updateIssuedAt.write" /\ invoice' = [invoice EXCEPT ![i] = v]
        /\ pc' = [pc EXCEPT ![w] = p] /\ heldInv' = [heldInv EXCEPT ![w] = None]
        /\ i \in InvoiceIds /\ invoice[i].cust = arg[w].cust
        /\ UNCHANGED <<ar, collection, saleCancelled, today, arg, held>>
      BY <1>18, <1>a, <1>w
      DEF UpdateIssuedAtWrite, AloneOK, HeldIsCurrent, InvoiceIsCurrent, NeedsInvoice,
          Redating
  <2>2. /\ v.state = invoice[i].state /\ v.cust = invoice[i].cust
        /\ v.receivable = invoice[i].receivable /\ v.amt = invoice[i].amt
      BY <2>1 DEF LInv, DbOK, Invoice
  <2> HIDE DEF v
  <2>3. InvoicesOwned' BY <2>1, <2>2, RedatedOwned
  <2>4. CollectionsOwned' BY <2>1 DEF CurrentInv, CollectionsOwned
  <2>5. /\ pc'[w] = p /\ arg'[w] = arg[w] /\ held'[w] = held[w] /\ heldInv'[w] = None
        /\ \A u \in Workers : u = w
      BY <1>b, <2>1 DEF Goto, LInv, WorkersOK, OneAtATime
  <2>6. invoice'[i].cust = invoice[i].cust BY <2>1, <2>2 DEF LInv, DbOK
  <2>7. HeldIsCurrent(p, arg[w], held[w], None)'
      BY <1>a, <2>1, <2>5 DEF AloneOK, HeldIsCurrent, Holding, NeedsRow, NeedsInvoice
  <2>8. InvoiceIsCurrent(p, arg[w])' /\ CollectionIsCurrent(p, arg[w])'
      BY <2>1, <2>5, <2>6
      DEF InvoiceIsCurrent, CollectionIsCurrent, Editing, Deleting, Redating, Adding, Recorded,
          Replacing
  <2> HIDE DEF p
  <2>9. AloneOK(pc[w], arg[w], held[w], heldInv[w])' BY <2>5, <2>7, <2>8 DEF AloneOK
  <2>10. \A u \in Workers : AloneOK(pc[u], arg[u], held[u], heldInv[u])' BY <2>5, <2>9
  <2> QED BY <2>3, <2>4, <2>10 DEF CurrentInv
<1>19. CASE UpdateIssuedAtFind(w)
  <2>1. /\ pc[w] = "updateIssuedAt.find" /\ UNCHANGED db
        /\ Goto(w, "updateIssuedAt.find", "updateIssuedAt.save")
        /\ Hold(w, arg[w].cust) /\ UNCHANGED <<arg, heldInv>>
      BY <1>19 DEF UpdateIssuedAtFind, Goto
  <2>2. arg[w].cust \in Customers BY <1>c, <2>1 DEF NeedsCustomer
  <2>3. InvoiceIsCurrent("updateIssuedAt.save", arg[w])
      BY <1>a, <2>1 DEF AloneOK, InvoiceIsCurrent, Editing, Deleting, Redating
  <2>4. CollectionIsCurrent("updateIssuedAt.save", arg[w])
      BY DEF CollectionIsCurrent, Adding, Recorded, Replacing
  <2> QED BY <2>1, <2>2, <2>3, <2>4, AloneHolds DEF Goto, NeedsInvoice
<1>20. CASE UpdateIssuedAtSave(w)
  <2> DEFINE c == arg[w].cust
             dues == DueDates(CountedInvoices(c), HeldRow(w).terms)
  <2>1. /\ \/ UNCHANGED <<ar, torn>>
           \/ HeldRow(w) # None /\ \E d \in dues : Saved(c, [HeldRow(w) EXCEPT !.due = d])
        /\ pc[w] = "updateIssuedAt.save" /\ Finish(w)
        /\ UNCHANGED <<invoice, collection, saleCancelled, today>>
      BY <1>20, <1>w DEF UpdateIssuedAtSave
  <2>2. CASE UNCHANGED <<ar, torn>> BY <2>1, <2>2, <1>f DEF db
  <2>3. ASSUME NEW d \in dues, HeldRow(w) # None, Saved(c, [HeldRow(w) EXCEPT !.due = d])
        PROVE  CurrentInv'
    <3>1. HeldRow(w) \in Row /\ HeldRow(w).terms \in Nat
        BY <2>1, <2>3, HeldRowGood DEF Row, NeedsCustomer
    <3>2. d \in Int BY <3>1, DueDatesType DEF CountedInvoices, LInv
    <3>3. [HeldRow(w) EXCEPT !.due = d] \in Row BY <3>1, <3>2, DatedGood
    <3> QED BY <2>1, <2>3, <3>3, SavesAlone
  <2> QED BY <2>1, <2>2, <2>3
<1>21. CASE InvoiceFlagWrite(w)
  <2> DEFINE i == arg[w].inv
  <2>1. /\ invoice' = [invoice EXCEPT ![i] = invoice[i]] /\ i \in InvoiceIds /\ Finish(w)
        /\ UNCHANGED <<ar, torn, collection, saleCancelled, today>>
      BY <1>21, <1>a, <1>w DEF InvoiceFlagWrite, AloneOK, HeldIsCurrent, NeedsInvoice
  <2>2. UNCHANGED db BY <2>1 DEF db, LInv, DbOK
  <2> QED BY <2>1, <2>2, <1>f
<1>24. ASSUME NEW c \in Customers, UpdateWarningStatusesStep(w, c) PROVE CurrentInv'
  <2> DEFINE row == held[w][c]
             warned == [row EXCEPT !.warning = WarningFor(arg[w].day - row.due)]
             p == "updateWarningStatuses.loop"
  <2>1. /\ pc[w] = p /\ row # None /\ (UNCHANGED ar \/ Saved(c, warned))
        /\ held' = [held EXCEPT ![w][c] = None]
        /\ UNCHANGED <<invoice, collection, saleCancelled, today, pc, arg, heldInv, started>>
      BY <1>24, <1>w DEF UpdateWarningStatusesStep
  <2>2. row \in Row BY <2>1 DEF LInv, WorkersOK, ProgressOK
  <2>3. warned \in Row
    <3> HIDE DEF row
    <3> QED BY <2>2, WarningForType, WarnedGood
  <2> HIDE DEF warned
  <2>4. /\ \A d \in Customers : ar[d] # None => ar'[d] # None
        /\ \A d \in Customers \ {c} : ar'[d] = ar[d]
      BY <2>1, <2>3 DEF Saved, LInv, DbOK
  <2>5. InvoicesOwned'
      BY <2>1, <2>4 DEF CurrentInv, InvoicesOwned, LInv, DbOK, GoodInvoice, Known
  <2>6. CollectionsOwned' BY <2>1, <2>4 DEF CurrentInv, CollectionsOwned
  <2>7. /\ held'[w][c] = None /\ \A d \in Customers \ {c} : held'[w][d] = held[w][d]
        /\ \A u \in Workers : u = w
      BY <2>1 DEF LInv, WorkersOK, OneAtATime
  <2>8. HeldIsCurrent(pc[w], arg[w], held[w], heldInv[w])'
      BY <1>a, <2>1, <2>4, <2>7 DEF AloneOK, HeldIsCurrent, Holding, NeedsRow, NeedsInvoice
  <2>9. InvoiceIsCurrent(pc[w], arg[w])' /\ CollectionIsCurrent(pc[w], arg[w])'
      BY <2>1
      DEF InvoiceIsCurrent, CollectionIsCurrent, Editing, Deleting, Redating, Adding, Recorded,
          Replacing
  <2>10. AloneOK(pc[w], arg[w], held[w], heldInv[w])' BY <2>8, <2>9 DEF AloneOK
  <2>11. \A u \in Workers : AloneOK(pc[u], arg[u], held[u], heldInv[u])' BY <2>7, <2>10
  <2> QED BY <2>5, <2>6, <2>11 DEF CurrentInv
<1>26. CASE LookInvoice(w) \/ \E c \in Customers : Look(w, c)
    BY <1>26 DEF LookInvoice, Look, OtherAt, OneAtATime
<1> QED
    BY <1>1, <1>2, <1>3, <1>4, <1>5, <1>6, <1>7, <1>8, <1>9, <1>10, <1>11, <1>12, <1>13,
       <1>14, <1>15, <1>16, <1>17, <1>18, <1>19, <1>20, <1>21, <1>22, <1>23, <1>24, <1>25,
       <1>26
    DEF Proceed

\* The invariant of one request at a time, kept by every step.
LEMMA AloneInductive ==
    ASSUME OneAtATime
    PROVE  IInv /\ AloneInv /\ [Next]_vars => AloneInv'
<1> SUFFICES ASSUME IInv, AloneInv, [Next]_vars PROVE AloneInv' OBVIOUS
<1>a. LInv /\ RewritersOK /\ LooksOK /\ CurrentInv /\ NoneLooked BY DEF IInv, AloneInv
<1>b. NoneLooked' BY <1>a, NoneLookedKept
<1>1. ASSUME NEW w \in Workers, Request(w) PROVE CurrentInv' BY <1>1, <1>a, RequestAlone
<1>2. ASSUME NEW w \in Workers, Proceed(w) PROVE CurrentInv' BY <1>2, <1>a, ProceedAlone
<1>3. ASSUME NEW w \in Workers, Fail(w) PROVE CurrentInv'
  <2>1. UNCHANGED db /\ Finish(w) BY <1>3 DEF Fail
  <2>2. InvoicesOwned' /\ CollectionsOwned'
      BY <1>a, <2>1 DEF db, CurrentInv, InvoicesOwned, CollectionsOwned
  <2> QED BY <1>a, <2>1, <2>2, AloneFinishes
<1>4. ASSUME UNCHANGED <<ar, invoice, collection, pc, arg, held, heldInv>> PROVE CurrentInv'
    BY <1>a, <1>4 DEF CurrentInv, InvoicesOwned, CollectionsOwned, AloneOK, HeldIsCurrent,
       InvoiceIsCurrent, CollectionIsCurrent
<1>5. CurrentInv' BY <1>1, <1>2, <1>3, <1>4 DEF Next, CancelSale, NextDay, vars, db
<1> QED BY <1>b, <1>5 DEF AloneInv

LEMMA AloneInit == Init => AloneInv
BY IdleAlone DEF Init, AloneInv, CurrentInv, NoneLooked, InvoicesOwned, CollectionsOwned

LEMMA AloneInvariance == ASSUME OneAtATime PROVE Spec => [](IInv /\ AloneInv)
<1>1. Init => IInv /\ AloneInv BY InitOK, AloneInit
<1>2. IInv /\ AloneInv /\ [Next]_vars => (IInv /\ AloneInv)'
    BY NextKeeps, AloneInductive
<1> QED BY <1>1, <1>2, PTL DEF Spec

LEMMA AloneSaves ==
    ASSUME LInv, AloneInv, NEW w \in Workers
    PROVE  /\ \A c, row, assigned : SaveRow(w, c, row, assigned) => Saved(c, row)
           /\ \A step, row, assigned :
                 SaveAndFinish(w, step, row, assigned) => SavedAndFinished(w, step, row)
           /\ \A row : SaveInvoice(w, row) => invoice' = [invoice EXCEPT ![arg[w].inv] = row]
BY SavesWhole DEF AloneInv

-----------------------------------------------------------------------------
(* What follows for deleted invoices and for the warning batch.              *)

LEMMA FrozenStep ==
    ASSUME OneAtATime, IInv, AloneInv, [Next]_vars,
           NEW i \in InvoiceIds, invoice[i].state = "deleted"
    PROVE  invoice'[i] = [invoice[i] EXCEPT !.issued = invoice'[i].issued]
<1>a. invoice \in [InvoiceIds -> Invoice] /\ invoice[i] \in Invoice BY DEF IInv, LInv, DbOK
<1>b. ASSUME invoice'[i] = invoice[i] PROVE invoice'[i] = [invoice[i] EXCEPT !.issued = invoice'[i].issued]
    BY <1>a, <1>b DEF Invoice
<1>s. ASSUME NEW w \in Workers
      PROVE  \A row : SaveInvoice(w, row) => invoice' = [invoice EXCEPT ![arg[w].inv] = row]
    BY AloneSaves DEF IInv
<1>1. ASSUME NEW w \in Workers, Proceed(w), ~UNCHANGED invoice
      PROVE  invoice'[i] = [invoice[i] EXCEPT !.issued = invoice'[i].issued]
  <2> DEFINE j == arg[w].inv
  <2>a. AloneOK(pc[w], arg[w], held[w], heldInv[w]) BY DEF AloneInv, CurrentInv
  <2>1. CASE CreateInvoiceCommit(w)
    <3>1. invoice[j].state = "unused" BY <2>a, <2>1 DEF CreateInvoiceCommit, AloneOK, InvoiceIsCurrent
    <3> QED BY <1>a, <1>b, <2>1, <3>1 DEF CreateInvoiceCommit
  <2>2. CASE UpdateInvoiceCommit(w)
    <3>1. invoice[j].state = "live" BY <2>2 DEF UpdateInvoiceCommit, InDetail
    <3> QED BY <1>a, <1>b, <2>2, <3>1 DEF UpdateInvoiceCommit
  <2>3. CASE DeleteInvoiceCommit(w)
    <3>1. invoice[j].state = "live"
        BY <2>a, <2>3 DEF DeleteInvoiceCommit, AloneOK, InvoiceIsCurrent, Deleting
    <3> QED BY <1>a, <1>b, <2>3, <3>1 DEF DeleteInvoiceCommit
  <2>4. CASE UpdateIssuedAtWrite(w)
    <3>1. /\ j \in InvoiceIds /\ heldInv[w] = invoice[j]
          /\ invoice' = [invoice EXCEPT ![j] = [heldInv[w] EXCEPT !.issued = arg[w].day]]
        BY <1>s, <2>a, <2>4 DEF UpdateIssuedAtWrite, AloneOK, HeldIsCurrent, NeedsInvoice
    <3> QED BY <1>a, <1>b, <3>1 DEF Invoice
  <2>5. CASE InvoiceFlagWrite(w)
    <3>1. j \in InvoiceIds /\ invoice' = [invoice EXCEPT ![j] = invoice[j]]
        BY <1>s, <2>a, <2>5 DEF InvoiceFlagWrite, AloneOK, HeldIsCurrent, NeedsInvoice
    <3> QED BY <1>a, <1>b, <3>1
  <2> QED
      BY <1>1, <2>1, <2>2, <2>3, <2>4, <2>5
      DEF Proceed, Look, LookInvoice, db, SaveAndFinish, CollectInsert, CollectSave,
          CollectByCustomerCommit, UpdateCollectionFind, UpdateCollectionWrite, UpdateCollectionSave, DeleteCollectionFind,
          DeleteCollectionRemove, DeleteCollectionSave, CollectionRefused, DuplicateRowRollback,
          UpdateInvoiceBegin, UpdateInvoiceRollback, DeleteInvoiceFind, UpdateIssuedAtFind,
          UpdateIssuedAtSave, UpdatePaymentTermsSave, UpdateReceivableNotesSave,
          UpdateWarningStatusesStep, UpdateWarningStatusesEnd
<1>2. ASSUME NEW w \in Workers, Request(w) PROVE UNCHANGED invoice
    BY <1>2 DEF Request, db, CollectRead, CollectByCustomerRead, UpdateCollectionRead,
       DeleteCollectionRead, CreateInvoiceRead, UpdateInvoiceRead, DeleteInvoiceRead,
       InvoiceFlagRead, UpdateIssuedAtRead, UpdateReceivableNotesRead, UpdatePaymentTermsRead,
       UpdateWarningStatusesRead
<1> QED BY <1>b, <1>1, <1>2 DEF Next, Fail, db, CancelSale, NextDay, vars

\* With one request at a time, however it dies, no handler changes the customer
\* or the amount of a deleted invoice or brings it back.
THEOREM DeletedStaysFrozen == ASSUME OneAtATime PROVE Spec => DeletedInvoiceFrozen
<1> DEFINE A == \A i \in InvoiceIds : invoice[i].state = "deleted" =>
                   invoice'[i] = [invoice[i] EXCEPT !.issued = invoice'[i].issued]
<1>1. IInv /\ AloneInv /\ [Next]_vars => [A]_vars BY FrozenStep
<1>2. Spec => [](IInv /\ AloneInv) BY AloneInvariance
<1> QED BY <1>1, <1>2, PTL DEF Spec, DeletedInvoiceFrozen

\* What the batch is past, it has left with the right level.
Warned(c, day) ==
    Unsettled(c) /\ ar[c].due # None => ar[c].warning = WarningFor(day - ar[c].due)
BatchInv ==
    \A w \in Workers : pc[w] = "updateWarningStatuses.loop" =>
        \A c \in Customers : held[w][c] = None => Warned(c, arg[w].day)

LEMMA BatchInductive ==
    ASSUME OneAtATime PROVE IInv /\ AloneInv /\ BatchInv /\ [Next]_vars => BatchInv'
<1> SUFFICES ASSUME IInv, AloneInv, BatchInv, [Next]_vars PROVE BatchInv' OBVIOUS
<1> DEFINE p == "updateWarningStatuses.loop"
<1>a. LInv BY DEF IInv
<1>1. ASSUME NEW w \in Workers, UpdateWarningStatusesRead(w) PROVE BatchInv'
  <2>1. /\ \A v \in Workers : v = w
        /\ held'[w] = [c \in Customers |-> IF Unsettled(c) THEN ar[c] ELSE None]
        /\ ar' = ar
      BY <1>a, <1>1 DEF LInv, WorkersOK, OneAtATime, UpdateWarningStatusesRead, db
  <2> QED BY <2>1 DEF BatchInv, Warned, Unsettled
<1>2. ASSUME NEW w \in Workers, NEW c \in Customers, UpdateWarningStatusesStep(w, c)
      PROVE  BatchInv'
  <2> DEFINE row == held[w][c]
             level == WarningFor(arg[w].day - row.due)
  <2>1. /\ pc[w] = p /\ row # None /\ arg' = arg /\ held' = [held EXCEPT ![w][c] = None]
        /\ IF WarningStale(row, level) THEN Saved(c, [row EXCEPT !.warning = level])
           ELSE UNCHANGED ar
      BY <1>a, <1>2, AloneSaves DEF UpdateWarningStatusesStep
  <2>2. row = ar[c] /\ row \in Row
      BY <1>a, <2>1 DEF AloneInv, CurrentInv, AloneOK, HeldIsCurrent, LInv, WorkersOK
  <2>3. held'[w][c] = None /\ \A d \in Customers \ {c} : held'[w][d] = held[w][d]
      BY <1>a, <2>1 DEF LInv, WorkersOK
  <2>4. Warned(c, arg[w].day)'
    <3>1. CASE WarningStale(row, level)
      <4> HIDE DEF level
      <4>1. ar'[c] = [row EXCEPT !.warning = level]
          BY <1>a, <2>1, <3>1 DEF Saved, LInv, DbOK
      <4>2. ar'[c].warning = level /\ ar'[c].due = row.due BY <2>2, <4>1 DEF Row
      <4> QED BY <2>1, <4>2 DEF Warned, level
    <3>2. CASE ~WarningStale(row, level)
      BY <2>1, <2>2, <3>2 DEF Warned, WarningStale
    <3> QED BY <3>1, <3>2
  <2>5. \A d \in Customers \ {c} : ar'[d] = ar[d] BY <1>a, <2>1 DEF Saved, LInv, DbOK
  <2>6. ASSUME NEW d \in Customers \ {c}, held'[w][d] = None PROVE Warned(d, arg[w].day)'
      BY <2>1, <2>3, <2>5, <2>6 DEF BatchInv, Warned, Unsettled
  <2>7. \A v \in Workers : v = w BY DEF OneAtATime
  <2> QED BY <2>4, <2>6, <2>7 DEF BatchInv
<1>3. ASSUME NEW w \in Workers, pc'[w] # p PROVE BatchInv' BY <1>3 DEF BatchInv, OneAtATime
<1>4. ASSUME NEW w \in Workers, NEW q, q # p, pc' = [pc EXCEPT ![w] = q] PROVE BatchInv'
    BY <1>a, <1>3, <1>4 DEF LInv, WorkersOK
<1>5. ASSUME NEW w \in Workers, Request(w), ~UpdateWarningStatusesRead(w) PROVE BatchInv'
    BY <1>4, <1>5
    DEF Request, Start, CollectRead, CollectByCustomerRead, UpdateCollectionRead,
        DeleteCollectionRead, CreateInvoiceRead, UpdateInvoiceRead, DeleteInvoiceRead,
        InvoiceFlagRead, UpdateIssuedAtRead, UpdateReceivableNotesRead, UpdatePaymentTermsRead
<1>9. ASSUME NEW w \in Workers PROVE ~LookInvoice(w) /\ \A c \in Customers : ~Look(w, c)
    BY DEF LookInvoice, Look, OtherAt, OneAtATime
<1>6. ASSUME NEW w \in Workers, Proceed(w), ~\E c \in Customers : UpdateWarningStatusesStep(w, c)
      PROVE  BatchInv'
    BY <1>4, <1>6, <1>9
    DEF Proceed, Goto, Finish, SaveAndFinish, CollectInsert, CollectSave,
        CollectByCustomerCommit, CreateInvoiceCommit, UpdateInvoiceCommit, DeleteInvoiceCommit,
        UpdateIssuedAtWrite, InvoiceFlagWrite,
        UpdateCollectionFind, UpdateCollectionWrite, UpdateCollectionSave, DeleteCollectionFind,
        DeleteCollectionRemove, DeleteCollectionSave, CollectionRefused, DuplicateRowRollback,
        UpdateInvoiceBegin, UpdateInvoiceRollback, DeleteInvoiceFind, UpdateIssuedAtFind,
        UpdateIssuedAtSave, UpdatePaymentTermsSave, UpdateReceivableNotesSave,
        UpdateWarningStatusesEnd
<1>7. ASSUME NEW w \in Workers, Fail(w) PROVE BatchInv' BY <1>4, <1>7 DEF Fail, Finish
<1>8. ASSUME UNCHANGED <<ar, pc, arg, held>> PROVE BatchInv'
    BY <1>8 DEF BatchInv, Warned, Unsettled
<1> QED BY <1>1, <1>2, <1>5, <1>6, <1>7, <1>8 DEF Next, CancelSale, NextDay, vars, db

\* With one request at a time, a batch run that ends has left every unsettled
\* receivable with the level its due date calls for, however far an earlier run
\* got before it died.
THEOREM BatchIsThorough == ASSUME OneAtATime PROVE Spec => BatchLeavesNoStaleWarning
<1> DEFINE A == \A w \in Workers : UpdateWarningStatusesEnd(w) =>
                   \A c \in Customers : Unsettled(c) /\ ar[c].due # None =>
                       ar[c].warning = WarningFor(arg[w].day - ar[c].due)
<1>1. Init => IInv /\ AloneInv /\ BatchInv
    BY InitOK, AloneInit DEF Init, BatchInv
<1>2. IInv /\ AloneInv /\ BatchInv /\ [Next]_vars => (IInv /\ AloneInv /\ BatchInv)'
    BY NextKeeps, AloneInductive, BatchInductive
<1>3. BatchInv => [A]_vars
    BY DEF BatchInv, Warned, UpdateWarningStatusesEnd, NoRows
<1> QED BY <1>1, <1>2, <1>3, PTL DEF Spec, BatchLeavesNoStaleWarning

-----------------------------------------------------------------------------
(* What the handlers do to the totals, and leave of the dates, of a row.    *)

LEMMA CollectedFields ==
    ASSUME NEW row \in Row, NEW a
    PROVE  LET new == Collected(row, a) IN
           /\ new.totalSales = row.totalSales
           /\ new.totalCollected = row.totalCollected + a
           /\ new.balance = row.balance - a
           /\ new.terms = row.terms /\ new.due = row.due
BY DEF Collected, Row

LEMMA CollectedByCustomerFields ==
    ASSUME NEW row \in Row, NEW a
    PROVE  LET new == CollectedByCustomer(row, a) IN
           /\ new.totalSales = row.totalSales
           /\ new.totalCollected = row.totalCollected + a
           /\ new.balance = row.totalSales - (row.totalCollected + a)
           /\ new.terms = row.terms /\ new.due = row.due
BY DEF CollectedByCustomer, Row

LEMMA CorrectedFields ==
    ASSUME NEW row \in Row, NEW a
    PROVE  LET new == Corrected(row, a) IN
           /\ new.totalSales = row.totalSales
           /\ new.totalCollected = row.totalCollected + a
           /\ new.balance = row.balance - a
           /\ new.terms = row.terms /\ new.due = row.due
BY DEF Corrected, Row

LEMMA UncollectedFields ==
    ASSUME NEW row \in Row, NEW a \in Int
    PROVE  LET new == Uncollected(row, a) IN
           /\ new.totalSales = row.totalSales
           /\ row.totalCollected >= a => new.totalCollected = row.totalCollected - a
           /\ new.balance = row.balance + a
           /\ new.terms = row.terms /\ new.due = row.due
BY DEF Uncollected, Row

LEMMA ResoldFields ==
    ASSUME NEW row \in Row, NEW sales
    PROVE  LET new == Resold(row, sales) IN
           /\ new.totalSales = sales
           /\ new.totalCollected = row.totalCollected
           /\ new.balance = sales - row.totalCollected
           /\ new.terms = row.terms /\ new.due = row.due
BY DEF Resold, Row

LEMMA RowFields ==
    ASSUME NEW row \in Row, NEW t, NEW d, NEW l
    PROVE  /\ LET new == [row EXCEPT !.due = d] IN
              /\ new.totalSales = row.totalSales /\ new.totalCollected = row.totalCollected
              /\ new.balance = row.balance /\ new.terms = row.terms /\ new.due = d
           /\ LET new == [row EXCEPT !.terms = t, !.due = d] IN
              /\ new.totalSales = row.totalSales /\ new.totalCollected = row.totalCollected
              /\ new.balance = row.balance /\ new.terms = t /\ new.due = d
           /\ LET new == [row EXCEPT !.warning = l] IN
              /\ new.totalSales = row.totalSales /\ new.totalCollected = row.totalCollected
              /\ new.balance = row.balance /\ new.terms = row.terms /\ new.due = row.due
BY DEF Row

LEMMA FirstRowFields ==
    ASSUME NEW a
    PROVE  /\ LET new == FirstSaleRow(a) IN
              /\ new.totalSales = a /\ new.totalCollected = 0 /\ new.balance = a
           /\ EmptyRow.totalSales = 0 /\ EmptyRow.totalCollected = 0 /\ EmptyRow.balance = 0
BY DEF FirstSaleRow, EmptyRow

-----------------------------------------------------------------------------
(* The due date: covered except while updateIssuedAt has dated the invoice   *)
(* and not yet the receivable.                                               *)

Covered(c) ==
    \A i \in CountedInvoices(c) :
        ar[c] # None /\ ar[c].due # None /\ ar[c].due >= invoice[i].issued + ar[c].terms
HalfRedated == {"updateIssuedAt.find", "updateIssuedAt.save"}
DueInv ==
    \A c \in Customers :
        Covered(c) \/ \E w \in Workers : pc[w] \in HalfRedated /\ arg[w].cust = c

\* A step that moves no date, and counts no invoice that did not count before.
DatesKept(c) ==
    /\ ar[c] # None => ar'[c] # None /\ ar'[c].due = ar[c].due /\ ar'[c].terms = ar[c].terms
    /\ saleCancelled \subseteq saleCancelled'
    /\ \A i \in InvoiceIds : invoice'[i].state = "live" /\ invoice'[i].cust = c =>
         /\ invoice[i].state = "live" /\ invoice[i].cust = c
         /\ invoice'[i].issued = invoice[i].issued

LEMMA KeptCovered == ASSUME NEW c, DatesKept(c), Covered(c) PROVE Covered(c)'
BY DEF DatesKept, Covered, CountedInvoices

LEMMA SavedDatesKept ==
    ASSUME LInv, NEW c \in Customers, NEW row \in Row, Saved(c, row),
           ar[c] # None => row.due = ar[c].due /\ row.terms = ar[c].terms,
           UNCHANGED <<invoice, saleCancelled>>
    PROVE  \A d \in Customers : DatesKept(d)
<1>1. row # None BY LedgerAssumption
<1>2. ar'[c] = row /\ \A d \in Customers \ {c} : ar'[d] = ar[d] BY DEF LInv, DbOK, Saved
<1>3. DatesKept(c) BY <1>1, <1>2 DEF DatesKept
<1>4. \A d \in Customers \ {c} : DatesKept(d) BY <1>2 DEF DatesKept
<1> QED BY <1>3, <1>4

\* The latest due date of a set that the counted invoices are in.
LEMMA LatestCovers ==
    ASSUME NEW c \in Customers, NEW row \in Row, NEW is, NEW d, NEW dues,
           ar'[c] = row, row.due = d, d \in Int,
           \A e \in dues : e <= d,
           \A i \in CountedInvoices(c)' : invoice'[i].issued + row.terms \in dues
    PROVE  Covered(c)'
BY LedgerAssumption DEF Covered

LEMMA ProceedKeepsDates ==
    ASSUME LInv, AloneInv, OneAtATime, ~MayChangeCustomer, NEW w \in Workers, Proceed(w),
           ~CreateInvoiceCommit(w), ~UpdateIssuedAtWrite(w), ~UpdateIssuedAtSave(w),
           ~UpdatePaymentTermsSave(w)
    PROVE  \A c \in Customers : DatesKept(c)
<1> DEFINE c == arg[w].cust
<1>a. AloneOK(pc[w], arg[w], held[w], heldInv[w]) BY DEF AloneInv, CurrentInv
<1>u. ASSUME UNCHANGED <<ar, invoice, saleCancelled>> PROVE \A d \in Customers : DatesKept(d)
    BY <1>u DEF DatesKept
<1>h. ASSUME pc[w] \in NeedsCustomer, pc[w] \in Holding, ar[c] # None \/ HeldRow(w) # None
      PROVE  c \in Customers /\ HeldRow(w) \in Row /\ HeldRow(w) = ar[c]
    BY <1>a, <1>h, HeldRowGood DEF AloneOK, HeldIsCurrent, HeldRow
<1>r. ASSUME pc[w] \in NeedsRow
      PROVE  /\ c \in Customers /\ HeldRow(w) \in Row /\ HeldRow(w) = ar[c]
             /\ arg[w].amt \in Int /\ arg[w].amt - arg[w].old \in Int
  <2>1. pc[w] \in NeedsCustomer /\ pc[w] \in Holding BY <1>r DEF NeedsCustomer, Holding
  <2>2. HeldRow(w) # None /\ arg[w] \in Arg BY <1>r, <2>1, HeldRowGood
  <2> QED BY <1>h, <2>1, <2>2 DEF Arg
<1>s. ASSUME NEW step, NEW row \in Row, NEW assigned, SaveAndFinish(w, step, row, assigned), c \in Customers,
             row.due = ar[c].due, row.terms = ar[c].terms
      PROVE  \A d \in Customers : DatesKept(d)
    BY <1>s, AloneSaves, SavedDatesKept DEF SavedAndFinished
<1>1. CASE CollectSave(w)
  <2>1. pc[w] \in NeedsRow BY <1>1 DEF CollectSave, SaveAndFinish, NeedsRow
  <2> QED BY <1>1, <1>r, <1>s, <2>1, CollectedGood, CollectedFields DEF CollectSave
<1>2. CASE UpdateCollectionSave(w)
  <2>1. pc[w] \in NeedsRow BY <1>2 DEF UpdateCollectionSave, SaveAndFinish, NeedsRow
  <2> QED BY <1>2, <1>r, <1>s, <2>1, CorrectedGood, CorrectedFields DEF UpdateCollectionSave
<1>3. CASE DeleteCollectionSave(w)
  <2>1. pc[w] \in NeedsRow BY <1>3 DEF DeleteCollectionSave, SaveAndFinish, NeedsRow
  <2> QED BY <1>3, <1>r, <1>s, <2>1, UncollectedGood, UncollectedFields DEF DeleteCollectionSave
<1>4. CASE UpdateReceivableNotesSave(w)
  <2>1. pc[w] \in NeedsRow BY <1>4 DEF UpdateReceivableNotesSave, SaveAndFinish, NeedsRow
  <2> QED BY <1>4, <1>r, <1>s, <2>1 DEF UpdateReceivableNotesSave
<1>5. CASE CollectByCustomerCommit(w)
  <2> DEFINE base == IF HeldRow(w) = None THEN EmptyRow ELSE HeldRow(w)
             row == CollectedByCustomer(base, arg[w].amt)
  <2>1. /\ pc[w] = "collectByCustomer.commit" /\ Saved(c, row)
        /\ UNCHANGED <<invoice, saleCancelled>>
      BY <1>5, AloneSaves DEF CollectByCustomerCommit
  <2>2. pc[w] \in NeedsCustomer /\ pc[w] \in Holding BY <2>1 DEF NeedsCustomer, Holding
  <2>3. base \in Row /\ c \in Customers /\ arg[w].amt \in Int
      BY <2>2, EmptyRowGood, HeldRowGood DEF Arg
  <2>4. ar[c] # None => base = ar[c] BY <1>h, <2>2, <2>3, LedgerAssumption
  <2> HIDE DEF base
  <2>5. row \in Row /\ row.due = base.due /\ row.terms = base.terms
      BY <2>3, CollectedByCustomerGood, CollectedByCustomerFields
  <2> QED BY <2>1, <2>3, <2>4, <2>5, SavedDatesKept
<1>6. CASE UpdateInvoiceCommit(w)
  <2> DEFINE i == arg[w].inv
             row == Resold(HeldRow(w), HeldRow(w).totalSales + (arg[w].amt - arg[w].old))
  <2>1. /\ pc[w] = "updateInvoice.commit" /\ invoice[i].state = "live"
        /\ invoice' = [invoice EXCEPT ![i].cust = c, ![i].amt = arg[w].amt]
        /\ UNCHANGED saleCancelled
        /\ IF HeldRow(w) = None THEN UNCHANGED ar ELSE Saved(c, row)
      BY <1>6, AloneSaves DEF UpdateInvoiceCommit, InDetail
  <2>2. pc[w] \in NeedsCustomer /\ pc[w] \in Holding BY <2>1 DEF NeedsCustomer, Holding
  <2>3. c \in Customers /\ arg[w].amt \in Int /\ arg[w].old \in Int BY <2>2, HeldRowGood DEF Arg
  <2>4. ASSUME NEW d \in Customers, ar[d] # None
        PROVE  ar'[d] # None /\ ar'[d].due = ar[d].due /\ ar'[d].terms = ar[d].terms
    <3>1. CASE HeldRow(w) = None BY <2>1, <2>4, <3>1
    <3>2. CASE HeldRow(w) # None
      <4>1. HeldRow(w) \in Row /\ HeldRow(w) = ar[c] BY <1>h, <2>2, <3>2
      <4>2. HeldRow(w).totalSales + (arg[w].amt - arg[w].old) \in Int BY <2>3, <4>1 DEF Row
      <4>3. row \in Row /\ row.due = ar[c].due /\ row.terms = ar[c].terms
          BY <4>1, <4>2, ResoldGood, ResoldFields
      <4> HIDE DEF row
      <4> QED BY <2>1, <2>3, <2>4, <3>2, <4>3, LedgerAssumption DEF Saved, LInv, DbOK
    <3> QED BY <3>1, <3>2
  <2>5. invoice[i].cust = c BY <1>a, <2>1 DEF AloneOK, InvoiceIsCurrent, Editing
  <2>6. \A j \in InvoiceIds : /\ invoice'[j].state = invoice[j].state
                              /\ invoice'[j].cust = invoice[j].cust
                              /\ invoice'[j].issued = invoice[j].issued
      BY <2>1, <2>5 DEF LInv, DbOK, Invoice
  <2> QED BY <2>1, <2>4, <2>6 DEF DatesKept
<1>7. CASE DeleteInvoiceCommit(w)
  <2> DEFINE i == arg[w].inv
             rest == HeldRow(w).totalSales - arg[w].amt
             sales == IF rest < 0 THEN 0 ELSE rest
             row == Resold(HeldRow(w), sales)
  <2>1. /\ pc[w] = "deleteInvoice.commit"
        /\ invoice' = [invoice EXCEPT ![i].state = "deleted"]
        /\ UNCHANGED saleCancelled
        /\ IF HeldRow(w) = None THEN UNCHANGED ar ELSE Saved(c, row)
      BY <1>7, AloneSaves DEF DeleteInvoiceCommit
  <2>2. pc[w] \in NeedsCustomer /\ pc[w] \in Holding BY <2>1 DEF NeedsCustomer, Holding
  <2>3. c \in Customers /\ arg[w].amt \in Int BY <2>2, HeldRowGood DEF Arg
  <2>4. ASSUME NEW d \in Customers, ar[d] # None
        PROVE  ar'[d] # None /\ ar'[d].due = ar[d].due /\ ar'[d].terms = ar[d].terms
    <3>1. CASE HeldRow(w) = None BY <2>1, <2>4, <3>1
    <3>2. CASE HeldRow(w) # None
      <4>1. HeldRow(w) \in Row /\ HeldRow(w) = ar[c] BY <1>h, <2>2, <3>2
      <4>2. sales \in Int BY <2>3, <4>1 DEF Row
      <4> HIDE DEF sales
      <4>3. row \in Row /\ row.due = ar[c].due /\ row.terms = ar[c].terms
          BY <4>1, <4>2, ResoldGood, ResoldFields
      <4> HIDE DEF row
      <4> QED BY <2>1, <2>3, <2>4, <3>2, <4>3, LedgerAssumption DEF Saved, LInv, DbOK
    <3> QED BY <3>1, <3>2
  <2>5. \A j \in InvoiceIds : /\ invoice'[j].state = "live" => invoice[j].state = "live"
                              /\ invoice'[j].cust = invoice[j].cust
                              /\ invoice'[j].issued = invoice[j].issued
      BY <2>1 DEF LInv, DbOK, Invoice
  <2> QED BY <2>1, <2>4, <2>5 DEF DatesKept
<1>8. CASE InvoiceFlagWrite(w)
  <2>1. /\ invoice' = [invoice EXCEPT ![arg[w].inv] = invoice[arg[w].inv]]
        /\ UNCHANGED <<ar, saleCancelled>>
      BY <1>8, <1>a, AloneSaves DEF InvoiceFlagWrite, AloneOK, HeldIsCurrent, NeedsInvoice
  <2>2. UNCHANGED invoice BY <2>1 DEF LInv, DbOK
  <2> QED BY <1>u, <2>1, <2>2
<1>9. ASSUME NEW d \in Customers, UpdateWarningStatusesStep(w, d)
      PROVE  \A e \in Customers : DatesKept(e)
  <2> DEFINE row == held[w][d]
             level == WarningFor(arg[w].day - row.due)
             warned == [row EXCEPT !.warning = level]
  <2>1. /\ row # None /\ (UNCHANGED ar \/ Saved(d, warned))
        /\ UNCHANGED <<invoice, saleCancelled>>
      BY <1>9, AloneSaves DEF UpdateWarningStatusesStep
  <2>2. row \in Row /\ row = ar[d]
      BY <1>a, <2>1 DEF LInv, WorkersOK, ProgressOK, AloneOK, HeldIsCurrent
  <2> HIDE DEF row, level
  <2>3. warned \in Row /\ warned.due = ar[d].due /\ warned.terms = ar[d].terms
      BY <2>2, WarningForType, WarnedGood, RowFields DEF level
  <2> HIDE DEF warned
  <2> QED BY <1>u, <2>1, <2>3, SavedDatesKept
<1> QED
    BY <1>u, <1>1, <1>2, <1>3, <1>4, <1>5, <1>6, <1>7, <1>8, <1>9
    DEF Proceed, Look, LookInvoice, db, CollectInsert, UpdateCollectionFind,
        UpdateCollectionWrite, DeleteCollectionFind, DeleteCollectionRemove, CollectionRefused, DuplicateRowRollback,
        UpdateInvoiceBegin, UpdateInvoiceRollback, DeleteInvoiceFind, UpdateIssuedAtFind,
        UpdateWarningStatusesEnd

LEMMA DueInductive ==
    ASSUME OneAtATime, ~MayChangeCustomer, FailingSteps \cap HalfRedated = {}
    PROVE  IInv /\ AloneInv /\ DueInv /\ [Next]_vars => DueInv'
<1> SUFFICES ASSUME IInv, AloneInv, DueInv, [Next]_vars PROVE DueInv' OBVIOUS
<1>a. LInv BY DEF IInv
<1>o. \A v, w \in Workers : v = w BY DEF OneAtATime
<1>k. ASSUME NEW w \in Workers, pc[w] \notin HalfRedated, \A c \in Customers : DatesKept(c)
      PROVE  DueInv'
  <2>1. \A c \in Customers : Covered(c) BY <1>k, <1>o DEF DueInv
  <2> QED BY <1>k, <2>1, KeptCovered DEF DueInv
<1>u. ASSUME UNCHANGED <<ar, invoice, saleCancelled>> PROVE \A c \in Customers : DatesKept(c)
    BY <1>u DEF DatesKept
<1>1. ASSUME NEW w \in Workers, Request(w) PROVE DueInv'
  <2>1. pc[w] \notin HalfRedated /\ UNCHANGED <<ar, invoice, saleCancelled>>
      BY <1>1
      DEF Request, Start, db, HalfRedated, CollectRead, CollectByCustomerRead,
          UpdateCollectionRead, DeleteCollectionRead, CreateInvoiceRead, UpdateInvoiceRead,
          DeleteInvoiceRead, InvoiceFlagRead, UpdateIssuedAtRead, UpdateReceivableNotesRead,
          UpdatePaymentTermsRead, UpdateWarningStatusesRead
  <2> QED BY <1>k, <1>u, <2>1
<1>2. ASSUME NEW w \in Workers, Fail(w) PROVE DueInv'
  <2>1. pc[w] \notin HalfRedated /\ UNCHANGED <<ar, invoice, saleCancelled>>
      BY <1>2 DEF Fail, db
  <2> QED BY <1>k, <1>u, <2>1
<1>3. ASSUME NEW w \in Workers, CreateInvoiceCommit(w) PROVE DueInv'
  <2>0. PICK c : c = arg[w].cust OBVIOUS
  <2> DEFINE i   == arg[w].inv
             row == IF HeldRow(w) = None THEN FirstSaleRow(arg[w].amt)
                    ELSE Resold(HeldRow(w), HeldRow(w).totalSales + arg[w].amt)
             new == [state |-> "live", cust |-> c, receivable |-> c,
                     amt |-> arg[w].amt, issued |-> arg[w].day]
             others == {j \in InvoiceIds : invoice[j].state # "unused" /\ invoice[j].cust = c}
             dues == DueDates(others, row.terms) \cup {arg[w].day + row.terms}
  <2>1. PICK d \in dues : IsLatest(d, dues) /\ Saved(c, [row EXCEPT !.due = d])
      BY <1>3, <1>a, <2>0, AloneSaves DEF CreateInvoiceCommit
  <2>2. /\ pc[w] = "createInvoice.commit" /\ invoice' = [invoice EXCEPT ![i] = new]
        /\ UNCHANGED saleCancelled
      BY <1>3, <2>0 DEF CreateInvoiceCommit
  <2>3. c \in Customers /\ arg[w] \in Arg /\ (HeldRow(w) # None => HeldRow(w) \in Row)
      BY <1>a, <2>0, <2>2, HeldRowGood DEF NeedsCustomer
  <2>4. row \in Row
    <3>1. CASE HeldRow(w) = None BY <3>1, <2>3, FirstSaleRowGood DEF Arg
    <3>2. CASE HeldRow(w) # None
      <4>1. HeldRow(w).totalSales + arg[w].amt \in Int BY <2>3, <3>2 DEF Row, Arg
      <4> QED BY <3>2, <2>3, <4>1, ResoldGood
    <3> QED BY <3>1, <3>2
  <2> HIDE DEF row
  <2>5. row.terms \in Nat BY <2>4 DEF Row
  <2>6. dues \subseteq Int
    <3>1. DueDates(others, row.terms) \subseteq Int BY <1>a, <2>5, DueDatesType DEF LInv
    <3>2. arg[w].day + row.terms \in Int BY <2>3, <2>5 DEF Arg
    <3> QED BY <3>1, <3>2
  <2>7. d \in Int /\ \A e \in dues : e <= d BY <2>1, <2>6 DEF IsLatest
  <2>8. /\ [row EXCEPT !.due = d] \in Row
        /\ [row EXCEPT !.due = d].due = d /\ [row EXCEPT !.due = d].terms = row.terms
      BY <2>4, <2>5, <2>7, DatedGood, RowFields
  <2>9. /\ ar'[c] = [row EXCEPT !.due = d]
        /\ \A e \in Customers \ {c} : ar'[e] = ar[e]
      BY <1>a, <2>1, <2>3 DEF Saved, LInv, DbOK
  <2>10. i \in InvoiceIds /\ invoice'[i] = new
      BY <1>a, <2>2 DEF AloneInv, CurrentInv, AloneOK, InvoiceIsCurrent, LInv, DbOK
  <2>11. \A j \in InvoiceIds \ {i} : invoice'[j] = invoice[j] BY <1>a, <2>2 DEF LInv, DbOK
  <2>12. ASSUME NEW j \in CountedInvoices(c)' PROVE invoice'[j].issued + row.terms \in dues
    <3>1. CASE j = i BY <2>10, <3>1
    <3>2. CASE j # i
      <4>1. j \in others BY <2>11, <3>2 DEF CountedInvoices
      <4> QED BY <2>11, <3>2, <4>1 DEF DueDates, CountedInvoices
    <3> QED BY <3>1, <3>2
  <2> HIDE DEF dues
  <2>13. Covered(c)'
    <3>1. PICK saved \in Row : saved = [row EXCEPT !.due = d] BY <2>8
    <3> QED BY <2>3, <2>7, <2>8, <2>9, <2>12, <3>1, LatestCovers
  <2>14. \A e \in Customers \ {c} : DatesKept(e)
      BY <2>2, <2>9, <2>10, <2>11 DEF DatesKept
  <2>15. pc[w] \notin HalfRedated BY <2>2 DEF HalfRedated
  <2>16. \A e \in Customers : Covered(e) BY <1>o, <2>15 DEF DueInv
  <2> QED BY <2>13, <2>14, <2>16, KeptCovered DEF DueInv
<1>4. ASSUME NEW w \in Workers, UpdateIssuedAtWrite(w) PROVE DueInv'
  <2> DEFINE c == arg[w].cust
             i == arg[w].inv
             v == [invoice[i] EXCEPT !.issued = arg[w].day]
  <2>1. /\ pc[w] = "updateIssuedAt.write" /\ invoice' = [invoice EXCEPT ![i] = v]
        /\ pc' = [pc EXCEPT ![w] = "updateIssuedAt.find"]
        /\ i \in InvoiceIds /\ invoice[i].cust = c
        /\ UNCHANGED <<ar, saleCancelled, arg>>
      BY <1>4, <1>a, AloneSaves
      DEF UpdateIssuedAtWrite, AloneInv, CurrentInv, AloneOK, HeldIsCurrent, InvoiceIsCurrent,
          NeedsInvoice, Redating
  <2>2. pc'[w] \in HalfRedated /\ arg'[w].cust = c
      BY <1>a, <2>1 DEF HalfRedated, LInv, WorkersOK
  <2>3. /\ invoice'[i].cust = c
        /\ \A j \in InvoiceIds \ {i} : invoice'[j] = invoice[j]
      BY <1>a, <2>1 DEF LInv, DbOK, Invoice
  <2>4. \A e \in Customers \ {c} : DatesKept(e) BY <2>1, <2>3 DEF DatesKept
  <2>5. pc[w] \notin HalfRedated BY <2>1 DEF HalfRedated
  <2>6. \A e \in Customers : Covered(e) BY <1>o, <2>5 DEF DueInv
  <2>7. \A e \in Customers \ {c} : Covered(e)' BY <2>4, <2>6, KeptCovered
  <2> QED BY <2>2, <2>7 DEF DueInv
<1>5. ASSUME NEW w \in Workers, UpdateIssuedAtFind(w) PROVE DueInv'
  <2>1. /\ pc[w] = "updateIssuedAt.find" /\ arg' = arg /\ pc'[w] = "updateIssuedAt.save"
        /\ UNCHANGED <<ar, invoice, saleCancelled>>
      BY <1>a, <1>5 DEF UpdateIssuedAtFind, Goto, db, LInv, WorkersOK
  <2>2. \A c \in Customers : Covered(c) => Covered(c)' BY <1>u, <2>1, KeptCovered
  <2>3. \A v \in Workers : v = w BY <1>o
  <2> QED BY <2>1, <2>2, <2>3 DEF DueInv, HalfRedated
<1>6. ASSUME NEW w \in Workers, UpdateIssuedAtSave(w) PROVE DueInv'
  <2>0. PICK c : c = arg[w].cust OBVIOUS
  <2> DEFINE dues == DueDates(CountedInvoices(c), HeldRow(w).terms)
  <2>1. /\ pc[w] = "updateIssuedAt.save" /\ UNCHANGED <<invoice, saleCancelled>>
        /\ \/ (HeldRow(w) = None \/ CountedInvoices(c) = {}) /\ UNCHANGED ar
           \/ /\ HeldRow(w) # None
              /\ \E d \in dues : IsLatest(d, dues) /\ Saved(c, [HeldRow(w) EXCEPT !.due = d])
      BY <1>6, <1>a, <2>0, AloneSaves DEF UpdateIssuedAtSave
  <2>2. c \in Customers /\ (HeldRow(w) # None => HeldRow(w) \in Row)
      BY <1>a, <2>0, <2>1, HeldRowGood DEF NeedsCustomer
  <2>3. HeldRow(w) = ar[c] BY <2>0, <2>1 DEF AloneInv, CurrentInv, AloneOK, HeldIsCurrent, Holding, HeldRow
  <2>4. \A e \in Customers \ {c} : Covered(e) BY <1>o, <2>0 DEF DueInv
  <2>5. CASE CountedInvoices(c) = {}
    <3>1. UNCHANGED ar BY <2>1, <2>5 DEF DueDates
    <3>2. \A e \in Customers : Covered(e) BY <2>4, <2>5 DEF Covered
    <3> QED BY <1>u, <2>1, <3>1, <3>2, KeptCovered DEF DueInv
  <2>6. CASE CountedInvoices(c) # {}
    <3>1. ar[c] # None
        BY <2>6 DEF CountedInvoices, AloneInv, CurrentInv, InvoicesOwned
    <3>2. PICK d \in dues : IsLatest(d, dues) /\ Saved(c, [HeldRow(w) EXCEPT !.due = d])
        BY <2>1, <2>3, <2>6, <3>1
    <3>3. HeldRow(w) \in Row /\ HeldRow(w).terms \in Nat
        BY <2>2, <2>3, <3>1 DEF Row
    <3>4. dues \subseteq Int BY <1>a, <3>3, DueDatesType DEF CountedInvoices, LInv
    <3>5. d \in Int /\ \A e \in dues : e <= d BY <3>2, <3>4 DEF IsLatest
    <3>6. PICK row \in Row : row = [HeldRow(w) EXCEPT !.due = d] BY <3>3, <3>5, DatedGood
    <3>7. row.due = d /\ row.terms = HeldRow(w).terms BY <3>3, <3>6, RowFields
    <3>8. ar'[c] = row /\ \A e \in Customers \ {c} : ar'[e] = ar[e]
        BY <1>a, <2>2, <3>2, <3>6 DEF Saved, LInv, DbOK
    <3>9. \A j \in CountedInvoices(c)' : invoice'[j].issued + row.terms \in dues
        BY <2>1, <3>7 DEF CountedInvoices, DueDates
    <3> HIDE DEF dues
    <3>10. Covered(c)' BY <2>2, <3>5, <3>7, <3>8, <3>9, LatestCovers
    <3>11. \A e \in Customers \ {c} : DatesKept(e) BY <2>1, <3>8 DEF DatesKept
    <3> QED BY <2>4, <3>10, <3>11, KeptCovered DEF DueInv
  <2> QED BY <2>5, <2>6
<1>7. ASSUME NEW w \in Workers, UpdatePaymentTermsSave(w) PROVE DueInv'
  <2>0. PICK c, t : c = arg[w].cust /\ t = arg[w].day OBVIOUS
  <2> DEFINE dues == DueDates(CountedInvoices(c), t)
  <2>1. PICK d \in dues \cup {None} :
          /\ IF dues = {} THEN d = None ELSE IsLatest(d, dues)
          /\ SavedAndFinished(w, "updatePaymentTerms.save",
                              [HeldRow(w) EXCEPT !.terms = t, !.due = d])
      BY <1>7, <1>a, <2>0, AloneSaves DEF UpdatePaymentTermsSave
  <2>2. /\ pc[w] = "updatePaymentTerms.save" /\ UNCHANGED <<invoice, saleCancelled>>
        /\ Saved(c, [HeldRow(w) EXCEPT !.terms = t, !.due = d])
      BY <2>0, <2>1 DEF SavedAndFinished
  <2>3. c \in Customers /\ HeldRow(w) \in Row /\ t \in Nat
      BY <1>a, <2>0, <2>2, HeldRowGood DEF NeedsCustomer, NeedsRow, LInv, WorkersOK, ProgressOK
  <2>4. dues \subseteq Int BY <1>a, <2>3, DueDatesType DEF CountedInvoices, LInv
  <2>5. PICK row \in Row : row = [HeldRow(w) EXCEPT !.terms = t, !.due = d]
      BY <2>3, <2>4, DatedGood
  <2>6. row.due = d /\ row.terms = t BY <2>3, <2>5, RowFields
  <2>7. ar'[c] = row /\ \A e \in Customers \ {c} : ar'[e] = ar[e]
      BY <1>a, <2>2, <2>3, <2>5 DEF Saved, LInv, DbOK
  <2>8. \A j \in CountedInvoices(c)' : invoice'[j].issued + row.terms \in dues
      BY <2>2, <2>6 DEF CountedInvoices, DueDates
  <2>9. Covered(c)'
    <3>1. CASE dues = {} BY <2>8, <3>1 DEF Covered
    <3>2. CASE dues # {}
      <4>1. d \in Int /\ \A e \in dues : e <= d BY <2>1, <2>4, <3>2 DEF IsLatest
      <4> HIDE DEF dues
      <4> QED BY <2>3, <2>6, <2>7, <2>8, <4>1, LatestCovers
    <3> QED BY <3>1, <3>2
  <2>10. \A e \in Customers \ {c} : DatesKept(e) BY <2>2, <2>7 DEF DatesKept
  <2>11. pc[w] \notin HalfRedated BY <2>2 DEF HalfRedated
  <2>12. \A e \in Customers : Covered(e) BY <1>o, <2>11 DEF DueInv
  <2> QED BY <2>9, <2>10, <2>12, KeptCovered DEF DueInv
<1>8. ASSUME NEW w \in Workers, Proceed(w), ~CreateInvoiceCommit(w), ~UpdateIssuedAtWrite(w),
             ~UpdateIssuedAtFind(w), ~UpdateIssuedAtSave(w), ~UpdatePaymentTermsSave(w)
      PROVE  DueInv'
  <2>1. \A c \in Customers : DatesKept(c) BY <1>a, <1>8, ProceedKeepsDates
  <2>2. ~LookInvoice(w) /\ \A c \in Customers : ~Look(w, c)
      BY DEF LookInvoice, Look, OtherAt, OneAtATime
  <2>3. pc[w] \notin HalfRedated
      BY <1>8, <2>2
      DEF Proceed, HalfRedated, Goto, SaveAndFinish, CollectInsert, CollectSave,
          CollectByCustomerCommit, UpdateInvoiceCommit, DeleteInvoiceCommit, InvoiceFlagWrite,
          UpdateCollectionFind, UpdateCollectionWrite, UpdateCollectionSave,
          DeleteCollectionFind, DeleteCollectionRemove, DeleteCollectionSave,
          CollectionRefused, DuplicateRowRollback, UpdateInvoiceBegin, UpdateInvoiceRollback,
          DeleteInvoiceFind, UpdateReceivableNotesSave, UpdateWarningStatusesStep,
          UpdateWarningStatusesEnd
  <2> QED BY <1>k, <2>1, <2>3
<1>9. ASSUME UNCHANGED <<ar, invoice, pc, arg>>, saleCancelled \subseteq saleCancelled'
      PROVE  DueInv'
  <2>1. \A c \in Customers : DatesKept(c) BY <1>9 DEF DatesKept
  <2> QED BY <1>9, <2>1, KeptCovered DEF DueInv
<1> QED
    BY <1>1, <1>2, <1>3, <1>4, <1>5, <1>6, <1>7, <1>8, <1>9 DEF Next, CancelSale, NextDay, vars, db

\* With one request at a time that no failure stops halfway through a new date,
\* and edits that leave an invoice with its customer, the due date warnings
\* count from is never earlier than that of an invoice that still counts.
THEOREM DueAlwaysCovers ==
    ASSUME OneAtATime, ~MayChangeCustomer, FailingSteps \cap HalfRedated = {}
    PROVE  Spec => []DueCoversLiveInvoices
<1>1. Init => IInv /\ AloneInv /\ DueInv
    BY InitOK, AloneInit DEF Init, DueInv, Covered, CountedInvoices
<1>2. IInv /\ AloneInv /\ DueInv /\ [Next]_vars => (IInv /\ AloneInv /\ DueInv)'
    BY NextKeeps, AloneInductive, DueInductive
<1>3. DueInv => DueCoversLiveInvoices
    BY DEF DueInv, Covered, HalfRedated, DueCoversLiveInvoices, Idle
<1> QED BY <1>1, <1>2, <1>3, PTL DEF Spec

-----------------------------------------------------------------------------
(* Sums over a finite set.  The fold of the community modules is a recursive *)
(* function chosen with CHOOSE: that one exists, and that two agree, is shown *)
(* by induction over the number of elements, for a set of numbers.           *)

\* Induction over the numbers, for a set of them.
LEMMA NatSet ==
  ASSUME NEW T, T \subseteq Nat, 0 \in T, \A n \in T : n + 1 \in T
  PROVE  Nat = T
<1> DEFINE Out == Nat \ T
           R == OpToRel(<, Nat)
<1>1. SUFFICES ASSUME Out # {} PROVE FALSE
  OBVIOUS
<1>2. IsWellFoundedOn(R, Nat)
  BY NatLessThanWellFounded
<1> HIDE DEF R
<1>3. PICK m \in Out : \A k \in Out : <<k, m>> \notin R
  BY <1>1, <1>2, WFMin
<1>4. \A k \in Out : ~(k < m)
  BY <1>3 DEF R, OpToRel
<1>5. m # 0 /\ m - 1 \in Nat
  OBVIOUS
<1>6. m - 1 \in T
  BY <1>4, <1>5
<1> QED
  BY <1>5, <1>6

SumOver(f, S) == FoldFunctionOnSet(+, 0, f, S)

\* The sums of f over the subsets of S, by the recursion of the fold.
Any(s) == CHOOSE x \in s : TRUE
SumOn(g, f, S) ==
  g = [s \in SUBSET S |-> IF s = {} THEN 0 ELSE f[Any(s)] + g[s \ {Any(s)}]]

LEMMA SumDef ==
  ASSUME NEW f, NEW S
  PROVE  SumOver(f, S) = (CHOOSE g : SumOn(g, f, S))[S]
  BY DEF SumOver, FoldFunctionOnSet, MapThenFoldSet, SumOn, Any

Small(S, n) == {s \in SUBSET S : Cardinality(s) <= n}

LEMMA SmallLess ==
  ASSUME NEW S, IsFiniteSet(S), NEW n \in Nat, NEW s \in Small(S, n + 1), s # {}
  PROVE  /\ Any(s) \in s /\ Any(s) \in S
         /\ \A x \in s : s \ {x} \in Small(S, n)
<1>1. Any(s) \in s
  BY DEF Any
<1>2. s \in SUBSET S /\ IsFiniteSet(s) /\ Cardinality(s) <= n + 1
  BY FS_Subset DEF Small
<1>3. ASSUME NEW x \in s PROVE s \ {x} \in Small(S, n)
  <2>1. Cardinality(s \ {x}) = Cardinality(s) - 1 /\ Cardinality(s) \in Nat
    BY <1>2, FS_RemoveElement, FS_CardinalityType
  <2> QED
    BY <1>2, <2>1 DEF Small
<1> QED
  BY <1>1, <1>2, <1>3

LEMMA SmallAll ==
  ASSUME NEW S, IsFiniteSet(S)
  PROVE  /\ Cardinality(S) \in Nat /\ Small(S, Cardinality(S)) = SUBSET S
         /\ \A s \in Small(S, 0) : s = {}
  BY FS_CardinalityType, FS_Subset, FS_EmptySet DEF Small

LEMMA SumExists ==
  ASSUME NEW S, IsFiniteSet(S), NEW f
  PROVE  \E g : SumOn(g, f, S)
<1> DEFINE On(g, n) == g = [s \in Small(S, n) |->
                              IF s = {} THEN 0 ELSE f[Any(s)] + g[s \ {Any(s)}]]
           T == {n \in Nat : \E g : On(g, n)}
<1>1. 0 \in T
  <2>1. On([s \in Small(S, 0) |-> 0], 0)
    BY SmallAll
  <2> QED
    BY <2>1
<1>2. ASSUME NEW n \in T PROVE n + 1 \in T
  <2>1. PICK g : On(g, n)
    BY <1>2
  <2> DEFINE h == [s \in Small(S, n + 1) |->
                     IF s = {} THEN 0 ELSE f[Any(s)] + g[s \ {Any(s)}]]
  <2>2. ASSUME NEW s \in Small(S, n) PROVE s \in Small(S, n + 1) /\ h[s] = g[s]
    <3>1. s \in Small(S, n + 1)
      BY FS_Subset, FS_CardinalityType DEF Small
    <3> QED
      BY <2>1, <3>1
  <2>3. ASSUME NEW s \in Small(S, n + 1), s # {}
        PROVE  h[s] = f[Any(s)] + h[s \ {Any(s)}]
    <3>1. s \ {Any(s)} \in Small(S, n)
      BY <2>3, SmallLess
    <3>2. h[s \ {Any(s)}] = g[s \ {Any(s)}]
      BY <2>2, <3>1
    <3> QED
      BY <2>3, <3>2
  <2>4. \A s \in Small(S, n + 1) : h[s] = IF s = {} THEN 0 ELSE f[Any(s)] + h[s \ {Any(s)}]
    <3>1. \A s \in Small(S, n + 1) : s = {} => h[s] = 0
      OBVIOUS
    <3> HIDE DEF h
    <3> QED
      BY <2>3, <3>1
  <2>5. h = [s \in Small(S, n + 1) |-> h[s]]
    OBVIOUS
  <2>6. n + 1 \in Nat
    OBVIOUS
  <2> HIDE DEF h
  <2>7. On(h, n + 1)
    BY <2>4, <2>5
  <2> QED
    BY <2>6, <2>7
<1> HIDE DEF T
<1>3. Cardinality(S) \in T
  <2>1. T \subseteq Nat
    BY DEF T
  <2>2. Nat = T
    BY <1>1, <1>2, <2>1, NatSet
  <2> QED
    BY <2>2, SmallAll
<1>4. PICK g : On(g, Cardinality(S))
  BY <1>3 DEF T
<1> QED
  BY <1>4, SmallAll DEF SumOn

LEMMA SumFix ==
  ASSUME NEW S, IsFiniteSet(S), NEW f
  PROVE  \E g : SumOn(g, f, S) /\ SumOver(f, S) = g[S]
  BY SumExists, SumDef, Zenon

\* Equal values give equal sums, over any subsets.
LEMMA SumUnique ==
  ASSUME NEW S, IsFiniteSet(S), NEW T \in SUBSET S, NEW f, NEW e,
         \A x \in T : f[x] = e[x],
         NEW g, SumOn(g, f, S), NEW h, SumOn(h, e, T)
  PROVE  \A s \in SUBSET T : g[s] = h[s]
<1> DEFINE N == {n \in Nat : \A s \in Small(T, n) : g[s] = h[s]}
<1>0. IsFiniteSet(T)
  BY FS_Subset
<1>1. 0 \in N
  <2>1. g[{}] = 0 /\ h[{}] = 0
    BY DEF SumOn
  <2> QED
    BY <1>0, <2>1, SmallAll
<1>2. ASSUME NEW n \in N PROVE n + 1 \in N
  <2>1. SUFFICES ASSUME NEW s \in Small(T, n + 1), s # {} PROVE g[s] = h[s]
    <3>1. g[{}] = h[{}]
      BY DEF SumOn
    <3> QED
      BY <3>1
  <2>2. Any(s) \in T /\ s \ {Any(s)} \in Small(T, n)
    BY <1>0, <2>1, SmallLess
  <2>3. s \in SUBSET T /\ s \in SUBSET S
    BY DEF Small
  <2>4. g[s] = f[Any(s)] + g[s \ {Any(s)}] /\ h[s] = e[Any(s)] + h[s \ {Any(s)}]
    BY <2>1, <2>3 DEF SumOn
  <2> QED
    BY <2>2, <2>4
<1> HIDE DEF N
<1>3. Cardinality(T) \in N
  <2>1. N \subseteq Nat
    BY DEF N
  <2>2. Nat = N
    BY <1>1, <1>2, <2>1, NatSet
  <2> QED
    BY <1>0, <2>2, SmallAll
<1> QED
  BY <1>0, <1>3, SmallAll DEF N

LEMMA SumSame ==
  ASSUME NEW S, IsFiniteSet(S), NEW f, NEW e, \A x \in S : f[x] = e[x]
  PROVE  SumOver(f, S) = SumOver(e, S)
<1>1. PICK g : SumOn(g, f, S) /\ SumOver(f, S) = g[S]
  BY SumFix
<1>2. PICK h : SumOn(h, e, S) /\ SumOver(e, S) = h[S]
  BY SumFix
<1>3. \A s \in SUBSET S : g[s] = h[s]
  <2>1. S \in SUBSET S
    OBVIOUS
  <2> QED
    BY <1>1, <1>2, <2>1, SumUnique
<1> QED
  BY <1>1, <1>2, <1>3

LEMMA SumEmpty == \A f : SumOver(f, {}) = 0
  BY SumFix, FS_EmptySet DEF SumOn

\* A sum is one of its terms and the sum of the others, whichever it is.
LEMMA SumOnType ==
  ASSUME NEW S, IsFiniteSet(S), NEW f, NEW K, K = Int \/ K = Nat,
         \A x \in S : f[x] \in K, NEW g, SumOn(g, f, S)
  PROVE  \A s \in SUBSET S : g[s] \in K
<1> DEFINE N == {n \in Nat : \A s \in Small(S, n) : g[s] \in K}
<1>0. 0 \in K /\ \A a, b \in K : a + b \in K
  OBVIOUS
<1>1. 0 \in N
  BY <1>0, SmallAll DEF SumOn
<1>2. ASSUME NEW n \in N PROVE n + 1 \in N
  <2>1. SUFFICES ASSUME NEW s \in Small(S, n + 1) PROVE g[s] \in K
    OBVIOUS
  <2>2. CASE s = {}
    BY <1>0, <2>2 DEF SumOn
  <2>3. CASE s # {}
    <3>1. f[Any(s)] \in K /\ g[s \ {Any(s)}] \in K
      BY <2>3, SmallLess
    <3>2. g[s] = f[Any(s)] + g[s \ {Any(s)}]
      BY <2>3 DEF SumOn, Small
    <3> QED
      BY <1>0, <3>1, <3>2
  <2> QED
    BY <2>2, <2>3
<1> HIDE DEF N
<1>3. Cardinality(S) \in N
  <2>1. N \subseteq Nat
    BY DEF N
  <2>2. Nat = N
    BY <1>1, <1>2, <2>1, NatSet
  <2> QED
    BY <2>2, SmallAll
<1> QED
  BY <1>3, SmallAll DEF N

LEMMA SumType ==
  ASSUME NEW S, IsFiniteSet(S), NEW f, NEW K, K = Int \/ K = Nat, \A x \in S : f[x] \in K
  PROVE  SumOver(f, S) \in K
<1>1. PICK g : SumOn(g, f, S) /\ SumOver(f, S) = g[S]
  BY SumFix
<1> QED
  BY <1>1, SumOnType

LEMMA SumOnRemove ==
  ASSUME NEW S, IsFiniteSet(S), NEW f, \A x \in S : f[x] \in Int, NEW g, SumOn(g, f, S)
  PROVE  \A s \in SUBSET S : \A x \in s : g[s] = f[x] + g[s \ {x}]
<1> DEFINE N == {n \in Nat : \A s \in Small(S, n) : \A x \in s : g[s] = f[x] + g[s \ {x}]}
<1>0. \A s \in SUBSET S : g[s] \in Int
  BY SumOnType
<1>1. 0 \in N
  BY SmallAll
<1>2. ASSUME NEW n \in N PROVE n + 1 \in N
  <2>1. SUFFICES ASSUME NEW s \in Small(S, n + 1), NEW x \in s PROVE g[s] = f[x] + g[s \ {x}]
    OBVIOUS
  <2> DEFINE y == Any(s)
  <2>2. s \in SUBSET S /\ y \in s /\ s \ {x} \in Small(S, n) /\ s \ {y} \in Small(S, n)
    BY SmallLess DEF Small
  <2>3. g[s] = f[y] + g[s \ {y}]
    BY <2>2 DEF SumOn
  <2> HIDE DEF y
  <2>4. CASE x = y
    BY <2>3, <2>4
  <2>5. CASE x # y
    <3>1. g[s \ {y}] = f[x] + g[(s \ {y}) \ {x}]
      BY <2>2, <2>5
    <3>2. g[s \ {x}] = f[y] + g[(s \ {x}) \ {y}]
      BY <2>2, <2>5
    <3>3. (s \ {x}) \ {y} = (s \ {y}) \ {x} /\ (s \ {y}) \ {x} \in SUBSET S
      BY <2>2
    <3>4. f[x] \in Int /\ f[y] \in Int /\ g[(s \ {y}) \ {x}] \in Int
      BY <1>0, <2>2, <3>3
    <3> DEFINE z == g[(s \ {y}) \ {x}]
    <3>5. g[(s \ {x}) \ {y}] = z
      BY <3>3
    <3>6. z \in Int /\ f[x] \in Int /\ f[y] \in Int
      BY <3>4
    <3>7. g[s] = f[y] + (f[x] + z) /\ g[s \ {x}] = f[y] + z
      BY <2>3, <3>1, <3>2, <3>5
    <3> HIDE DEF N, z
    <3>8. f[y] + (f[x] + z) = f[x] + (f[y] + z)
      BY <3>6
    <3> QED
      BY <3>7, <3>8
  <2> QED
    BY <2>4, <2>5
<1> HIDE DEF N
<1>3. Cardinality(S) \in N
  <2>1. N \subseteq Nat
    BY DEF N
  <2>2. Nat = N
    BY <1>1, <1>2, <2>1, NatSet
  <2> QED
    BY <2>2, SmallAll
<1> QED
  BY <1>3, SmallAll DEF N

LEMMA SumRemove ==
  ASSUME NEW S, IsFiniteSet(S), NEW f, \A x \in S : f[x] \in Int, NEW x \in S
  PROVE  SumOver(f, S) = f[x] + SumOver(f, S \ {x})
<1>1. PICK g : SumOn(g, f, S) /\ SumOver(f, S) = g[S]
  BY SumFix
<1> DEFINE T == S \ {x}
<1>2. T \in SUBSET S /\ IsFiniteSet(T)
  BY FS_Subset
<1>3. PICK h : SumOn(h, f, T) /\ SumOver(f, T) = h[T]
  BY <1>2, SumFix
<1>4. g[T] = h[T]
  BY <1>1, <1>2, <1>3, SumUnique
<1>5. g[S] = f[x] + g[T]
  BY <1>1, SumOnRemove
<1> QED
  BY <1>1, <1>3, <1>4, <1>5

\* Terms that are 0 add nothing.
LEMMA SumZero ==
  ASSUME NEW S, IsFiniteSet(S), NEW f, \A x \in S : f[x] \in Int,
         NEW T \in SUBSET S, \A x \in S \ T : f[x] = 0
  PROVE  SumOver(f, S) = SumOver(f, T)
<1> DEFINE N == {n \in Nat : \A t \in SUBSET S : T \subseteq t /\ Cardinality(S \ t) = n =>
                                 SumOver(f, S) = SumOver(f, t)}
<1>1. 0 \in N
  <2>1. ASSUME NEW t \in SUBSET S, Cardinality(S \ t) = 0 PROVE t = S
    BY <2>1, FS_EmptySet, FS_Subset
  <2> QED
    BY <2>1
<1>2. ASSUME NEW n \in N PROVE n + 1 \in N
  <2>1. SUFFICES ASSUME NEW t \in SUBSET S, T \subseteq t, Cardinality(S \ t) = n + 1
                 PROVE  SumOver(f, S) = SumOver(f, t)
    OBVIOUS
  <2>2. IsFiniteSet(S \ t) /\ IsFiniteSet(t)
    BY FS_Subset
  <2>0. n \in Nat
    OBVIOUS
  <2>3. S \ t # {}
    <3>1. Cardinality(S \ t) # 0
      BY <2>0, <2>1
    <3> QED
      BY <3>1, FS_EmptySet
  <2>4. PICK x \in S \ t : TRUE
    BY <2>3
  <2> DEFINE u == t \cup {x}
  <2>5. Cardinality((S \ t) \ {x}) = n
    <3>1. Cardinality((S \ t) \ {x}) = Cardinality(S \ t) - 1
      BY <2>2, <2>4, FS_RemoveElement
    <3> QED
      BY <2>0, <2>1, <3>1
  <2>6. S \ u = (S \ t) \ {x} /\ u \in SUBSET S /\ u \ {x} = t /\ x \in u
    BY <2>4
  <2>7. SumOver(f, S) = SumOver(f, u)
    BY <1>2, <2>1, <2>5, <2>6
  <2>8. IsFiniteSet(u)
    BY <2>6, FS_Subset
  <2>9. SumOver(f, u) = f[x] + SumOver(f, u \ {x})
    BY <2>6, <2>8, SumRemove
  <2>10. SumOver(f, t) \in Int
    BY <2>2, SumType
  <2>11. f[x] = 0
    BY <2>1, <2>4
  <2> HIDE DEF u, N
  <2> QED
    BY <2>6, <2>7, <2>9, <2>10, <2>11
<1> HIDE DEF N
<1>3. Cardinality(S \ T) \in N
  <2>1. N \subseteq Nat
    BY DEF N
  <2>2. Nat = N
    BY <1>1, <1>2, <2>1, NatSet
  <2> QED
    BY <2>2, FS_Subset, FS_CardinalityType
<1> QED
  BY <1>3 DEF N

\* A sum changes by what one of its terms does.
LEMMA SumChange ==
  ASSUME NEW S, IsFiniteSet(S), NEW f, NEW e, NEW x \in S,
         \A y \in S : f[y] \in Int /\ e[y] \in Int, \A y \in S \ {x} : e[y] = f[y]
  PROVE  SumOver(e, S) = SumOver(f, S) + (e[x] - f[x])
<1>1. IsFiniteSet(S \ {x})
  BY FS_Subset
<1>2. SumOver(e, S \ {x}) = SumOver(f, S \ {x})
  BY <1>1, SumSame
<1>3. SumOver(f, S \ {x}) \in Int
  BY <1>1, SumType
<1>4. SumOver(f, S) = f[x] + SumOver(f, S \ {x}) /\ SumOver(e, S) = e[x] + SumOver(e, S \ {x})
  BY SumRemove
<1> DEFINE n == SumOver(f, S \ {x})
<1>5. n \in Int /\ SumOver(f, S) = f[x] + n /\ SumOver(e, S) = e[x] + n
  BY <1>2, <1>3, <1>4
<1> HIDE DEF n
<1> QED
  BY <1>5

\* A sum of natural numbers is at least each of its terms.
LEMMA SumAtLeast ==
  ASSUME NEW S, IsFiniteSet(S), NEW f, \A y \in S : f[y] \in Nat, NEW x \in S
  PROVE  f[x] <= SumOver(f, S)
<1>1. SumOver(f, S) = f[x] + SumOver(f, S \ {x})
  BY SumRemove
<1>2. SumOver(f, S \ {x}) \in Nat
  BY SumType, FS_Subset
<1> QED
  BY <1>1, <1>2
-----------------------------------------------------------------------------
(* The account a customer has in a view of the bills or of the payments.     *)

Entries == Book!Entry \cup {None}
Share(view, ids, c) ==
    [x \in ids |-> IF view[x] # None /\ view[x].cust = c THEN view[x].amt ELSE 0]
Posted(view, ids, c) == SumOver(Share(view, ids, c), ids)

LEMMA ShareType ==
    ASSUME NEW ids, NEW view \in [ids -> Entries], NEW c
    PROVE  \A x \in ids : Share(view, ids, c)[x] \in Int
BY DEF Share, Entries, Book!Entry

\* Posting one entry changes the account of its customer, and no other.
LEMMA PostingChanges ==
    ASSUME NEW ids, IsFiniteSet(ids), NEW view \in [ids -> Entries],
           NEW new \in [ids -> Entries], NEW x \in ids, NEW c \in Customers,
           Book!OwnedBy(view[x], c), Book!OwnedBy(new[x], c),
           \A y \in ids \ {x} : new[y] = view[y]
    PROVE  /\ Posted(new, ids, c) =
                Posted(view, ids, c) + (Book!AmountOf(new[x]) - Book!AmountOf(view[x]))
           /\ \A d \in Customers \ {c} : Posted(new, ids, d) = Posted(view, ids, d)
<1>1. \A d : /\ \A y \in ids : Share(view, ids, d)[y] \in Int /\ Share(new, ids, d)[y] \in Int
             /\ \A y \in ids \ {x} : Share(new, ids, d)[y] = Share(view, ids, d)[y]
  <2>1. \A d : \A y \in ids \ {x} : Share(new, ids, d)[y] = Share(view, ids, d)[y]
      BY DEF Share
  <2> QED BY <2>1, ShareType
<1>2. ASSUME NEW d
      PROVE  Posted(new, ids, d) =
               Posted(view, ids, d) + (Share(new, ids, d)[x] - Share(view, ids, d)[x])
  <2>1. PICK f, e : f = Share(view, ids, d) /\ e = Share(new, ids, d) OBVIOUS
  <2>2. /\ \A y \in ids : f[y] \in Int /\ e[y] \in Int
        /\ \A y \in ids \ {x} : e[y] = f[y]
      BY <1>1, <2>1
  <2>3. SumOver(e, ids) = SumOver(f, ids) + (e[x] - f[x]) BY <2>2, SumChange
  <2> QED BY <2>1, <2>3 DEF Posted
<1>3. /\ Share(new, ids, c)[x] = Book!AmountOf(new[x])
      /\ Share(view, ids, c)[x] = Book!AmountOf(view[x])
    BY DEF Share, Book!AmountOf, Book!OwnedBy
<1>4. ASSUME NEW d \in Customers \ {c} PROVE Posted(new, ids, d) = Posted(view, ids, d)
  <2>1. Share(new, ids, d)[x] = 0 /\ Share(view, ids, d)[x] = 0 BY DEF Share, Book!OwnedBy
  <2>2. Posted(view, ids, d) \in Int BY <1>1, SumType DEF Posted
  <2> QED BY <1>2, <2>1, <2>2
<1>5. Posted(new, ids, c) =
        Posted(view, ids, c) + (Book!AmountOf(new[x]) - Book!AmountOf(view[x]))
    BY <1>2, <1>3
<1> QED BY <1>4, <1>5

\* The totals of the runs' properties, which add up over the rows of a customer.
LEMMA TotalIsPosted ==
    ASSUME NEW ids, IsFiniteSet(ids), NEW f, NEW view \in [ids -> Entries], NEW c \in Customers,
           NEW own \in SUBSET ids,
           \A x \in own : view[x] # None /\ view[x].cust = c /\ f[x].amt = view[x].amt,
           \A x \in ids \ own : view[x] = None \/ view[x].cust # c
    PROVE  Total(f, own) = Posted(view, ids, c)
<1> DEFINE s == Share(view, ids, c)
           g == [x \in own |-> f[x].amt]
<1>1. \A x \in ids : s[x] \in Int BY ShareType
<1>2. \A x \in ids \ own : s[x] = 0 BY DEF Share
<1>3. \A x \in own : g[x] = s[x] BY DEF Share
<1>4. IsFiniteSet(own) BY FS_Subset
<1>5. Total(f, own) = SumOver(g, own) BY DEF Total, SumOver
<1> HIDE DEF s, g
<1>6. SumOver(s, ids) = SumOver(s, own) BY <1>1, <1>2, SumZero
<1>7. SumOver(g, own) = SumOver(s, own) BY <1>3, <1>4, SumSame
<1> QED BY <1>5, <1>6, <1>7 DEF Posted, s

-----------------------------------------------------------------------------
(* The three views of the book, with one request at a time.                  *)

SalesOf(c) == IF ar[c] = None THEN 0 ELSE ar[c].totalSales
CollectedOf(c) == IF ar[c] = None THEN 0 ELSE ar[c].totalCollected
BalanceOf(c) == IF ar[c] = None THEN 0 ELSE ar[c].balance
RowView(row) == [sales |-> row.totalSales, collected |-> row.totalCollected,
                 balance |-> row.balance]

LEMMA AccountTypes ==
    ASSUME LInv
    PROVE  /\ AccountView \in [Customers -> Book!Account \cup {None}]
           /\ \A c \in Customers :
                /\ SalesOf(c) \in Int /\ CollectedOf(c) \in Int /\ BalanceOf(c) \in Int
                /\ Book!Opened(c) = [sales |-> SalesOf(c), collected |-> CollectedOf(c),
                                     balance |-> BalanceOf(c)]
<1>1. ASSUME NEW c \in Customers, ar[c] # None
      PROVE  /\ ar[c] \in Row /\ RowView(ar[c]) \in Book!Account /\ RowView(ar[c]) # None
             /\ AccountView[c] = RowView(ar[c])
  <2>1. ar[c] \in Row BY <1>1 DEF LInv, DbOK
  <2>2. RowView(ar[c]) \in Book!Account BY <2>1 DEF Row, RowView, Book!Account
  <2>3. RowView(ar[c]) # None BY <2>2, LedgerAssumption DEF Book!Account
  <2> QED BY <1>1, <2>1, <2>2, <2>3 DEF AccountView, RowView
<1>2. ASSUME NEW c \in Customers, ar[c] = None PROVE AccountView[c] = None
    BY <1>2 DEF AccountView
<1>3. AccountView \in [Customers -> Book!Account \cup {None}]
  <2>1. AccountView = [c \in Customers |-> AccountView[c]] BY DEF AccountView
  <2> QED BY <1>1, <1>2, <2>1
<1>4. ASSUME NEW c \in Customers
      PROVE  /\ SalesOf(c) \in Int /\ CollectedOf(c) \in Int /\ BalanceOf(c) \in Int
             /\ Book!Opened(c) = [sales |-> SalesOf(c), collected |-> CollectedOf(c),
                                  balance |-> BalanceOf(c)]
  <2>1. CASE ar[c] = None
      BY <1>2, <2>1 DEF SalesOf, CollectedOf, BalanceOf, Book!Opened
  <2>2. CASE ar[c] # None
      BY <1>1, <2>2 DEF SalesOf, CollectedOf, BalanceOf, Book!Opened, RowView, Row
  <2> QED BY <2>1, <2>2
<1> QED BY <1>3, <1>4

LEMMA AccountSaved ==
    ASSUME LInv, NEW c \in Customers, NEW row \in Row, Saved(c, row)
    PROVE  AccountView' = [AccountView EXCEPT ![c] = RowView(row)]
<1>1. row # None BY LedgerAssumption
<1>2. ar'[c] = row /\ \A d \in Customers \ {c} : ar'[d] = ar[d] BY DEF Saved, LInv, DbOK
<1> QED BY <1>1, <1>2 DEF AccountView, RowView

LEMMA BillTypes ==
    ASSUME LInv
    PROVE  /\ BillView \in [InvoiceIds -> Entries]
           /\ \A i \in InvoiceIds :
                /\ invoice[i].state = "live" =>
                     /\ BillView[i] # None /\ BillView[i].amt = invoice[i].amt
                     /\ BillView[i].cust = invoice[i].receivable
                /\ invoice[i].state # "live" => BillView[i] = None
<1>1. ASSUME NEW i \in InvoiceIds, invoice[i].state = "live"
      PROVE  /\ BillView[i] = [cust |-> invoice[i].receivable, amt |-> invoice[i].amt]
             /\ BillView[i] \in Book!Entry /\ BillView[i] # None
  <2>1. BillView[i] = [cust |-> invoice[i].receivable, amt |-> invoice[i].amt]
      BY <1>1 DEF BillView
  <2>2. BillView[i] \in Book!Entry
      BY <1>1, <2>1 DEF LInv, DbOK, GoodInvoice, Known, Invoice, Book!Entry
  <2> QED BY <2>1, <2>2, LedgerAssumption DEF Book!Entry
<1>2. ASSUME NEW i \in InvoiceIds, invoice[i].state # "live" PROVE BillView[i] = None
    BY <1>2 DEF BillView
<1>3. BillView = [i \in InvoiceIds |-> BillView[i]] BY DEF BillView
<1>4. \A i \in InvoiceIds : BillView[i] \in Entries BY <1>1, <1>2 DEF Entries
<1>5. BillView \in [InvoiceIds -> Entries] BY <1>3, <1>4
<1> QED BY <1>1, <1>2, <1>5

Saving == {"collect.save", "updateCollection.save", "deleteCollection.save"}
PaidBefore(p, a) ==
    IF p = "collect.save" THEN None
    ELSE [cust |-> a.cust, amt |-> IF p = "updateCollection.save" THEN a.old ELSE a.amt]
PaidNow(k) ==
    IF collection[k].state # "live" THEN None
    ELSE [cust |-> collection[k].cust, amt |-> collection[k].amt]
PaidAlone(w) ==
    [k \in CollectionIds |-> IF arg[w].col = k /\ pc[w] \in Saving
                             THEN PaidBefore(pc[w], arg[w]) ELSE PaidNow(k)]

LEMMA PaidViewAlone ==
    ASSUME OneAtATime, NEW w \in Workers
    PROVE  PaidView = PaidAlone(w) /\ PaidView' = PaidAlone(w)'
<1>1. ASSUME NEW k \in CollectionIds PROVE PaidView[k] = PaidAlone(w)[k]
  <2> DEFINE pending == {v \in Workers : arg[v].col = k /\ pc[v] \in
              {"collect.save", "updateCollection.save", "deleteCollection.save"}}
  <2>1. CASE arg[w].col = k /\ pc[w] \in Saving
    <3>1. pending # {} /\ (CHOOSE v \in pending : TRUE) = w
        BY <2>1 DEF Saving, OneAtATime
    <3> QED BY <2>1, <3>1 DEF PaidView, PaidAlone, PaidBefore
  <2>2. CASE ~(arg[w].col = k /\ pc[w] \in Saving)
    <3>1. pending = {} BY <2>2 DEF Saving, OneAtATime
    <3> QED BY <2>2, <3>1 DEF PaidView, PaidAlone, PaidNow
  <2> QED BY <2>1, <2>2
<1>2. ASSUME NEW k \in CollectionIds PROVE PaidView'[k] = PaidAlone(w)'[k]
  <2> DEFINE pending == {v \in Workers : arg'[v].col = k /\ pc'[v] \in
              {"collect.save", "updateCollection.save", "deleteCollection.save"}}
  <2>1. CASE arg'[w].col = k /\ pc'[w] \in Saving
    <3>1. pending # {} /\ (CHOOSE v \in pending : TRUE) = w
        BY <2>1 DEF Saving, OneAtATime
    <3> QED BY <2>1, <3>1 DEF PaidView, PaidAlone, PaidBefore
  <2>2. CASE ~(arg'[w].col = k /\ pc'[w] \in Saving)
    <3>1. pending = {} BY <2>2 DEF Saving, OneAtATime
    <3> QED BY <2>2, <3>1 DEF PaidView, PaidAlone, PaidNow
  <2> QED BY <2>1, <2>2
<1> QED BY <1>1, <1>2 DEF PaidView, PaidAlone

-----------------------------------------------------------------------------
(* Steps that post nothing.                                                  *)

ViewsKept == BillView' = BillView /\ PaidView' = PaidView /\ AccountView' = AccountView

LEMMA PaidKept ==
    ASSUME OneAtATime, NEW w \in Workers, pc[w] \notin Saving, pc'[w] \notin Saving,
           collection' = collection
    PROVE  PaidView' = PaidView
<1>1. PaidView = PaidAlone(w) /\ PaidView' = PaidAlone(w)' BY PaidViewAlone
<1> QED BY <1>1 DEF PaidAlone, PaidNow

SameBill(i) == /\ invoice'[i].state = invoice[i].state
               /\ invoice'[i].receivable = invoice[i].receivable
               /\ invoice'[i].amt = invoice[i].amt

LEMMA BillsKept == ASSUME \A i \in InvoiceIds : SameBill(i) PROVE BillView' = BillView
BY DEF SameBill, BillView

LEMMA AccountsKept ==
    ASSUME LInv, NEW c \in Customers, NEW row \in Row, Saved(c, row), ar[c] # None,
           row.totalSales = ar[c].totalSales, row.totalCollected = ar[c].totalCollected,
           row.balance = ar[c].balance
    PROVE  AccountView' = AccountView
<1>1. AccountView' = [AccountView EXCEPT ![c] = RowView(row)] BY AccountSaved
<1>2. AccountView[c] = RowView(row) BY DEF AccountView, RowView
<1>3. AccountView \in [Customers -> Book!Account \cup {None}] BY AccountTypes
<1> QED BY <1>1, <1>2, <1>3

Posting(w) ==
    \/ CollectSave(w) \/ CollectByCustomerCommit(w) \/ UpdateCollectionSave(w)
    \/ DeleteCollectionSave(w)
    \/ CreateInvoiceCommit(w) \/ UpdateInvoiceCommit(w) \/ DeleteInvoiceCommit(w)

LEMMA QuietProceed ==
    ASSUME LInv, AloneInv, OneAtATime, NEW w \in Workers, Proceed(w), ~Posting(w)
    PROVE  ViewsKept
<1>a. AloneOK(pc[w], arg[w], held[w], heldInv[w]) BY DEF AloneInv, CurrentInv
<1>b. \A p, q : pc[w] = p /\ pc' = [pc EXCEPT ![w] = q] => pc'[w] = q BY DEF LInv, WorkersOK
<1>f. Finish(w) => pc'[w] = "idle" BY <1>b DEF Finish
<1>g. \A p, q : Goto(w, p, q) => pc[w] = p /\ pc'[w] = q BY <1>b DEF Goto
<1>u. ASSUME UNCHANGED <<ar, invoice, collection>>, pc[w] \notin Saving, pc'[w] \notin Saving
      PROVE  ViewsKept
  <2>1. PaidView' = PaidView BY <1>u, PaidKept
  <2> QED BY <1>u, <2>1 DEF ViewsKept, BillView, AccountView
<1>p. ASSUME UNCHANGED <<ar, invoice>>, PaidView' = PaidView PROVE ViewsKept
    BY <1>p DEF ViewsKept, BillView, AccountView
<1>s. ASSUME NEW c \in Customers, NEW row \in Row, Saved(c, row), ar[c] # None,
             row.totalSales = ar[c].totalSales, row.totalCollected = ar[c].totalCollected,
             row.balance = ar[c].balance,
             UNCHANGED <<invoice, collection>>, pc[w] \notin Saving, pc'[w] \notin Saving
      PROVE  ViewsKept
  <2>1. PaidView' = PaidView BY <1>s, PaidKept
  <2>2. AccountView' = AccountView BY <1>s, AccountsKept
  <2> QED BY <1>s, <2>1, <2>2 DEF ViewsKept, BillView
<1>r. ASSUME pc[w] \in NeedsRow
      PROVE  /\ arg[w].cust \in Customers /\ HeldRow(w) \in Row
             /\ HeldRow(w) = ar[arg[w].cust] /\ ar[arg[w].cust] # None
    BY <1>a, <1>r, HeldRowGood DEF NeedsCustomer, AloneOK, HeldIsCurrent, Holding, HeldRow
<1>1. CASE CollectInsert(w)
  <2>1. /\ pc[w] = "collect.insert" /\ pc'[w] = "collect.save" /\ arg' = arg
        /\ collection' = [collection EXCEPT ![arg[w].col] = ArgCollection(w)]
        /\ UNCHANGED <<ar, invoice>>
      BY <1>1, <1>g DEF CollectInsert
  <2>2. collection[arg[w].col].state = "unused"
      BY <1>a, <2>1 DEF AloneOK, CollectionIsCurrent, Adding
  <2>3. PaidAlone(w)' = PaidAlone(w)
      BY <2>1, <2>2 DEF PaidAlone, Saving, PaidBefore, PaidNow, LInv, DbOK
  <2> QED BY <1>p, <2>1, <2>3, PaidViewAlone
<1>2. CASE UpdateCollectionWrite(w)
  <2>2. /\ collection[arg[w].col].state = "live" /\ collection[arg[w].col].amt = arg[w].old
        /\ collection[arg[w].col].cust = arg[w].cust
      BY <1>2, <1>a DEF UpdateCollectionWrite, Goto, AloneOK, CollectionIsCurrent
  <2>1. /\ pc[w] = "updateCollection.write" /\ pc'[w] = "updateCollection.save" /\ arg' = arg
        /\ collection' = [collection EXCEPT ![arg[w].col] = ArgCollection(w)]
        /\ UNCHANGED <<ar, invoice>>
      BY <1>2, <1>g, <2>2 DEF UpdateCollectionWrite
  <2>3. PaidAlone(w)' = PaidAlone(w)
      BY <2>1, <2>2 DEF PaidAlone, Saving, PaidBefore, PaidNow, LInv, DbOK
  <2> QED BY <1>p, <2>1, <2>3, PaidViewAlone
<1>3. CASE DeleteCollectionRemove(w)
  <2> DEFINE gone == [state |-> "removed", cust |-> None, amt |-> 0]
  <2>1. /\ pc[w] = "deleteCollection.remove" /\ pc'[w] = "deleteCollection.save" /\ arg' = arg
        /\ collection' = [collection EXCEPT ![arg[w].col] = gone]
        /\ UNCHANGED <<ar, invoice>>
      BY <1>3, <1>g DEF DeleteCollectionRemove
  <2>2. /\ collection[arg[w].col].state = "live" /\ collection[arg[w].col].amt = arg[w].amt
        /\ collection[arg[w].col].cust = arg[w].cust
      BY <1>a, <2>1 DEF AloneOK, CollectionIsCurrent
  <2>3. PaidAlone(w)' = PaidAlone(w)
      BY <2>1, <2>2 DEF PaidAlone, Saving, PaidBefore, PaidNow, LInv, DbOK
  <2> QED BY <1>p, <2>1, <2>3, PaidViewAlone
<1>4. CASE UpdateCollectionFind(w) \/ DeleteCollectionFind(w) \/ UpdateInvoiceBegin(w)
           \/ DeleteInvoiceFind(w) \/ UpdateIssuedAtFind(w)
    BY <1>4, <1>g, <1>u
    DEF UpdateCollectionFind, DeleteCollectionFind, UpdateInvoiceBegin, DeleteInvoiceFind,
        UpdateIssuedAtFind, db, Saving
<1>5. CASE CollectionRefused(w) \/ DuplicateRowRollback(w) \/ UpdateInvoiceRollback(w)
           \/ UpdateWarningStatusesEnd(w)
    BY <1>5, <1>f, <1>u
    DEF CollectionRefused, DuplicateRowRollback, UpdateInvoiceRollback, UpdateWarningStatusesEnd,
        db, Saving
<1>6. CASE UpdateIssuedAtWrite(w) \/ InvoiceFlagWrite(w)
  <2>1. CASE UpdateIssuedAtWrite(w)
    <3>1. /\ pc[w] = "updateIssuedAt.write" /\ pc'[w] = "updateIssuedAt.find"
          /\ UNCHANGED <<ar, collection>>
          /\ invoice' = [invoice EXCEPT ![arg[w].inv] = [heldInv[w] EXCEPT !.issued = arg[w].day]]
        BY <1>b, <2>1, AloneSaves DEF UpdateIssuedAtWrite
    <3>2. heldInv[w] = invoice[arg[w].inv] /\ arg[w].inv \in InvoiceIds
        BY <1>a, <3>1 DEF AloneOK, HeldIsCurrent, NeedsInvoice
    <3>3. \A i \in InvoiceIds : SameBill(i) BY <3>1, <3>2 DEF SameBill, LInv, DbOK, Invoice
    <3>4. PaidView' = PaidView BY <3>1, PaidKept DEF Saving
    <3> QED BY <3>1, <3>3, <3>4, BillsKept DEF ViewsKept, AccountView
  <2>2. CASE InvoiceFlagWrite(w)
    <3>1. /\ pc[w] = "invoiceFlag.write" /\ pc'[w] = "idle" /\ UNCHANGED <<ar, collection>>
          /\ invoice' = [invoice EXCEPT ![arg[w].inv] = heldInv[w]]
        BY <1>f, <2>2, AloneSaves DEF InvoiceFlagWrite
    <3>2. heldInv[w] = invoice[arg[w].inv]
        BY <1>a, <3>1 DEF AloneOK, HeldIsCurrent, NeedsInvoice
    <3>3. \A i \in InvoiceIds : SameBill(i) BY <3>1, <3>2 DEF SameBill, LInv, DbOK
    <3>4. PaidView' = PaidView BY <3>1, PaidKept DEF Saving
    <3> QED BY <3>1, <3>3, <3>4, BillsKept DEF ViewsKept, AccountView
  <2> QED BY <1>6, <2>1, <2>2
<1>7. CASE UpdateIssuedAtSave(w)
  <2> DEFINE c == arg[w].cust
             dues == DueDates(CountedInvoices(c), HeldRow(w).terms)
  <2>1. /\ pc[w] = "updateIssuedAt.save" /\ pc'[w] = "idle" /\ UNCHANGED <<invoice, collection>>
        /\ \/ UNCHANGED ar
           \/ HeldRow(w) # None /\ \E d \in dues : Saved(c, [HeldRow(w) EXCEPT !.due = d])
      BY <1>7, <1>f, AloneSaves DEF UpdateIssuedAtSave
  <2>2. pc[w] \notin Saving /\ pc'[w] \notin Saving BY <2>1 DEF Saving
  <2>3. CASE UNCHANGED ar BY <1>u, <2>1, <2>2, <2>3
  <2>4. ASSUME NEW d \in dues, HeldRow(w) # None, Saved(c, [HeldRow(w) EXCEPT !.due = d])
        PROVE  ViewsKept
    <3>1. c \in Customers /\ HeldRow(w) \in Row /\ HeldRow(w) = ar[c]
        BY <1>a, <2>1, <2>4, HeldRowGood
        DEF NeedsCustomer, AloneOK, HeldIsCurrent, Holding, HeldRow
    <3>2. d \in Int
      <4>1. HeldRow(w).terms \in Nat BY <3>1 DEF Row
      <4> QED BY <4>1, DueDatesType DEF CountedInvoices, LInv
    <3>3. PICK row : row = [HeldRow(w) EXCEPT !.due = d] OBVIOUS
    <3>4. row \in Row /\ HeldRow(w).terms \in Nat
        BY <3>1, <3>2, <3>3, LedgerAssumption DEF Row
    <3>5. /\ row.totalSales = ar[c].totalSales /\ row.balance = ar[c].balance
          /\ row.totalCollected = ar[c].totalCollected
        BY <3>1, <3>3, RowFields
    <3> QED BY <1>s, <2>1, <2>2, <2>4, <3>1, <3>3, <3>4, <3>5
  <2> QED BY <2>1, <2>3, <2>4
<1>8. CASE UpdatePaymentTermsSave(w)
  <2> DEFINE c == arg[w].cust
             t == arg[w].day
             dues == DueDates(CountedInvoices(c), t)
  <2>1. PICK d \in dues \cup {None} :
          SavedAndFinished(w, "updatePaymentTerms.save",
                           [HeldRow(w) EXCEPT !.terms = t, !.due = d])
      BY <1>8, AloneSaves DEF UpdatePaymentTermsSave
  <2>2. PICK row : row = [HeldRow(w) EXCEPT !.terms = t, !.due = d] OBVIOUS
  <2>3. /\ pc[w] = "updatePaymentTerms.save" /\ pc'[w] = "idle" /\ Saved(c, row)
        /\ UNCHANGED <<invoice, collection>>
      BY <1>f, <2>1, <2>2 DEF SavedAndFinished
  <2>4. pc[w] \in NeedsRow /\ pc[w] \notin Saving /\ pc'[w] \notin Saving
      BY <2>3 DEF NeedsRow, Saving
  <2>5. t \in Nat BY <2>3 DEF LInv, WorkersOK, ProgressOK
  <2>6. d \in Int \cup {None} BY <2>5, DueDatesType DEF CountedInvoices, LInv
  <2>7. row \in Row BY <1>r, <2>2, <2>4, <2>5, <2>6 DEF Row
  <2>8. /\ row.totalSales = ar[c].totalSales /\ row.balance = ar[c].balance
        /\ row.totalCollected = ar[c].totalCollected
      BY <1>r, <2>2, <2>4, RowFields
  <2> QED BY <1>r, <1>s, <2>3, <2>4, <2>7, <2>8
<1>9. CASE UpdateReceivableNotesSave(w)
  <2>1. /\ pc[w] = "updateReceivableNotes.save" /\ pc'[w] = "idle"
        /\ Saved(arg[w].cust, HeldRow(w)) /\ UNCHANGED <<invoice, collection>>
      BY <1>9, <1>f, AloneSaves DEF UpdateReceivableNotesSave, SavedAndFinished
  <2> QED BY <1>r, <1>s, <2>1 DEF NeedsRow, Saving
<1>10. ASSUME NEW c \in Customers, UpdateWarningStatusesStep(w, c) PROVE ViewsKept
  <2> DEFINE level == WarningFor(arg[w].day - held[w][c].due)
  <2>1. PICK row : row = [held[w][c] EXCEPT !.warning = level] OBVIOUS
  <2>2. /\ pc[w] = "updateWarningStatuses.loop" /\ pc' = pc /\ held[w][c] # None
        /\ UNCHANGED ar \/ Saved(c, row)
        /\ UNCHANGED <<invoice, collection>>
      BY <1>10, <2>1, AloneSaves DEF UpdateWarningStatusesStep
  <2>3. pc[w] \notin Saving /\ pc'[w] \notin Saving BY <2>2 DEF Saving
  <2>4. held[w][c] \in Row /\ held[w][c] = ar[c]
      BY <1>a, <2>2 DEF LInv, WorkersOK, ProgressOK, AloneOK, HeldIsCurrent
  <2> HIDE DEF level
  <2>5. /\ row \in Row /\ row.totalSales = ar[c].totalSales /\ row.balance = ar[c].balance
        /\ row.totalCollected = ar[c].totalCollected
      BY <2>1, <2>4, WarningForType, WarnedGood, RowFields DEF level
  <2> QED BY <1>s, <1>u, <2>2, <2>3, <2>4, <2>5
<1>11. CASE LookInvoice(w) \/ \E c \in Customers : Look(w, c)
    BY <1>11 DEF LookInvoice, Look, OtherAt, OneAtATime
<1> QED
    BY <1>1, <1>2, <1>3, <1>4, <1>5, <1>6, <1>7, <1>8, <1>9, <1>10, <1>11
    DEF Proceed, Posting

-----------------------------------------------------------------------------
(* The steps that post a bill.                                               *)

LEMMA BillPosts ==
    ASSUME LInv, OneAtATime, NEW w \in Workers, pc[w] \notin Saving, pc'[w] \notin Saving,
           collection' = collection, NEW c \in Customers, NEW i \in InvoiceIds,
           NEW row \in Row, Saved(c, row), \A j \in InvoiceIds \ {i} : SameBill(j),
           Book!OwnedBy(BillView[i], c), Book!OwnedBy(BillView'[i], c),
           row.totalSales =
               SalesOf(c) + (Book!AmountOf(BillView'[i]) - Book!AmountOf(BillView[i])),
           row.totalCollected = CollectedOf(c),
           row.balance = row.totalSales - row.totalCollected
    PROVE  Book!PostBill(i, c, BillView'[i])
<1>1. BillView' = [BillView EXCEPT ![i] = BillView'[i]] BY DEF BillView, SameBill
<1>2. PaidView' = PaidView BY PaidKept
<1>3. AccountView' = [AccountView EXCEPT ![c] = RowView(row)] BY AccountSaved
<1>4. Book!Opened(c).sales = SalesOf(c) /\ Book!Opened(c).collected = CollectedOf(c)
    BY AccountTypes
<1> QED BY <1>1, <1>2, <1>3, <1>4 DEF Book!PostBill, RowView

LEMMA BilledRow ==
    ASSUME LInv, NEW c \in Customers, NEW a \in Int, NEW row,
           row = IF ar[c] = None THEN FirstSaleRow(a) ELSE Resold(ar[c], ar[c].totalSales + a)
    PROVE  /\ row \in Row /\ row.totalSales = SalesOf(c) + a
           /\ row.totalCollected = CollectedOf(c)
           /\ row.balance = row.totalSales - row.totalCollected
<1>1. CASE ar[c] = None
  <2>1. row = FirstSaleRow(a) BY <1>1
  <2>2. row.totalSales = a /\ row.totalCollected = 0 /\ row.balance = a BY <2>1, FirstRowFields
  <2>3. row \in Row BY <2>1, FirstSaleRowGood
  <2> QED BY <1>1, <2>2, <2>3 DEF SalesOf, CollectedOf
<1>2. CASE ar[c] # None
  <2>1. ar[c] \in Row /\ row = Resold(ar[c], ar[c].totalSales + a) BY <1>2 DEF LInv, DbOK
  <2>2. row \in Row
    <3>1. ar[c].totalSales + a \in Int BY <2>1 DEF Row
    <3> QED BY <2>1, <3>1, ResoldGood
  <2>3. PICK sales : sales = ar[c].totalSales + a OBVIOUS
  <2>4. row = Resold(ar[c], sales) BY <2>1, <2>3
  <2>5. /\ row.totalSales = sales /\ row.totalCollected = ar[c].totalCollected
        /\ row.balance = sales - ar[c].totalCollected
      BY <2>1, <2>4, ResoldFields
  <2>6. SalesOf(c) = ar[c].totalSales /\ CollectedOf(c) = ar[c].totalCollected
      BY <1>2 DEF SalesOf, CollectedOf
  <2> QED BY <2>2, <2>3, <2>5, <2>6
<1> QED BY <1>1, <1>2

\* The sales total of a customer is the sum of its bills.
SalesInv == \A c \in Customers : SalesOf(c) = Posted(BillView, InvoiceIds, c)

LEMMA CreatePosts ==
    ASSUME LInv, AloneInv, OneAtATime, NEW w \in Workers, CreateInvoiceCommit(w)
    PROVE  \E i \in InvoiceIds, c \in Customers : Book!PostBill(i, c, BillView'[i])
<1> DEFINE c    == arg[w].cust
           i    == arg[w].inv
           a    == arg[w].amt
           base == IF HeldRow(w) = None THEN FirstSaleRow(a)
                   ELSE Resold(HeldRow(w), HeldRow(w).totalSales + a)
           new  == [state |-> "live", cust |-> c, receivable |-> c,
                    amt |-> a, issued |-> arg[w].day]
           dues == DueDates({j \in InvoiceIds : invoice[j].state # "unused" /\ invoice[j].cust = c},
                            base.terms) \cup {arg[w].day + base.terms}
<1>1. /\ \E d \in dues : Saved(c, [base EXCEPT !.due = d])
      /\ invoice' = [invoice EXCEPT ![i] = new]
      /\ pc[w] = "createInvoice.commit" /\ pc' = [pc EXCEPT ![w] = "idle"]
      /\ collection' = collection
    BY AloneSaves DEF CreateInvoiceCommit, Finish
<1>2. c \in Customers /\ a \in Int /\ arg[w].day \in Int
    BY <1>1, HeldRowGood DEF NeedsCustomer, Arg
<1>3. i \in InvoiceIds /\ invoice[i].state = "unused" /\ HeldRow(w) = ar[c]
    BY <1>1 DEF AloneInv, CurrentInv, AloneOK, InvoiceIsCurrent, HeldIsCurrent, Holding, HeldRow
<1>4. pc[w] \notin Saving /\ pc'[w] \notin Saving BY <1>1 DEF Saving, LInv, WorkersOK
<1>5. PICK b : b = base OBVIOUS
<1>6. /\ b \in Row /\ b.totalSales = SalesOf(c) + a /\ b.totalCollected = CollectedOf(c)
      /\ b.balance = b.totalSales - b.totalCollected
    BY <1>2, <1>3, <1>5, BilledRow
<1>7. b.terms \in Nat BY <1>6 DEF Row
<1>8. dues \subseteq Int
  <2>1. DueDates({j \in InvoiceIds : invoice[j].state # "unused" /\ invoice[j].cust = c},
                 b.terms) \subseteq Int
      BY <1>7, DueDatesType DEF LInv
  <2>2. arg[w].day + b.terms \in Int BY <1>2, <1>7
  <2> HIDE DEF base
  <2> QED BY <1>5, <2>1, <2>2
<1> HIDE DEF base, dues
<1>9. PICK d \in dues : Saved(c, [b EXCEPT !.due = d]) BY <1>1, <1>5
<1>10. PICK row : row = [b EXCEPT !.due = d] OBVIOUS
<1>11. row \in Row
  <2>1. d \in Int BY <1>8, <1>9
  <2> QED BY <1>6, <1>10, <2>1 DEF Row
<1>12. /\ row.totalSales = SalesOf(c) + a /\ row.totalCollected = CollectedOf(c)
       /\ row.balance = row.totalSales - row.totalCollected
    BY <1>6, <1>10, RowFields
<1>13. /\ invoice'[i] = new /\ \A j \in InvoiceIds \ {i} : invoice'[j] = invoice[j]
    BY <1>1, <1>3 DEF LInv, DbOK
<1>14. \A j \in InvoiceIds \ {i} : SameBill(j) BY <1>13 DEF SameBill
<1>15. BillView[i] = None /\ BillView'[i] = [cust |-> c, amt |-> a]
    BY <1>3, <1>13 DEF BillView
<1>16. [cust |-> c, amt |-> a] # None
  <2>1. [cust |-> c, amt |-> a] \in [cust: Customers, amt: Int] BY <1>2
  <2> QED BY <2>1, LedgerAssumption
<1>17. /\ Book!OwnedBy(BillView[i], c) /\ Book!OwnedBy(BillView'[i], c)
       /\ Book!AmountOf(BillView[i]) = 0 /\ Book!AmountOf(BillView'[i]) = a
    BY <1>15, <1>16 DEF Book!OwnedBy, Book!AmountOf
<1>18. row.totalSales = SalesOf(c) + (Book!AmountOf(BillView'[i]) - Book!AmountOf(BillView[i]))
  <2>1. a - 0 = a BY <1>2
  <2> QED BY <1>12, <1>17, <2>1
<1>19. Saved(c, row) /\ collection' = collection BY <1>1, <1>9, <1>10
<1>20. Book!PostBill(i, c, BillView'[i])
    BY <1>2, <1>3, <1>4, <1>11, <1>12, <1>14, <1>17, <1>18, <1>19, BillPosts
<1> QED BY <1>2, <1>3, <1>20

LEMMA UpdatePosts ==
    ASSUME LInv, AloneInv, OneAtATime, ~MayChangeCustomer,
           NEW w \in Workers, UpdateInvoiceCommit(w)
    PROVE  \E i \in InvoiceIds, c \in Customers : Book!PostBill(i, c, BillView'[i])
<1> DEFINE c    == arg[w].cust
           i    == arg[w].inv
           a    == arg[w].amt
           diff == arg[w].amt - arg[w].old
<1>1. /\ pc[w] = "updateInvoice.commit" /\ pc' = [pc EXCEPT ![w] = "idle"]
      /\ collection' = collection
      /\ invoice' = [invoice EXCEPT ![i].cust = c, ![i].amt = a] /\ invoice[i].state = "live"
      /\ HeldRow(w) # None => Saved(c, Resold(HeldRow(w), HeldRow(w).totalSales + diff))
    BY AloneSaves DEF UpdateInvoiceCommit, InDetail, Finish
<1>2. c \in Customers /\ i \in InvoiceIds /\ a \in Int /\ arg[w].old \in Int
    BY <1>1, HeldRowGood DEF NeedsCustomer, NeedsInvoiceId, Arg, LInv, WorkersOK, ProgressOK
<1>3. /\ HeldRow(w) = ar[c] /\ invoice[i].cust = c /\ invoice[i].amt = arg[w].old
    BY <1>1
    DEF AloneInv, CurrentInv, AloneOK, InvoiceIsCurrent, HeldIsCurrent, Holding, HeldRow, Editing
<1>4. invoice[i].receivable = c /\ ar[c] # None BY <1>1, <1>2, <1>3 DEF AloneInv, CurrentInv, InvoicesOwned
<1>5. pc[w] \notin Saving /\ pc'[w] \notin Saving BY <1>1 DEF Saving, LInv, WorkersOK
<1>6. diff \in Int BY <1>2
<1>7. PICK row : row = Resold(HeldRow(w), HeldRow(w).totalSales + diff) OBVIOUS
<1>8. /\ row \in Row /\ row.totalSales = SalesOf(c) + diff /\ row.totalCollected = CollectedOf(c)
      /\ row.balance = row.totalSales - row.totalCollected
    BY <1>2, <1>3, <1>4, <1>6, <1>7, BilledRow
<1>9. /\ invoice'[i].state = "live" /\ invoice'[i].receivable = c /\ invoice'[i].amt = a
      /\ \A j \in InvoiceIds \ {i} : invoice'[j] = invoice[j]
    BY <1>1, <1>2, <1>4 DEF LInv, DbOK, Invoice
<1>10. \A j \in InvoiceIds \ {i} : SameBill(j) BY <1>9 DEF SameBill
<1>11. BillView[i] = [cust |-> c, amt |-> arg[w].old] /\ BillView'[i] = [cust |-> c, amt |-> a]
    BY <1>1, <1>2, <1>3, <1>4, <1>9 DEF BillView
<1>12. [cust |-> c, amt |-> a] # None /\ [cust |-> c, amt |-> arg[w].old] # None
  <2>1. /\ [cust |-> c, amt |-> a] \in [cust: Customers, amt: Int]
        /\ [cust |-> c, amt |-> arg[w].old] \in [cust: Customers, amt: Int]
      BY <1>2
  <2> QED BY <2>1, LedgerAssumption
<1>13. /\ Book!OwnedBy(BillView[i], c) /\ Book!OwnedBy(BillView'[i], c)
       /\ Book!AmountOf(BillView[i]) = arg[w].old /\ Book!AmountOf(BillView'[i]) = a
    BY <1>11, <1>12 DEF Book!OwnedBy, Book!AmountOf
<1>14. row.totalSales = SalesOf(c) + (Book!AmountOf(BillView'[i]) - Book!AmountOf(BillView[i]))
    BY <1>8, <1>13
<1>15. Saved(c, row) /\ collection' = collection BY <1>1, <1>3, <1>4, <1>7
<1>16. Book!PostBill(i, c, BillView'[i])
    BY <1>2, <1>5, <1>8, <1>10, <1>13, <1>14, <1>15, BillPosts
<1> QED BY <1>2, <1>16

LEMMA DeletePosts ==
    ASSUME LInv, AloneInv, OneAtATime, SalesInv, InvoiceAmounts \subseteq Nat,
           IsFiniteSet(InvoiceIds), NEW w \in Workers, DeleteInvoiceCommit(w)
    PROVE  \E i \in InvoiceIds, c \in Customers : Book!PostBill(i, c, BillView'[i])
<1> DEFINE c    == arg[w].cust
           i    == arg[w].inv
           a    == arg[w].amt
           rest == HeldRow(w).totalSales - a
<1>1. /\ pc[w] = "deleteInvoice.commit" /\ pc' = [pc EXCEPT ![w] = "idle"]
      /\ collection' = collection
      /\ invoice' = [invoice EXCEPT ![i].state = "deleted"]
      /\ HeldRow(w) # None => Saved(c, Resold(HeldRow(w), IF rest < 0 THEN 0 ELSE rest))
    BY AloneSaves DEF DeleteInvoiceCommit, Finish
<1>2. c \in Customers /\ i \in InvoiceIds /\ a \in Int
    BY <1>1, HeldRowGood DEF NeedsCustomer, NeedsInvoiceId, Arg, LInv, WorkersOK, ProgressOK
<1>3. /\ HeldRow(w) = ar[c] /\ invoice[i].state = "live" /\ invoice[i].receivable = c
      /\ invoice[i].amt = a
    BY <1>1
    DEF AloneInv, CurrentInv, AloneOK, InvoiceIsCurrent, HeldIsCurrent, Holding, HeldRow, Deleting
<1>4. ar[c] # None /\ ar[c] \in Row BY <1>2, <1>3 DEF AloneInv, CurrentInv, InvoicesOwned, LInv, DbOK
<1>5. pc[w] \notin Saving /\ pc'[w] \notin Saving BY <1>1 DEF Saving, LInv, WorkersOK
<1>6. rest >= 0 /\ SalesOf(c) \in Int /\ HeldRow(w).totalSales = SalesOf(c)
  <2> DEFINE s == Share(BillView, InvoiceIds, c)
  <2>1. /\ \A j \in InvoiceIds : s[j] \in Nat
        /\ s[i] = a
    <3>1. \A j \in InvoiceIds : BillView[j] # None =>
              BillView[j].amt = invoice[j].amt /\ invoice[j].state # "unused"
        BY BillTypes
    <3>2. \A j \in InvoiceIds : invoice[j].state # "unused" => invoice[j].amt \in Nat
        BY DEF AloneInv, CurrentInv, InvoicesOwned
    <3>3. BillView[i] # None /\ BillView[i].amt = a /\ BillView[i].cust = c
        BY <1>2, <1>3, BillTypes
    <3> QED BY <1>2, <3>1, <3>2, <3>3 DEF Share
  <2> HIDE DEF s
  <2>2. SumOver(s, InvoiceIds) >= s[i] BY <1>2, <2>1, SumAtLeast
  <2>3. SalesOf(c) = SumOver(s, InvoiceIds) BY <1>2 DEF SalesInv, Posted, s
  <2>4. SalesOf(c) = ar[c].totalSales /\ ar[c].totalSales \in Int BY <1>4 DEF SalesOf, Row
  <2> QED BY <1>2, <1>3, <2>1, <2>2, <2>3, <2>4
<1>7. PICK row : row = Resold(HeldRow(w), HeldRow(w).totalSales + (0 - a)) OBVIOUS
<1>8. /\ row \in Row /\ row.totalSales = SalesOf(c) + (0 - a)
      /\ row.totalCollected = CollectedOf(c)
      /\ row.balance = row.totalSales - row.totalCollected
  <2>1. 0 - a \in Int BY <1>2
  <2> QED BY <1>2, <1>3, <1>4, <1>7, <2>1, BilledRow
<1>9. Saved(c, row)
  <2>1. (IF rest < 0 THEN 0 ELSE rest) = HeldRow(w).totalSales + (0 - a) BY <1>2, <1>6
  <2> QED BY <1>1, <1>3, <1>4, <1>7, <2>1
<1>10. /\ invoice'[i].state = "deleted" /\ \A j \in InvoiceIds \ {i} : invoice'[j] = invoice[j]
    BY <1>1, <1>2 DEF LInv, DbOK, Invoice
<1>11. \A j \in InvoiceIds \ {i} : SameBill(j) BY <1>10 DEF SameBill
<1>12. BillView[i] = [cust |-> c, amt |-> a] /\ BillView'[i] = None
    BY <1>2, <1>3, <1>10 DEF BillView
<1>13. [cust |-> c, amt |-> a] # None
  <2>1. [cust |-> c, amt |-> a] \in [cust: Customers, amt: Int] BY <1>2
  <2> QED BY <2>1, LedgerAssumption
<1>14. /\ Book!OwnedBy(BillView[i], c) /\ Book!OwnedBy(BillView'[i], c)
       /\ Book!AmountOf(BillView[i]) = a /\ Book!AmountOf(BillView'[i]) = 0
    BY <1>12, <1>13 DEF Book!OwnedBy, Book!AmountOf
<1>15. row.totalSales = SalesOf(c) + (Book!AmountOf(BillView'[i]) - Book!AmountOf(BillView[i]))
    BY <1>8, <1>14
<1>16. Book!PostBill(i, c, BillView'[i])
    BY <1>1, <1>2, <1>5, <1>8, <1>9, <1>11, <1>14, <1>15, BillPosts
<1> QED BY <1>2, <1>16

OpenedOK ==
    \A c \in Customers :
        /\ SalesOf(c) \in Int /\ CollectedOf(c) \in Int /\ BalanceOf(c) \in Int
        /\ Book!Opened(c) = [sales |-> SalesOf(c), collected |-> CollectedOf(c),
                             balance |-> BalanceOf(c)]

LEMMA OpenedIs == LInv => OpenedOK
BY AccountTypes DEF OpenedOK

LEMMA OpenedNext == LInv' => OpenedOK'
BY OpenedIs, PTL

LEMMA ViewsKeepTotals ==
    ASSUME LInv, LInv', AccountView' = AccountView, NEW c \in Customers
    PROVE  SalesOf(c)' = SalesOf(c) /\ CollectedOf(c)' = CollectedOf(c) /\ BalanceOf(c)' = BalanceOf(c)
<1>1. Book!Opened(c)' = Book!Opened(c) BY DEF Book!Opened
<1> QED BY <1>1, OpenedIs, OpenedNext DEF OpenedOK

BillsTyped == BillView \in [InvoiceIds -> Entries]

LEMMA BillsAreTyped == LInv => BillsTyped
BY BillTypes DEF BillsTyped

LEMMA BillsAreTypedNext == LInv' => BillsTyped'
BY BillsAreTyped, PTL

LEMMA OpenedAfter ==
    ASSUME NEW c \in Customers, NEW s \in Int, NEW p \in Int, NEW b \in Int,
           AccountView'[c] = [sales |-> s, collected |-> p, balance |-> b]
    PROVE  Book!Opened(c)' = [sales |-> s, collected |-> p, balance |-> b]
<1>1. AccountView'[c] # None
  <2>1. AccountView'[c] \in Book!Account BY DEF Book!Account
  <2> QED BY <2>1, LedgerAssumption DEF Book!Account
<1> QED BY <1>1 DEF Book!Opened

LEMMA PostBillKeepsSales ==
    ASSUME LInv, LInv', SalesInv, IsFiniteSet(InvoiceIds), NEW i \in InvoiceIds,
           NEW c \in Customers, Book!PostBill(i, c, BillView'[i])
    PROVE  SalesInv'
<1>1. PICK entry : entry = BillView'[i] OBVIOUS
<1>2. BillView \in [InvoiceIds -> Entries] /\ BillView' \in [InvoiceIds -> Entries]
    BY BillsAreTyped, BillsAreTypedNext DEF BillsTyped
<1>3. /\ Book!OwnedBy(BillView[i], c) /\ Book!OwnedBy(entry, c) /\ entry \in Entries
      /\ BillView' = [BillView EXCEPT ![i] = entry]
    BY <1>1, <1>2 DEF Book!PostBill
<1>4. /\ Posted(BillView', InvoiceIds, c) =
           Posted(BillView, InvoiceIds, c) + (Book!AmountOf(entry) - Book!AmountOf(BillView[i]))
      /\ \A d \in Customers \ {c} :
           Posted(BillView', InvoiceIds, d) = Posted(BillView, InvoiceIds, d)
  <2>1. PICK view, new : view = BillView /\ new = BillView' OBVIOUS
  <2>2. /\ view \in [InvoiceIds -> Entries] /\ new \in [InvoiceIds -> Entries]
        /\ Book!OwnedBy(view[i], c) /\ Book!OwnedBy(new[i], c) /\ new[i] = entry
        /\ \A j \in InvoiceIds \ {i} : new[j] = view[j]
      BY <1>1, <1>2, <1>3, <2>1
  <2>3. /\ Posted(new, InvoiceIds, c) =
             Posted(view, InvoiceIds, c) + (Book!AmountOf(new[i]) - Book!AmountOf(view[i]))
        /\ \A d \in Customers \ {c} : Posted(new, InvoiceIds, d) = Posted(view, InvoiceIds, d)
      BY <2>2, PostingChanges
  <2> QED BY <2>1, <2>2, <2>3
<1>5. /\ Book!Opened(c)'.sales =
            Book!Opened(c).sales + (Book!AmountOf(entry) - Book!AmountOf(BillView[i]))
      /\ \A d \in Customers \ {c} : Book!Opened(d)' = Book!Opened(d)
  <2> DEFINE diff == Book!AmountOf(entry) - Book!AmountOf(BillView[i])
  <2>1. PICK s : s = Book!Opened(c).sales + diff OBVIOUS
  <2>2. PICK collected : collected = Book!Opened(c).collected OBVIOUS
  <2>3. s \in Int /\ collected \in Int
    <3>1. diff \in Int BY <1>2, <1>3 DEF Entries, Book!AmountOf, Book!Entry
    <3> HIDE DEF diff
    <3> QED BY <2>1, <2>2, <3>1, OpenedIs DEF OpenedOK
  <2>4. PICK b : b = s - collected OBVIOUS
  <2>5. AccountView' = [AccountView EXCEPT ![c] = [sales |-> s, collected |-> collected,
                                                  balance |-> b]]
      BY <1>1, <2>1, <2>2, <2>4 DEF Book!PostBill
  <2>6. /\ AccountView'[c] = [sales |-> s, collected |-> collected, balance |-> b]
        /\ \A d \in Customers \ {c} : AccountView'[d] = AccountView[d]
      BY <2>5, AccountTypes
  <2>7. Book!Opened(c)' = [sales |-> s, collected |-> collected, balance |-> b]
      BY <2>3, <2>4, <2>6, OpenedAfter
  <2> QED BY <2>1, <2>6, <2>7 DEF Book!Opened
<1> QED BY <1>4, <1>5, OpenedIs, OpenedNext DEF OpenedOK, SalesInv

-----------------------------------------------------------------------------
(* The steps that save a payment.                                            *)

PaymentSave(w) ==
    \/ CollectSave(w) \/ CollectByCustomerCommit(w) \/ UpdateCollectionSave(w)
    \/ DeleteCollectionSave(w)

\* What the request of w adds to the collected total.
Diff(w) ==
    IF pc[w] = "deleteCollection.save" THEN 0 - arg[w].amt
    ELSE IF pc[w] = "updateCollection.save" THEN arg[w].amt - arg[w].old
    ELSE arg[w].amt

LEMMA PaymentSaved ==
    ASSUME LInv, AloneInv, OneAtATime, NEW w \in Workers, PaymentSave(w)
    PROVE  LET c == arg[w].cust IN
           /\ c \in Customers /\ Diff(w) \in Int /\ UNCHANGED invoice
           /\ \E row \in Row :
                /\ Saved(c, row) /\ row.totalSales = SalesOf(c)
                /\ \/ pc[w] = "deleteCollection.save" /\ CollectedOf(c) < arg[w].amt
                   \/ row.totalCollected = CollectedOf(c) + Diff(w)
                /\ BalanceOf(c) = SalesOf(c) - CollectedOf(c) =>
                     row.balance = SalesOf(c) - (CollectedOf(c) + Diff(w))
<1> DEFINE c == arg[w].cust
           a == arg[w].amt
           Good(row) ==
             /\ row \in Row /\ Saved(c, row) /\ row.totalSales = SalesOf(c)
             /\ \/ pc[w] = "deleteCollection.save" /\ CollectedOf(c) < arg[w].amt
                \/ row.totalCollected = CollectedOf(c) + Diff(w)
             /\ BalanceOf(c) = SalesOf(c) - CollectedOf(c) =>
                  row.balance = SalesOf(c) - (CollectedOf(c) + Diff(w))
<1>1. /\ pc[w] \in {"collect.save", "collectByCustomer.commit", "updateCollection.save",
                    "deleteCollection.save"}
      /\ UNCHANGED invoice
    BY DEF PaymentSave, CollectSave, CollectByCustomerCommit, UpdateCollectionSave,
           DeleteCollectionSave, SaveAndFinish
<1>2. c \in Customers /\ arg[w] \in Arg /\ a \in Int /\ arg[w].old \in Int
  <2>1. c \in Customers /\ arg[w] \in Arg BY <1>1, HeldRowGood DEF NeedsCustomer, NeedsRow
  <2> QED BY <2>1 DEF Arg
<1>3. Diff(w) \in Int BY <1>2 DEF Diff
<1>4. HeldRow(w) = ar[c]
    BY <1>1 DEF AloneInv, CurrentInv, AloneOK, HeldIsCurrent, Holding, NeedsRow, HeldRow
<1>5. /\ SalesOf(c) \in Int /\ CollectedOf(c) \in Int /\ BalanceOf(c) \in Int
    BY <1>2, AccountTypes
<1>6. ASSUME pc[w] \in NeedsRow
      PROVE  /\ ar[c] # None /\ ar[c] \in Row /\ SalesOf(c) = ar[c].totalSales
             /\ CollectedOf(c) = ar[c].totalCollected /\ BalanceOf(c) = ar[c].balance
  <2>1. HeldRow(w) # None /\ HeldRow(w) \in Row
      BY <1>1, <1>6, HeldRowGood DEF NeedsCustomer
  <2> QED BY <1>4, <2>1 DEF SalesOf, CollectedOf, BalanceOf
<1>7. CASE CollectSave(w)
  <2>1. PICK row : row = Collected(ar[c], a) OBVIOUS
  <2>2. pc[w] = "collect.save" /\ Saved(c, row)
      BY <1>4, <1>7, <2>1, AloneSaves DEF CollectSave, SavedAndFinished
  <2>3. ar[c] \in Row BY <1>6, <2>2 DEF NeedsRow
  <2>4. row \in Row BY <1>2, <2>1, <2>3, CollectedGood
  <2>5. /\ row.totalSales = ar[c].totalSales /\ row.totalCollected = ar[c].totalCollected + a
        /\ row.balance = ar[c].balance - a
      BY <2>1, <2>3, CollectedFields
  <2>6. Diff(w) = a BY <2>2 DEF Diff
  <2>7. Good(row) BY <1>2, <1>5, <1>6, <2>2, <2>4, <2>5, <2>6 DEF NeedsRow
  <2> QED BY <1>1, <1>2, <1>3, <2>7
<1>8. CASE CollectByCustomerCommit(w)
  <2>1. PICK base : base = IF ar[c] = None THEN EmptyRow ELSE ar[c] OBVIOUS
  <2>2. PICK row : row = CollectedByCustomer(base, a) OBVIOUS
  <2>3. pc[w] = "collectByCustomer.commit" /\ Saved(c, row)
      BY <1>4, <1>8, <2>1, <2>2, AloneSaves DEF CollectByCustomerCommit
  <2>4. base \in Row BY <1>2, <2>1, EmptyRowGood DEF LInv, DbOK
  <2>5. base.totalSales = SalesOf(c) /\ base.totalCollected = CollectedOf(c)
      BY <2>1, FirstRowFields DEF SalesOf, CollectedOf
  <2>6. row \in Row BY <1>2, <2>2, <2>4, CollectedByCustomerGood
  <2>7. /\ row.totalSales = base.totalSales /\ row.totalCollected = base.totalCollected + a
        /\ row.balance = base.totalSales - (base.totalCollected + a)
      BY <2>2, <2>4, CollectedByCustomerFields
  <2>8. Diff(w) = a BY <2>3 DEF Diff
  <2>9. Good(row) BY <1>2, <1>5, <2>3, <2>5, <2>6, <2>7, <2>8
  <2> QED BY <1>1, <1>2, <1>3, <2>9
<1>9. CASE UpdateCollectionSave(w)
  <2>1. PICK diff : diff = a - arg[w].old OBVIOUS
  <2>2. PICK row : row = Corrected(ar[c], diff) OBVIOUS
  <2>3. pc[w] = "updateCollection.save" /\ Saved(c, row)
      BY <1>4, <1>9, <2>1, <2>2, AloneSaves DEF UpdateCollectionSave, SavedAndFinished
  <2>4. ar[c] \in Row BY <1>6, <2>3 DEF NeedsRow
  <2>5. diff \in Int /\ Diff(w) = diff BY <1>2, <2>1, <2>3 DEF Diff
  <2>6. row \in Row BY <2>2, <2>4, <2>5, CorrectedGood
  <2>7. /\ row.totalSales = ar[c].totalSales /\ row.totalCollected = ar[c].totalCollected + diff
        /\ row.balance = ar[c].balance - diff
      BY <2>2, <2>4, CorrectedFields
  <2>8. Good(row) BY <1>5, <1>6, <2>3, <2>5, <2>6, <2>7 DEF NeedsRow
  <2> QED BY <1>1, <1>2, <1>3, <2>8
<1>10. CASE DeleteCollectionSave(w)
  <2>1. PICK row : row = Uncollected(ar[c], a) OBVIOUS
  <2>2. pc[w] = "deleteCollection.save" /\ Saved(c, row)
      BY <1>4, <1>10, <2>1, AloneSaves DEF DeleteCollectionSave, SavedAndFinished
  <2>3. ar[c] \in Row BY <1>6, <2>2 DEF NeedsRow
  <2>4. row \in Row BY <1>2, <2>1, <2>3, UncollectedGood
  <2>5. /\ row.totalSales = ar[c].totalSales
        /\ ar[c].totalCollected >= a => row.totalCollected = ar[c].totalCollected - a
        /\ row.balance = ar[c].balance + a
      BY <1>2, <2>1, <2>3, UncollectedFields
  <2>6. Diff(w) = 0 - a BY <2>2 DEF Diff
  <2>7. Good(row) BY <1>2, <1>5, <1>6, <2>2, <2>4, <2>5, <2>6 DEF NeedsRow
  <2> QED BY <1>1, <1>2, <1>3, <2>7
<1> QED BY <1>7, <1>8, <1>9, <1>10 DEF PaymentSave

-----------------------------------------------------------------------------
(* The sales total, however requests die.                                    *)

LEMMA SalesKept ==
    ASSUME LInv, SalesInv, NEW c \in Customers, NEW row \in Row, Saved(c, row),
           row.totalSales = SalesOf(c), UNCHANGED invoice
    PROVE  SalesInv'
<1>1. \A d \in Customers : SalesOf(d)' = SalesOf(d)
    BY LedgerAssumption DEF SalesOf, Saved, LInv, DbOK
<1>2. BillView' = BillView BY DEF BillView
<1> QED BY <1>1, <1>2 DEF SalesInv

LEMMA SalesInductive ==
    ASSUME OneAtATime, ~MayChangeCustomer, InvoiceAmounts \subseteq Nat, IsFiniteSet(InvoiceIds)
    PROVE  IInv /\ AloneInv /\ SalesInv /\ [Next]_vars => SalesInv'
<1> SUFFICES ASSUME IInv, AloneInv, SalesInv, [Next]_vars PROVE SalesInv' OBVIOUS
<1>a. LInv /\ LInv' BY NextKeeps DEF IInv
<1>v. ASSUME BillView' = BillView, AccountView' = AccountView PROVE SalesInv'
    BY <1>a, <1>v, ViewsKeepTotals DEF SalesInv
<1>d. ASSUME UNCHANGED <<ar, invoice>> PROVE SalesInv'
    BY <1>d, <1>v DEF BillView, AccountView
<1>1. ASSUME NEW w \in Workers, Proceed(w) PROVE SalesInv'
  <2>1. CASE PaymentSave(w)
    <3>1. PICK c \in Customers, row \in Row :
            Saved(c, row) /\ row.totalSales = SalesOf(c) /\ UNCHANGED invoice
        BY <1>a, <2>1, PaymentSaved
    <3> QED BY <1>a, <3>1, SalesKept
  <2>2. CASE CreateInvoiceCommit(w) \/ UpdateInvoiceCommit(w) \/ DeleteInvoiceCommit(w)
    <3>1. PICK i \in InvoiceIds, c \in Customers : Book!PostBill(i, c, BillView'[i])
        BY <1>a, <2>2, CreatePosts, UpdatePosts, DeletePosts
    <3> QED BY <1>a, <3>1, PostBillKeepsSales
  <2>3. CASE ~Posting(w) BY <1>1, <1>a, <1>v, <2>3, QuietProceed DEF ViewsKept
  <2> QED BY <2>1, <2>2, <2>3 DEF Posting, PaymentSave
<1>2. ASSUME NEW w \in Workers, Request(w) PROVE UNCHANGED <<ar, invoice>>
    BY <1>2 DEF Request, db, CollectRead, CollectByCustomerRead, UpdateCollectionRead,
       DeleteCollectionRead, CreateInvoiceRead, UpdateInvoiceRead, DeleteInvoiceRead,
       InvoiceFlagRead, UpdateIssuedAtRead, UpdateReceivableNotesRead, UpdatePaymentTermsRead,
       UpdateWarningStatusesRead
<1> QED BY <1>1, <1>2, <1>d DEF Next, Fail, db, CancelSale, NextDay, vars

LEMMA NothingPosted ==
    ASSUME NEW ids, IsFiniteSet(ids), NEW view, \A x \in ids : view[x] = None, NEW c
    PROVE  Posted(view, ids, c) = 0
<1>1. PICK f : f = Share(view, ids, c) OBVIOUS
<1>2. \A x \in ids : f[x] = 0 BY <1>1 DEF Share
<1>3. SumOver(f, ids) = SumOver(f, {}) BY <1>2, SumZero
<1> QED BY <1>1, <1>3, SumEmpty DEF Posted

LEMMA SalesInit == ASSUME IsFiniteSet(InvoiceIds) PROVE Init => SalesInv
<1> SUFFICES ASSUME Init, NEW c \in Customers
             PROVE  SalesOf(c) = Posted(BillView, InvoiceIds, c)
    BY DEF SalesInv
<1>1. SalesOf(c) = 0 /\ \A i \in InvoiceIds : BillView[i] = None BY DEF Init, SalesOf, BillView
<1> QED BY <1>1, NothingPosted

LEMMA SalesAreTotals ==
    ASSUME LInv, SalesInv, IsFiniteSet(InvoiceIds)
    PROVE  \A c \in Customers :
             Total(invoice, InvoicesOf(c)) = IF ar[c] = None THEN 0 ELSE ar[c].totalSales
<1> SUFFICES ASSUME NEW c \in Customers
             PROVE  Total(invoice, InvoicesOf(c)) = IF ar[c] = None THEN 0 ELSE ar[c].totalSales
    OBVIOUS
<1>1. PICK own : own = InvoicesOf(c) OBVIOUS
<1>2. own = {i \in InvoiceIds : invoice[i].state = "live" /\ invoice[i].receivable = c}
    BY <1>1 DEF InvoicesOf, LiveOf, LInv, DbOK
<1>3. PICK view : view = BillView OBVIOUS
<1>4. /\ view \in [InvoiceIds -> Entries] /\ own \in SUBSET InvoiceIds
      /\ \A i \in own : view[i] # None /\ view[i].cust = c /\ invoice[i].amt = view[i].amt
      /\ \A i \in InvoiceIds \ own : view[i] = None \/ view[i].cust # c
    BY <1>2, <1>3, BillTypes
<1>5. PICK f : f = invoice OBVIOUS
<1>6. \A i \in own : view[i] # None /\ view[i].cust = c /\ f[i].amt = view[i].amt BY <1>4, <1>5
<1>7. Total(f, own) = Posted(view, InvoiceIds, c) BY <1>4, <1>6, TotalIsPosted
<1> QED BY <1>1, <1>3, <1>5, <1>7 DEF SalesInv, SalesOf

\* With requests one at a time, however they die, the sales total of a customer is
\* the sum of its live invoices, as long as no edit gives an invoice to another
\* customer.
THEOREM SalesAreConserved ==
    ASSUME OneAtATime, ~MayChangeCustomer, InvoiceAmounts \subseteq Nat, IsFiniteSet(InvoiceIds)
    PROVE  Spec => []SalesConserved
<1>1. Init => IInv /\ AloneInv /\ SalesInv BY InitOK, AloneInit, SalesInit
<1>2. IInv /\ AloneInv /\ SalesInv /\ [Next]_vars => (IInv /\ AloneInv /\ SalesInv)'
    BY NextKeeps, AloneInductive, SalesInductive
<1>3. IInv /\ AloneInv /\ SalesInv => SalesConserved
    BY SalesAreTotals DEF IInv, SalesConserved
<1> QED BY <1>1, <1>2, <1>3, PTL DEF Spec

-----------------------------------------------------------------------------
(* The collected total and the balance, when no request dies before it has   *)
(* saved the receivable.                                                     *)

PaidTyped ==
    /\ PaidView \in [CollectionIds -> Entries]
    /\ \A k \in CollectionIds : PaidView[k] # None => PaidView[k].amt \in MoneyAmounts

LEMMA PaymentsAreTyped == ASSUME OneAtATime PROVE LInv /\ AloneInv => PaidTyped
<1> SUFFICES ASSUME LInv, AloneInv PROVE PaidTyped OBVIOUS
<1> DEFINE Good(e) == e \in Entries /\ (e # None => e.amt \in MoneyAmounts)
<1>1. ASSUME NEW c \in Customers, NEW a \in MoneyAmounts PROVE Good([cust |-> c, amt |-> a])
    BY LedgerAssumption DEF Entries, Book!Entry
<1>2. Good(None) BY DEF Entries
<1>3. ASSUME NEW k \in CollectionIds PROVE Good(PaidNow(k))
  <2>1. CASE collection[k].state # "live" BY <1>2, <2>1 DEF PaidNow
  <2>2. CASE collection[k].state = "live"
    <3>1. collection[k].cust \in Customers /\ collection[k].amt \in MoneyAmounts
        BY <2>2 DEF AloneInv, CurrentInv, CollectionsOwned
    <3> QED BY <1>1, <2>2, <3>1 DEF PaidNow
  <2> QED BY <2>1, <2>2
<1>4. ASSUME NEW w \in Workers, NEW k \in CollectionIds PROVE Good(PaidAlone(w)[k])
  <2>1. CASE ~(arg[w].col = k /\ pc[w] \in Saving) BY <1>3, <2>1 DEF PaidAlone
  <2>2. CASE arg[w].col = k /\ pc[w] \in Saving
    <3> DEFINE a == arg[w]
    <3>1. a.cust \in Customers BY <2>2, HeldRowGood DEF Saving, NeedsCustomer, NeedsRow
    <3>2. /\ pc[w] = "updateCollection.save" => a.old \in MoneyAmounts
          /\ pc[w] = "deleteCollection.save" => a.amt \in MoneyAmounts
        BY DEF AloneInv, CurrentInv, AloneOK, CollectionIsCurrent
    <3>3. \/ PaidAlone(w)[k] = None
          \/ pc[w] = "updateCollection.save" /\ PaidAlone(w)[k] = [cust |-> a.cust, amt |-> a.old]
          \/ pc[w] = "deleteCollection.save" /\ PaidAlone(w)[k] = [cust |-> a.cust, amt |-> a.amt]
        BY <2>2 DEF PaidAlone, PaidBefore, Saving
    <3> HIDE DEF a, Good
    <3> QED BY <1>1, <1>2, <3>1, <3>2, <3>3
  <2> QED BY <2>1, <2>2
<1>5. PaidView = [k \in CollectionIds |-> PaidView[k]] BY DEF PaidView
<1>6. ASSUME NEW k \in CollectionIds PROVE Good(PaidView[k])
  <2>1. CASE Workers = {} BY <1>3, <2>1 DEF PaidView, PaidNow
  <2>2. ASSUME NEW w \in Workers PROVE Good(PaidView[k]) BY <1>4, PaidViewAlone
  <2> QED BY <2>1, <2>2
<1>7. PaidView \in [CollectionIds -> Entries] BY <1>5, <1>6
<1> QED BY <1>6, <1>7 DEF PaidTyped

LEMMA PaymentsAreTypedNext == ASSUME OneAtATime PROVE LInv' /\ AloneInv' => PaidTyped'
BY PaymentsAreTyped, PTL

LEMMA PaymentChanges ==
    ASSUME LInv, AloneInv, OneAtATime, NEW w \in Workers, PaymentSave(w)
    PROVE  LET c == arg[w].cust
               k == arg[w].col
           IN  /\ k \in CollectionIds
               /\ \A j \in CollectionIds \ {k} : PaidView'[j] = PaidView[j]
               /\ Book!OwnedBy(PaidView[k], c) /\ Book!OwnedBy(PaidView'[k], c)
               /\ Book!AmountOf(PaidView'[k]) - Book!AmountOf(PaidView[k]) = Diff(w)
               /\ pc[w] = "deleteCollection.save" =>
                    PaidView[k] = [cust |-> c, amt |-> arg[w].amt]
<1> DEFINE c == arg[w].cust
           k == arg[w].col
           Pays(a) == [cust |-> c, amt |-> a]
<1>1. PaidView = PaidAlone(w) /\ PaidView' = PaidAlone(w)' BY PaidViewAlone
<1>2. /\ pc[w] \in {"collect.save", "collectByCustomer.commit", "updateCollection.save",
                    "deleteCollection.save"}
      /\ pc' = [pc EXCEPT ![w] = "idle"]
      /\ IF pc[w] = "collectByCustomer.commit"
         THEN collection' = [collection EXCEPT ![k] = ArgCollection(w)]
         ELSE collection' = collection
    BY DEF PaymentSave, CollectSave, CollectByCustomerCommit, UpdateCollectionSave,
           DeleteCollectionSave, SaveAndFinish, Finish
<1>3. pc'[w] = "idle" BY <1>2 DEF LInv, WorkersOK
<1>4. c \in Customers /\ arg[w] \in Arg BY <1>2, HeldRowGood DEF NeedsCustomer, NeedsRow
<1>5. arg[w].amt \in Int /\ arg[w].old \in Int BY <1>4 DEF Arg
<1>6. /\ k \in CollectionIds
      /\ pc[w] = "collectByCustomer.commit" => collection[k].state = "unused"
      /\ pc[w] \in Recorded => collection[k].state = "live" /\ collection[k].cust = c
                               /\ collection[k].amt = arg[w].amt
      /\ pc[w] = "deleteCollection.save" => collection[k].state = "removed"
    BY <1>2 DEF AloneInv, CurrentInv, AloneOK, CollectionIsCurrent, Adding, Recorded
<1>7. ASSUME NEW j \in CollectionIds \ {k} PROVE PaidView'[j] = PaidView[j]
  <2>1. collection'[j] = collection[j] BY <1>2 DEF LInv, DbOK
  <2>2. PaidAlone(w)'[j] = PaidNow(j)' BY <1>3 DEF PaidAlone, Saving
  <2>3. PaidAlone(w)[j] = PaidNow(j) BY DEF PaidAlone
  <2>4. PaidNow(j)' = PaidNow(j) BY <2>1 DEF PaidNow
  <2> QED BY <1>1, <2>2, <2>3, <2>4
<1>8. /\ PaidView[k] = IF pc[w] = "updateCollection.save" THEN Pays(arg[w].old)
                       ELSE IF pc[w] = "deleteCollection.save" THEN Pays(arg[w].amt)
                       ELSE None
      /\ PaidView'[k] = IF pc[w] = "deleteCollection.save" THEN None ELSE Pays(arg[w].amt)
  <2>1. PaidAlone(w)[k] = IF pc[w] \in Saving THEN PaidBefore(pc[w], arg[w]) ELSE PaidNow(k)
      BY <1>6 DEF PaidAlone
  <2>2. \A j \in CollectionIds :
            PaidView'[j] = IF collection'[j].state # "live" THEN None
                           ELSE [cust |-> collection'[j].cust, amt |-> collection'[j].amt]
      BY <1>1, <1>3 DEF PaidAlone, PaidNow, Saving
  <2>3. PaidView[k] = IF pc[w] = "updateCollection.save" THEN Pays(arg[w].old)
                      ELSE IF pc[w] = "deleteCollection.save" THEN Pays(arg[w].amt)
                      ELSE None
      BY <1>1, <1>2, <1>6, <2>1 DEF Saving, PaidBefore, PaidNow
  <2>4. PaidView'[k] = IF pc[w] = "deleteCollection.save" THEN None ELSE Pays(arg[w].amt)
    <3>1. CASE pc[w] = "collectByCustomer.commit"
      <4>1. collection'[k] = ArgCollection(w) BY <1>2, <1>6, <3>1 DEF LInv, DbOK
      <4> QED BY <1>6, <2>2, <3>1, <4>1 DEF ArgCollection
    <3>2. CASE pc[w] # "collectByCustomer.commit"
        BY <1>2, <1>6, <2>2, <3>2 DEF Recorded
    <3> QED BY <3>1, <3>2
  <2> QED BY <2>3, <2>4
<1>9. \A a \in Int : /\ Pays(a) # None /\ Book!OwnedBy(Pays(a), c)
                     /\ Book!AmountOf(Pays(a)) = a
  <2> SUFFICES ASSUME NEW a \in Int
               PROVE  Pays(a) # None /\ Book!OwnedBy(Pays(a), c) /\ Book!AmountOf(Pays(a)) = a
      OBVIOUS
  <2>1. Pays(a) \in [cust: Customers, amt: Int] BY <1>4
  <2>2. Pays(a) # None BY <2>1, LedgerAssumption
  <2> QED BY <2>2 DEF Book!OwnedBy, Book!AmountOf
<1>10. Book!OwnedBy(None, c) /\ Book!AmountOf(None) = 0 BY DEF Book!OwnedBy, Book!AmountOf
<1> HIDE DEF Pays
<1>11. /\ Book!OwnedBy(PaidView[k], c) /\ Book!OwnedBy(PaidView'[k], c)
       /\ Book!AmountOf(PaidView'[k]) - Book!AmountOf(PaidView[k]) = Diff(w)
  <2>1. CASE pc[w] = "updateCollection.save"
    <3>1. PaidView[k] = Pays(arg[w].old) /\ PaidView'[k] = Pays(arg[w].amt) BY <1>8, <2>1
    <3> QED BY <1>5, <1>9, <2>1, <3>1 DEF Diff
  <2>2. CASE pc[w] = "deleteCollection.save"
    <3>1. PaidView[k] = Pays(arg[w].amt) /\ PaidView'[k] = None BY <1>8, <2>2
    <3> QED BY <1>5, <1>9, <1>10, <2>2, <3>1 DEF Diff
  <2>3. CASE pc[w] \in {"collect.save", "collectByCustomer.commit"}
    <3>1. PaidView[k] = None /\ PaidView'[k] = Pays(arg[w].amt) BY <1>8, <2>3
    <3>2. arg[w].amt - 0 = arg[w].amt BY <1>5
    <3> QED BY <1>5, <1>9, <1>10, <2>3, <3>1, <3>2 DEF Diff
  <2> QED BY <1>2, <2>1, <2>2, <2>3
<1>12. pc[w] = "deleteCollection.save" => PaidView[k] = [cust |-> c, amt |-> arg[w].amt]
    BY <1>8 DEF Pays
<1> QED BY <1>6, <1>7, <1>11, <1>12

\* The collected total of a customer is the sum of its payments, and the balance
\* is what it owes.
PaidInv ==
    \A c \in Customers : /\ CollectedOf(c) = Posted(PaidView, CollectionIds, c)
                         /\ BalanceOf(c) = SalesOf(c) - CollectedOf(c)

\* deleteCollection never has to clamp the collected total.
LEMMA NoClamp ==
    ASSUME LInv, AloneInv, OneAtATime, PaidInv, IsFiniteSet(CollectionIds),
           MoneyAmounts \subseteq Nat, NEW c \in Customers, NEW k \in CollectionIds,
           NEW a \in Int, PaidView[k] = [cust |-> c, amt |-> a]
    PROVE  CollectedOf(c) >= a
<1>1. PaidTyped BY PaymentsAreTyped
<1>2. PICK f : f = Share(PaidView, CollectionIds, c) OBVIOUS
<1>3. \A j \in CollectionIds : f[j] \in Nat BY <1>1, <1>2 DEF PaidTyped, Share
<1>4. PaidView[k] # None
  <2>1. [cust |-> c, amt |-> a] \in [cust: Customers, amt: Int] OBVIOUS
  <2> QED BY <2>1, LedgerAssumption
<1>5. f[k] = a BY <1>2, <1>4 DEF Share
<1>6. f[k] <= SumOver(f, CollectionIds) BY <1>3, SumAtLeast
<1>7. SumOver(f, CollectionIds) \in Nat BY <1>3, SumType
<1>8. CollectedOf(c) = SumOver(f, CollectionIds) BY <1>2 DEF PaidInv, Posted
<1> QED BY <1>5, <1>6, <1>7, <1>8

LEMMA PaymentPosts ==
    ASSUME LInv, AloneInv, OneAtATime, PaidInv, IsFiniteSet(CollectionIds),
           MoneyAmounts \subseteq Nat, NEW w \in Workers, PaymentSave(w)
    PROVE  \E k \in CollectionIds, c \in Customers : Book!PostPayment(k, c, PaidView'[k])
<1>1. PICK c, k, a, diff : c = arg[w].cust /\ k = arg[w].col /\ a = arg[w].amt /\ diff = Diff(w)
    OBVIOUS
<1>2. c \in Customers /\ diff \in Int /\ UNCHANGED invoice BY <1>1, PaymentSaved
<1>3. PICK row \in Row :
        /\ Saved(c, row) /\ row.totalSales = SalesOf(c)
        /\ \/ pc[w] = "deleteCollection.save" /\ CollectedOf(c) < a
           \/ row.totalCollected = CollectedOf(c) + diff
        /\ BalanceOf(c) = SalesOf(c) - CollectedOf(c) =>
             row.balance = SalesOf(c) - (CollectedOf(c) + diff)
    BY <1>1, PaymentSaved
<1>4. /\ k \in CollectionIds /\ \A j \in CollectionIds \ {k} : PaidView'[j] = PaidView[j]
      /\ Book!OwnedBy(PaidView[k], c) /\ Book!OwnedBy(PaidView'[k], c)
      /\ Book!AmountOf(PaidView'[k]) - Book!AmountOf(PaidView[k]) = diff
      /\ pc[w] = "deleteCollection.save" => PaidView[k] = [cust |-> c, amt |-> a]
    BY <1>1, PaymentChanges
<1>5. SalesOf(c) \in Int /\ CollectedOf(c) \in Int BY <1>2, AccountTypes
<1>6. pc[w] = "deleteCollection.save" => CollectedOf(c) >= a
  <2> SUFFICES ASSUME pc[w] = "deleteCollection.save" PROVE CollectedOf(c) >= a OBVIOUS
  <2>1. arg[w] \in Arg BY HeldRowGood DEF NeedsCustomer, NeedsRow
  <2>2. a \in Int BY <1>1, <2>1 DEF Arg
  <2> QED BY <1>2, <1>4, <2>2, NoClamp
<1>7. row.totalCollected = CollectedOf(c) + diff
  <2>1. pc[w] = "deleteCollection.save" => a \in Int
    <3> SUFFICES ASSUME pc[w] = "deleteCollection.save" PROVE a \in Int OBVIOUS
    <3>1. arg[w] \in Arg BY HeldRowGood DEF NeedsCustomer, NeedsRow
    <3> QED BY <1>1, <3>1 DEF Arg
  <2> QED BY <1>3, <1>5, <1>6, <2>1
<1>8. row.balance = SalesOf(c) - (CollectedOf(c) + diff) BY <1>2, <1>3 DEF PaidInv
<1>9. PaidView' = [PaidView EXCEPT ![k] = PaidView'[k]]
  <2>1. PICK view, new : view = PaidView /\ new = PaidView' OBVIOUS
  <2>2. view = [j \in CollectionIds |-> view[j]] /\ new = [j \in CollectionIds |-> new[j]]
      BY <2>1 DEF PaidView
  <2>3. new = [view EXCEPT ![k] = new[k]] BY <1>4, <2>1, <2>2
  <2> QED BY <2>1, <2>3
<1>10. AccountView' = [AccountView EXCEPT ![c] = RowView(row)] BY <1>2, <1>3, AccountSaved
<1>11. BillView' = BillView BY <1>2 DEF BillView
<1>12. Book!Opened(c).sales = SalesOf(c) /\ Book!Opened(c).collected = CollectedOf(c)
    BY <1>2, AccountTypes
<1>13. Book!PostPayment(k, c, PaidView'[k])
    BY <1>3, <1>4, <1>7, <1>8, <1>9, <1>10, <1>11, <1>12 DEF Book!PostPayment, RowView
<1> QED BY <1>2, <1>4, <1>13

LEMMA PostPaymentKeepsPaid ==
    ASSUME LInv, LInv', AloneInv, AloneInv', OneAtATime, PaidInv, IsFiniteSet(CollectionIds),
           NEW k \in CollectionIds, NEW c \in Customers, Book!PostPayment(k, c, PaidView'[k])
    PROVE  PaidInv'
<1>1. PICK entry : entry = PaidView'[k] OBVIOUS
<1>2. PaidView \in [CollectionIds -> Entries] /\ PaidView' \in [CollectionIds -> Entries]
    BY PaymentsAreTyped, PaymentsAreTypedNext DEF PaidTyped
<1>3. /\ Book!OwnedBy(PaidView[k], c) /\ Book!OwnedBy(entry, c) /\ entry \in Entries
      /\ PaidView' = [PaidView EXCEPT ![k] = entry]
    BY <1>1, <1>2 DEF Book!PostPayment
<1>4. /\ Posted(PaidView', CollectionIds, c) =
           Posted(PaidView, CollectionIds, c) + (Book!AmountOf(entry) - Book!AmountOf(PaidView[k]))
      /\ \A d \in Customers \ {c} :
           Posted(PaidView', CollectionIds, d) = Posted(PaidView, CollectionIds, d)
  <2>1. PICK view, new : view = PaidView /\ new = PaidView' OBVIOUS
  <2>2. /\ view \in [CollectionIds -> Entries] /\ new \in [CollectionIds -> Entries]
        /\ Book!OwnedBy(view[k], c) /\ Book!OwnedBy(new[k], c) /\ new[k] = entry
        /\ \A j \in CollectionIds \ {k} : new[j] = view[j]
      BY <1>1, <1>2, <1>3, <2>1
  <2>3. /\ Posted(new, CollectionIds, c) =
             Posted(view, CollectionIds, c) + (Book!AmountOf(new[k]) - Book!AmountOf(view[k]))
        /\ \A d \in Customers \ {c} :
             Posted(new, CollectionIds, d) = Posted(view, CollectionIds, d)
      BY <2>2, PostingChanges
  <2> QED BY <2>1, <2>2, <2>3
<1>5. PICK p : p = Book!Opened(c).collected +
                     (Book!AmountOf(entry) - Book!AmountOf(PaidView[k])) OBVIOUS
<1>6. PICK s : s = Book!Opened(c).sales OBVIOUS
<1>7. PICK b : b = s - p OBVIOUS
<1>8. s \in Int /\ p \in Int
  <2>1. Book!AmountOf(entry) - Book!AmountOf(PaidView[k]) \in Int
      BY <1>2, <1>3 DEF Entries, Book!AmountOf, Book!Entry
  <2> QED BY <1>5, <1>6, <2>1, OpenedIs DEF OpenedOK
<1>9. AccountView' = [AccountView EXCEPT ![c] = [sales |-> s, collected |-> p, balance |-> b]]
    BY <1>1, <1>5, <1>6, <1>7 DEF Book!PostPayment
<1>10. /\ AccountView'[c] = [sales |-> s, collected |-> p, balance |-> b]
       /\ \A d \in Customers \ {c} : AccountView'[d] = AccountView[d]
    BY <1>9, AccountTypes
<1>11. Book!Opened(c)' = [sales |-> s, collected |-> p, balance |-> b]
    BY <1>7, <1>8, <1>10, OpenedAfter
<1>12. CollectedOf(c)' = p /\ BalanceOf(c)' = SalesOf(c)' - CollectedOf(c)'
    BY <1>7, <1>11, OpenedNext DEF OpenedOK
<1>13. \A d \in Customers \ {c} : /\ CollectedOf(d)' = CollectedOf(d) /\ SalesOf(d)' = SalesOf(d)
                                  /\ BalanceOf(d)' = BalanceOf(d)
  <2>1. \A d \in Customers \ {c} : Book!Opened(d)' = Book!Opened(d) BY <1>10 DEF Book!Opened
  <2> QED BY <2>1, OpenedIs, OpenedNext DEF OpenedOK
<1>14. CollectedOf(c) = Posted(PaidView, CollectionIds, c) /\ Book!Opened(c).collected = CollectedOf(c)
    BY OpenedIs DEF OpenedOK, PaidInv
<1>15. CollectedOf(c)' = Posted(PaidView', CollectionIds, c) BY <1>4, <1>5, <1>12, <1>14
<1>16. \A d \in Customers \ {c} : CollectedOf(d)' = Posted(PaidView', CollectionIds, d)
    BY <1>4, <1>13 DEF PaidInv
<1> QED BY <1>12, <1>13, <1>15, <1>16 DEF PaidInv

LEMMA PostBillKeepsPaid ==
    ASSUME LInv, LInv', PaidInv, NEW i \in InvoiceIds, NEW c \in Customers,
           BillView' \in [InvoiceIds -> Entries],
           Book!PostBill(i, c, BillView'[i])
    PROVE  PaidInv'
<1>1. PaidView' = PaidView BY DEF Book!PostBill
<1>2. PICK s : s = Book!Opened(c).sales +
                     (Book!AmountOf(BillView'[i]) - Book!AmountOf(BillView[i])) OBVIOUS
<1>3. PICK p : p = Book!Opened(c).collected OBVIOUS
<1>4. PICK b : b = s - p OBVIOUS
<1>5. s \in Int /\ p \in Int
  <2>1. Book!AmountOf(BillView'[i]) - Book!AmountOf(BillView[i]) \in Int
      BY BillsAreTyped DEF BillsTyped, Entries, Book!AmountOf, Book!Entry
  <2> QED BY <1>2, <1>3, <2>1, OpenedIs DEF OpenedOK
<1>6. AccountView' = [AccountView EXCEPT ![c] = [sales |-> s, collected |-> p, balance |-> b]]
    BY <1>2, <1>3, <1>4 DEF Book!PostBill
<1>7. /\ AccountView'[c] = [sales |-> s, collected |-> p, balance |-> b]
      /\ \A d \in Customers \ {c} : AccountView'[d] = AccountView[d]
    BY <1>6, AccountTypes
<1>8. Book!Opened(c)' = [sales |-> s, collected |-> p, balance |-> b]
    BY <1>4, <1>5, <1>7, OpenedAfter
<1>9. CollectedOf(c)' = CollectedOf(c) /\ BalanceOf(c)' = SalesOf(c)' - CollectedOf(c)'
    BY <1>3, <1>4, <1>8, OpenedIs, OpenedNext DEF OpenedOK
<1>10. \A d \in Customers \ {c} : /\ CollectedOf(d)' = CollectedOf(d) /\ SalesOf(d)' = SalesOf(d)
                                  /\ BalanceOf(d)' = BalanceOf(d)
  <2>1. \A d \in Customers \ {c} : Book!Opened(d)' = Book!Opened(d) BY <1>7 DEF Book!Opened
  <2> QED BY <2>1, OpenedIs, OpenedNext DEF OpenedOK
<1> QED BY <1>1, <1>9, <1>10 DEF PaidInv

\* With requests one at a time, a request posts one bill or one payment when it
\* saves the receivable, and every other step posts nothing.
LEMMA BookStep ==
    ASSUME OneAtATime, ~MayChangeCustomer, FailingSteps \cap Saving = {},
           InvoiceAmounts \subseteq Nat, MoneyAmounts \subseteq Nat,
           IsFiniteSet(InvoiceIds), IsFiniteSet(CollectionIds),
           IInv, AloneInv, SalesInv, PaidInv, [Next]_vars
    PROVE  ViewsKept \/ Book!Next
<1>a. LInv BY DEF IInv
<1>1. ASSUME NEW w \in Workers, Proceed(w) PROVE ViewsKept \/ Book!Next
  <2>1. CASE PaymentSave(w) BY <1>a, <2>1, PaymentPosts DEF Book!Next
  <2>2. CASE CreateInvoiceCommit(w) \/ UpdateInvoiceCommit(w) \/ DeleteInvoiceCommit(w)
      BY <1>a, <2>2, CreatePosts, UpdatePosts, DeletePosts DEF Book!Next
  <2>3. CASE ~Posting(w) BY <1>1, <1>a, <2>3, QuietProceed
  <2> QED BY <2>1, <2>2, <2>3 DEF Posting, PaymentSave
<1>2. ASSUME NEW w \in Workers, UNCHANGED db, pc[w] \notin Saving, pc'[w] \notin Saving
      PROVE  ViewsKept
  <2>1. PaidView' = PaidView BY <1>2, PaidKept DEF db
  <2> QED BY <1>2, <2>1 DEF ViewsKept, BillView, AccountView, db
<1>3. ASSUME NEW w \in Workers, Request(w) PROVE ViewsKept
  <2>1. UNCHANGED db /\ pc[w] = "idle" /\ \E p \in Step \ Saving : pc' = [pc EXCEPT ![w] = p]
      BY <1>3
      DEF Request, Start, Step, Saving, CollectRead, CollectByCustomerRead, UpdateCollectionRead,
          DeleteCollectionRead, CreateInvoiceRead, UpdateInvoiceRead, DeleteInvoiceRead,
          InvoiceFlagRead, UpdateIssuedAtRead, UpdateReceivableNotesRead,
          UpdatePaymentTermsRead, UpdateWarningStatusesRead
  <2>2. pc'[w] \notin Saving BY <1>a, <2>1 DEF LInv, WorkersOK
  <2> QED BY <1>2, <2>1, <2>2 DEF Saving
<1>4. ASSUME NEW w \in Workers, Fail(w) PROVE ViewsKept
  <2>1. UNCHANGED db /\ pc[w] \notin Saving /\ pc' = [pc EXCEPT ![w] = "idle"]
      BY <1>4 DEF Fail, Finish
  <2>2. pc'[w] \notin Saving BY <1>a, <2>1 DEF LInv, WorkersOK, Saving
  <2> QED BY <1>2, <2>1, <2>2
<1>5. ASSUME UNCHANGED <<ar, invoice, collection, pc, arg>> PROVE ViewsKept
    BY <1>5 DEF ViewsKept, BillView, PaidView, AccountView
<1> QED BY <1>1, <1>3, <1>4, <1>5 DEF Next, CancelSale, NextDay, vars, db

LEMMA BookKeepsPaid ==
    ASSUME OneAtATime, IsFiniteSet(CollectionIds),
           LInv, LInv', AloneInv, AloneInv', PaidInv, ViewsKept \/ Book!Next
    PROVE  PaidInv'
<1>1. CASE ViewsKept
  <2>1. AccountView' = AccountView /\ PaidView' = PaidView BY <1>1 DEF ViewsKept
  <2> QED BY <2>1, ViewsKeepTotals DEF PaidInv
<1>2. CASE \E i \in InvoiceIds, c \in Customers : Book!PostBill(i, c, BillView'[i])
  <2>1. BillView' \in [InvoiceIds -> Entries] BY BillsAreTypedNext DEF BillsTyped
  <2> QED BY <1>2, <2>1, PostBillKeepsPaid
<1>3. CASE \E k \in CollectionIds, c \in Customers : Book!PostPayment(k, c, PaidView'[k])
    BY <1>3, PostPaymentKeepsPaid
<1> QED BY <1>1, <1>2, <1>3 DEF Book!Next

Ledger == IInv /\ AloneInv /\ SalesInv /\ PaidInv

LEMMA LedgerInit ==
    ASSUME IsFiniteSet(InvoiceIds), IsFiniteSet(CollectionIds)
    PROVE  Init => Ledger /\ Book!Init
<1> SUFFICES ASSUME Init PROVE Ledger /\ Book!Init OBVIOUS
<1>1. IInv /\ AloneInv /\ SalesInv BY InitOK, AloneInit, SalesInit
<1>2. /\ \A i \in InvoiceIds : BillView[i] = None
      /\ \A k \in CollectionIds : PaidView[k] = None
      /\ \A c \in Customers : AccountView[c] = None
    BY DEF Init, BillView, PaidView, AccountView, NoArg
<1>3. Book!Init
  <2>1. /\ BillView = [i \in InvoiceIds |-> BillView[i]]
        /\ PaidView = [k \in CollectionIds |-> PaidView[k]]
        /\ AccountView = [c \in Customers |-> AccountView[c]]
      BY DEF BillView, PaidView, AccountView
  <2> QED BY <1>2, <2>1 DEF Book!Init
<1>4. PaidInv
  <2> SUFFICES ASSUME NEW c \in Customers
               PROVE  /\ CollectedOf(c) = Posted(PaidView, CollectionIds, c)
                      /\ BalanceOf(c) = SalesOf(c) - CollectedOf(c)
      BY DEF PaidInv
  <2>1. CollectedOf(c) = 0 /\ BalanceOf(c) = 0 /\ SalesOf(c) = 0
      BY DEF Init, CollectedOf, BalanceOf, SalesOf
  <2> QED BY <1>2, <2>1, NothingPosted
<1> QED BY <1>1, <1>3, <1>4 DEF Ledger

LEMMA LedgerStep ==
    ASSUME OneAtATime, ~MayChangeCustomer, FailingSteps \cap Saving = {},
           InvoiceAmounts \subseteq Nat, MoneyAmounts \subseteq Nat,
           IsFiniteSet(InvoiceIds), IsFiniteSet(CollectionIds)
    PROVE  Ledger /\ [Next]_vars => Ledger' /\ [Book!Next]_(Book!vars)
<1> SUFFICES ASSUME Ledger, [Next]_vars PROVE Ledger' /\ [Book!Next]_(Book!vars) OBVIOUS
<1>1. IInv /\ AloneInv /\ SalesInv /\ PaidInv BY DEF Ledger
<1>2. IInv' /\ AloneInv' /\ SalesInv' BY <1>1, NextKeeps, AloneInductive, SalesInductive
<1>3. ViewsKept \/ Book!Next BY <1>1, BookStep
<1>4. PaidInv'
  <2>1. LInv /\ LInv' BY <1>1, <1>2 DEF IInv
  <2> QED BY <1>1, <1>2, <1>3, <2>1, BookKeepsPaid
<1>5. [Book!Next]_(Book!vars) BY <1>3 DEF ViewsKept, Book!vars
<1> QED BY <1>2, <1>4, <1>5 DEF Ledger

LEMMA CollectionsAreTotals ==
    ASSUME OneAtATime, LInv, AloneInv, PaidInv, IsFiniteSet(CollectionIds)
    PROVE  CollectedConserved
<1> SUFFICES ASSUME Idle, NEW c \in Customers, ar[c] # None
             PROVE  /\ ar[c].totalCollected = Total(collection, CollectionsOf(c))
                    /\ ar[c].balance = ar[c].totalSales - ar[c].totalCollected
    BY DEF CollectedConserved
<1>1. /\ CollectedOf(c) = ar[c].totalCollected /\ BalanceOf(c) = ar[c].balance
      /\ SalesOf(c) = ar[c].totalSales
    BY DEF CollectedOf, BalanceOf, SalesOf
<1>2. PICK own, view, f : own = CollectionsOf(c) /\ view = PaidView /\ f = collection OBVIOUS
<1>3. own = {k \in CollectionIds : collection[k].state = "live" /\ collection[k].cust = c}
    BY <1>2 DEF CollectionsOf, LiveOf, LInv, DbOK
<1>4. PaidView = [k \in CollectionIds |-> PaidNow(k)] BY DEF PaidView, PaidNow, Idle
<1>5. /\ view \in [CollectionIds -> Entries] /\ own \in SUBSET CollectionIds
      /\ \A k \in own : view[k].cust = c /\ f[k].amt = view[k].amt
      /\ \A k \in CollectionIds \ own : view[k] = None \/ view[k].cust # c
    BY <1>2, <1>3, <1>4, PaymentsAreTyped DEF PaidNow, PaidTyped
<1>6. \A k \in own : view[k] # None
  <2> SUFFICES ASSUME NEW k \in own PROVE view[k] # None OBVIOUS
  <2>1. view[k] = [cust |-> c, amt |-> collection[k].amt] BY <1>2, <1>3, <1>4 DEF PaidNow
  <2>2. [cust |-> c, amt |-> collection[k].amt] \in [cust: Customers, amt: Int]
      BY <1>3 DEF LInv, DbOK, Collection
  <2> QED BY <2>1, <2>2, LedgerAssumption
<1>7. Total(f, own) = Posted(view, CollectionIds, c) BY <1>5, <1>6, TotalIsPosted
<1> QED BY <1>1, <1>2, <1>7 DEF PaidInv

\* With requests one at a time that do not die between the write of a collection
\* and the save of the receivable, no refund, and no edit that gives an invoice to
\* another customer, the collected total is the sum of the collection rows and the
\* balance is what is owed, whenever no request is under way.
THEOREM CollectedIsConserved ==
    ASSUME OneAtATime, ~MayChangeCustomer, FailingSteps \cap Saving = {},
           InvoiceAmounts \subseteq Nat, MoneyAmounts \subseteq Nat,
           IsFiniteSet(InvoiceIds), IsFiniteSet(CollectionIds)
    PROVE  Spec => []CollectedConserved
<1>1. Init => Ledger BY LedgerInit
<1>2. Ledger /\ [Next]_vars => Ledger' BY LedgerStep
<1>3. Ledger => CollectedConserved BY CollectionsAreTotals DEF Ledger, IInv
<1> QED BY <1>1, <1>2, <1>3, PTL DEF Spec

\* Under the same conditions each handler is one posting to the account of its
\* customer, however many rows it writes and in however many steps.
THEOREM LedgerImplementsBook ==
    ASSUME OneAtATime, ~MayChangeCustomer, FailingSteps \cap Saving = {},
           InvoiceAmounts \subseteq Nat, MoneyAmounts \subseteq Nat,
           IsFiniteSet(InvoiceIds), IsFiniteSet(CollectionIds)
    PROVE  Spec => ImplementsBook
<1>1. Init => Ledger /\ Book!Init BY LedgerInit
<1>2. Ledger /\ [Next]_vars => Ledger' /\ [Book!Next]_(Book!vars) BY LedgerStep
<1> QED BY <1>1, <1>2, PTL DEF Spec, ImplementsBook, Book!Spec
=============================================================================
