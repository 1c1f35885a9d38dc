------------------------------- MODULE Prepayment -------------------------------
(***************************************************************************)
(* The prepayment of one sale.  A sale asks for one when it is created;    *)
(* later requests about the sale change what is asked, and cancelling the  *)
(* sale settles it; the prepayments service confirms that it was paid,     *)
(* corrects or cancels it.  All of them read the row and save what they    *)
(* made of it: save() looks at the row again, without a lock, and updates  *)
(* the columns that differ from what it saw.  Only a request about the     *)
(* sale is a transaction, and keeps the rows it wrote locked to its end.   *)
(*                                                                         *)
(* Nothing in the code ever deducts a prepayment.  Two requests about the  *)
(* sale may overlap; the last to commit writes the sale's items.           *)
(***************************************************************************)
EXTENDS Integers

CONSTANTS
    Workers,
    Amounts,      \* that may be asked, or paid
    Ratio,        \* a part of the price of the items is asked
    MaxRequests,  \* bound
    Same,         \* no write
    None

ASSUME PrepaymentAssumption ==
    /\ Amounts \subseteq Nat \ {0} /\ MaxRequests \in Nat
    /\ Ratio \notin Int /\ None \notin Int /\ Same \notin Int
    /\ Ratio # None /\ Same # None

\* A request creates at most one row; the sale itself may come with one.
Ids == 1 .. MaxRequests + 1
Statuses == {"REQUESTED", "CONFIRMED", "AVAILABLE", "REFUNDED", "CANCELLED"}
Row == [amount : Amounts, actual : Amounts \cup {None}, diff : Int \cup {None},
        status : Statuses]
Bases == Amounts \cup {Ratio, None}
ItemKinds == {"live", "cancelled"}
Columns == {"id", "amount", "actual", "diff", "status"}

ASSUME RowAssumption == None \notin Row /\ Same \notin Row

VARIABLES
    rows,       \* tb_customer_prepayment, the rows of the sale
    basis,      \* advancePaymentAmount or -Ratio of the sale
    items,      \* the kinds of item the sale has
    cancelled,  \* sa_cancelled_at is set
    req,        \* per worker, the request under way
    last,       \* the last id given to a row
    requests,   \* requests so far
    orderly,    \* requests come one at a time
    torn        \* history: rows some save left other than it held them

vars == <<rows, basis, items, cancelled, req, last, requests, orderly, torn>>
saleVars == <<basis, items, cancelled>>

\* want: what the request will save next; cols: the columns that differ, once
\* it has looked; wrote: what its transaction has written, and keeps locked;
\* the rest is what it does to the sale.
Request ==
    [at : {"idle", "save", "ask", "write", "commit"},
     want : [Ids -> Row \cup {None, Same}], wrote : [Ids -> Row \cup {None, Same}],
     cols : [Ids -> SUBSET Columns] \cup {None},
     basis : Bases, items : SUBSET ItemKinds, cancelled : BOOLEAN,
     settle : BOOLEAN, refund : BOOLEAN]

Nothing == [i \in Ids |-> Same]
Only(i, row) == [Nothing EXCEPT ![i] = row]
Over(f, g) == [i \in Ids |-> IF g[i] = Same THEN f[i] ELSE g[i]]

Idle == [at |-> "idle", want |-> Nothing, wrote |-> Nothing, cols |-> None,
         basis |-> None, items |-> {}, cancelled |-> FALSE, settle |-> FALSE,
         refund |-> FALSE]

TypeOK ==
    /\ rows \in [Ids -> Row \cup {None}]
    /\ basis \in Bases
    /\ items \in SUBSET ItemKinds
    /\ cancelled \in BOOLEAN
    /\ req \in [Workers -> Request]
    /\ last \in Nat
    /\ requests \in 0 .. MaxRequests
    /\ orderly \in BOOLEAN
    /\ torn \in SUBSET Ids

-----------------------------------------------------------------------------
\* What the sale asks for; 0 without a price, and always without items.
Asked(b, its) ==
    IF b \in Amounts THEN {b}
    ELSE IF b = Ratio /\ its # {} THEN Amounts \cup {0}
    ELSE {0}

Requested(amount) ==
    [amount |-> amount, actual |-> None, diff |-> None, status |-> "REQUESTED"]

\* Mutated: what is paid is corrected too.
AskedAlways(row, amount, b) ==
    CASE amount > 0 /\ row = None -> Requested(amount)
      [] amount > 0 /\ row # None -> [row EXCEPT !.amount = amount]
      [] amount = 0 /\ b = None /\ row # None /\ row.status = "REQUESTED" -> None
      [] OTHER -> Same

\* Mutated: a prepayment of nothing is asked.
AskedForNothing(row, amount, b) ==
    CASE row = None -> Requested(amount)
      [] amount > 0 /\ row # None /\ row.status \in {"REQUESTED", "AVAILABLE"} ->
            [row EXCEPT !.amount = amount]
      [] amount = 0 /\ b = None /\ row # None /\ row.status = "REQUESTED" -> None
      [] OTHER -> Same

\* Mutated: what is no longer asked is removed, paid or not.
AskedOrRemoved(row, amount, b) ==
    CASE amount > 0 /\ row = None -> Requested(amount)
      [] amount > 0 /\ row # None /\ row.status \in {"REQUESTED", "AVAILABLE"} ->
            [row EXCEPT !.amount = amount]
      [] amount = 0 /\ b = None /\ row # None -> None
      [] OTHER -> Same

\* update, step 6: the row that was found, or none, against what is asked.
Amended(row, amount, b) ==
    CASE amount > 0 /\ row = None -> Requested(amount)
      [] amount > 0 /\ row # None /\ row.status \in {"REQUESTED", "AVAILABLE"} ->
            [row EXCEPT !.amount = amount]
      [] amount = 0 /\ b = None /\ row # None /\ row.status = "REQUESTED" -> None
      [] OTHER -> Same

\* Mutated: only what was paid is settled.
SettledIfPaid(row, refund) ==
    CASE row.status \in {"CONFIRMED", "AVAILABLE"} /\ refund ->
            [row EXCEPT !.status = "REFUNDED"]
      [] row.status = "CONFIRMED" /\ ~refund -> [row EXCEPT !.status = "AVAILABLE"]
      [] OTHER -> Same

\* update, step 7: cancelling settles the row that was found.
Settled(row, refund) ==
    CASE row.status = "REQUESTED" -> [row EXCEPT !.status = "CANCELLED"]
      [] row.status \in {"CONFIRMED", "AVAILABLE"} /\ refund ->
            [row EXCEPT !.status = "REFUNDED"]
      [] row.status = "CONFIRMED" /\ ~refund -> [row EXCEPT !.status = "AVAILABLE"]
      [] OTHER -> Same

\* Mutated: only what is still to be paid is found.
FoundRequested(rs) == {i \in Ids : rs[i] # None /\ rs[i].status = "REQUESTED"}

\* The rows findOne may answer, one of them.
Found(rs) == {i \in Ids : rs[i] # None}

-----------------------------------------------------------------------------
(* repository.save and remove: a look, then the write. *)

\* The numbers a request assigns, as text, "1" for the stored "1.00", always
\* count as differing.
Assigned(at, row) ==
    CASE at = "write" -> {"amount"}
      [] at = "save" /\ row.status = "CONFIRMED" -> {"actual", "diff"}
      [] OTHER -> {}

\* The columns to write: the id too, where there is no row yet, or none is wanted.
Differing(at, row, stored) ==
    IF row = Same THEN {}
    ELSE IF row = None \/ stored = None THEN Columns
    ELSE Assigned(at, row) \cup {c \in DOMAIN row : row[c] # stored[c]}

\* INSERT and DELETE; or an UPDATE, which finds no row that is gone.
Merged(row, stored, cols) ==
    IF "id" \in cols THEN row
    ELSE IF stored = None THEN None
    ELSE [c \in DOMAIN stored |-> IF c \in cols THEN row[c] ELSE stored[c]]

Left(rs, r) ==
    [i \in Ids |-> IF r.cols[i] = {} THEN rs[i] ELSE Merged(r.want[i], rs[i], r.cols[i])]
Tears(rs, r) == {i \in Ids : r.cols[i] # {} /\ Left(rs, r)[i] \notin {None, r.want[i]}}

\* A row that another transaction has written waits for its end, and is not
\* inserted twice.
Writable(w) ==
    /\ req[w].cols # None
    /\ \A i \in Ids : req[w].cols[i] # {} =>
          /\ \A v \in Workers \ {w} : req[v].wrote[i] = Same
          /\ "id" \in req[w].cols[i] => None \in {req[w].want[i], rows[i]}

Init ==
    /\ items = {"live"} /\ cancelled = FALSE
    /\ basis \in Bases
    /\ \E amount \in Asked(basis, items) :
          /\ rows = [i \in Ids |-> IF i = 1 /\ amount > 0 THEN Requested(amount) ELSE None]
          /\ last = IF amount > 0 THEN 1 ELSE 0
    /\ req = [w \in Workers |-> Idle]
    /\ requests = 0
    /\ orderly \in BOOLEAN
    /\ torn = {}

Begin(w, r) ==
    /\ req[w].at = "idle"
    /\ orderly => \A v \in Workers : req[v].at = "idle"
    /\ requests < MaxRequests
    /\ requests' = requests + 1
    /\ req' = [req EXCEPT ![w] = r]
    /\ UNCHANGED <<rows, saleVars, last, orderly, torn>>

Advance(w, r) ==
    /\ req' = [req EXCEPT ![w] = r]
    /\ UNCHANGED <<saleVars, requests, orderly>>

\* The row as it is now, or as the transaction itself has written it.
Look(w) ==
    LET seen == Over(rows, req[w].wrote)
    IN  /\ req[w].at \in {"save", "write", "commit"} /\ req[w].cols = None
        /\ Advance(w, [req[w] EXCEPT
            !.cols = [i \in Ids |-> Differing(req[w].at, req[w].want[i], seen[i])]])
        /\ UNCHANGED <<rows, last, torn>>

\* A request may fail, and its transaction is undone.
Fail(w) ==
    /\ req[w].at # "idle"
    /\ Advance(w, Idle)
    /\ UNCHANGED <<rows, last, torn>>

-----------------------------------------------------------------------------
(* The prepayments service: the row is read, then saved. *)

Reads(w, i, row) == Begin(w, [Idle EXCEPT !.at = "save", !.want = Only(i, row)])

Paid(row, actual, status) ==
    [row EXCEPT !.actual = actual, !.diff = actual - row.amount, !.status = status]

Confirm(w, i, actual) ==
    /\ rows[i] # None /\ rows[i].status = "REQUESTED"
    /\ Reads(w, i, Paid(rows[i], actual, "CONFIRMED"))

\* The list may be old: any row may be cancelled.
Cancel(w, i) ==
    /\ rows[i] # None
    /\ Reads(w, i, [rows[i] EXCEPT !.status = "CANCELLED"])

Update(w, i, actual) ==
    /\ rows[i] # None /\ rows[i].status = "CONFIRMED"
    /\ Reads(w, i, Paid(rows[i], actual, "CONFIRMED"))

\* Inserted again if it was removed before the look.
Save(w) ==
    /\ req[w].at = "save" /\ Writable(w)
    /\ rows' = Left(rows, req[w])
    /\ torn' = torn \cup Tears(rows, req[w])
    /\ last' = last
    /\ Advance(w, Idle)

-----------------------------------------------------------------------------
(* A request about the sale, one transaction: SalesService.update. *)

\* The sale is read, and the request decides what becomes of it.
UpdateSale(w, new, b, cancelling, refund) ==
    LET all == new = {"cancelled"}
        emptied == new = {} /\ items # {}
    IN  Begin(w, [Idle EXCEPT
                    !.at = "ask", !.basis = b, !.items = new, !.refund = refund,
                    !.cancelled = cancelled \/ all \/ (cancelling /\ new = {}),
                    !.settle = "cancelled" \in new \/ (emptied /\ cancelling)])

\* The form sends the items it lists: cancelled ones only of a cancelled sale.
EditSale(w, new, b) ==
    /\ new \subseteq {"live"} \cup (IF cancelled THEN items ELSE {})
    /\ UpdateSale(w, new, b, FALSE, FALSE)

\* The dialog cancels every item listed.  It sends what to do with the money
\* if it shows a confirmed prepayment, which may be old.
CancelSale(w, refund) ==
    /\ ~cancelled
    /\ UpdateSale(w, IF "live" \in items THEN {"cancelled"} ELSE {}, basis, TRUE, refund)

\* Step 6 finds a row, or none ...
FindAsked(w) ==
    \E i \in Ids, amount \in Asked(req[w].basis, req[w].items) :
        /\ req[w].at = "ask"
        /\ IF Found(rows) = {} THEN i = last + 1 ELSE i \in Found(rows)
        /\ last' = IF Found(rows) = {} THEN i ELSE last
        /\ Advance(w, [req[w] EXCEPT
                         !.at = "write",
                         !.want = Only(i, Amended(rows[i], amount, req[w].basis))])
        /\ UNCHANGED <<rows, torn>>

\* ... and saves it; step 7 finds a row again, its own writes included.
WriteAsked(w) ==
    LET seen == Left(rows, req[w])
        wrote == [i \in Ids |-> IF req[w].cols[i] = {} THEN Same ELSE seen[i]]
        ToSettle == {Only(i, Settled(seen[i], req[w].refund)) : i \in Found(seen)}
    IN  /\ req[w].at = "write" /\ Writable(w)
        /\ \E want \in IF req[w].settle /\ ToSettle # {} THEN ToSettle ELSE {Nothing} :
              Advance(w, [req[w] EXCEPT !.at = "commit", !.wrote = wrote,
                                        !.want = want, !.cols = None])
        /\ torn' = torn \cup Tears(rows, req[w])
        /\ UNCHANGED <<rows, last>>

\* Step 7 saves it, and everything is committed.
CommitSale(w) ==
    LET seen == Over(rows, req[w].wrote)
    IN  /\ req[w].at = "commit" /\ Writable(w)
        /\ rows' = Left(seen, req[w])
        /\ torn' = torn \cup Tears(seen, req[w])
        /\ basis' = req[w].basis
        /\ items' = req[w].items
        /\ cancelled' = req[w].cancelled
        /\ req' = [req EXCEPT ![w] = Idle]
        /\ UNCHANGED <<last, requests, orderly>>

Next ==
    \E w \in Workers :
        \/ \E i \in Ids, actual \in Amounts : Confirm(w, i, actual) \/ Update(w, i, actual)
        \/ \E i \in Ids : Cancel(w, i)
        \/ Look(w) \/ Save(w) \/ Fail(w)
        \/ \E new \in SUBSET ItemKinds, b \in Bases : EditSale(w, new, b)
        \/ \E refund \in BOOLEAN : CancelSale(w, refund)
        \/ FindAsked(w) \/ WriteAsked(w) \/ CommitSale(w)

Spec == Init /\ [][Next]_vars

-----------------------------------------------------------------------------
Present == {i \in Ids : rows[i] # None}

\* However requests overlap, and also where one writes back what another has
\* replaced: a row that says it is paid says how much, and by how much that
\* differs from what was asked; a row still to be paid says nothing was.  (The
\* amount asked of an AVAILABLE one may change afterwards, and its difference
\* is not computed again.)  Excepted are the rows of which two requests have
\* each written some columns: a confirmation that looked before the sale's
\* request changed the amount leaves the difference from the old amount.
DifferenceAgrees ==
    \A i \in Present \ torn :
        /\ rows[i].status = "CONFIRMED" => /\ rows[i].actual # None
                                           /\ rows[i].diff = rows[i].actual - rows[i].amount
        /\ rows[i].status \in {"AVAILABLE", "REFUNDED"} => rows[i].actual # None
        /\ rows[i].status = "REQUESTED" => rows[i].actual = None

\* With requests one at a time, no request forgets money that was received.
ReceiptsKept ==
    [][orderly => \A i \in Present : rows[i].actual # None =>
         rows'[i] # None /\ rows'[i].actual # None]_vars

\* With requests one at a time, a sale has one prepayment at most, so findOne
\* cannot take the wrong one.
OneOfEachSale == orderly => \A i, j \in Present : i = j

\* With requests one at a time, a cancelled sale that still has its cancelled
\* items asks for no money and holds none that is not marked for refund or for
\* the next deal.  (Cancelling a sale that has no items any more settles
\* nothing.)
CancelledSaleSettled ==
    orderly /\ cancelled /\ "cancelled" \in items =>
        \A i \in Present : rows[i].status \notin {"REQUESTED", "CONFIRMED"}
=================================================================================
