----------------------------- MODULE ContainerStock -----------------------------
(***************************************************************************)
(* The inventory status of one container.  It is computed from the sales   *)
(* items of the container in one query and written in another, by three    *)
(* copies of one function, after any request that touches the items:       *)
(*   sale    a request of the sales or invoice service: the items and the  *)
(*           status are written in one transaction;                        *)
(*   confirm a confirmation adds an item in its transaction, and recounts  *)
(*           the containers of the items the sale had before, not its;     *)
(*   unload  the delivery service: the items are committed, then the       *)
(*           status is recomputed;                                         *)
(*   adjust  the trade service adds or takes stock: a virtual sale, its    *)
(*           item and the status are separate statements;                  *)
(*   order   an order is saved with new quantities: the whole container    *)
(*           row is written as it was read, and nothing is recomputed;     *)
(*   row     another column of the container changes, its cost after every *)
(*           edit of a sale: the row is written back in the same way.      *)
(* Statuses of different containers share nothing, so one stands for all.  *)
(***************************************************************************)
EXTENDS Integers, Functions

CONSTANTS
    Workers,
    Items,        \* identities of sales items of the container
    Totals,       \* what a container may hold: bales and a weight
    Amounts,      \* what an item may state: bales, a weight, both or neither
    Tolerance,    \* EPSILON of the sales and trade services; the delivery has 0
    MaxRequests,  \* bound
    None

SaleStatuses == {"RESERVED", "SOLD", "COMPLETED", "CANCELLED"}
StockStatuses == {"INVENTORY_INBOUND", "INVENTORY_CONSUMPTION"}
Statuses == {"AVAILABLE", "RESERVED", "PARTIALLY_RESERVED", "PARTIALLY_SOLD",
             "PARTIALLY_SOLD_COMPLETED", "SELLING", "SOLD_OUT"}
\* Stock given back is stored with negative amounts.  (An item of type CARGO that
\* states one amount counts as if it stated 0 of the other.)
Item == {r \in [status : SaleStatuses \cup StockStatuses,
                bales : {a.bales : a \in Amounts}, weight : {a.weight : a \in Amounts}] :
            /\ [bales |-> r.bales, weight |-> r.weight] \in Amounts
            /\ \A q \in {r.bales, r.weight} \ {None} : q < 0 <=> r.status = "INVENTORY_INBOUND"}
Copies == {"sales", "delivery"}
Kinds == {"sale", "confirm", "unload", "adjust", "order", "row"}
Stages == {"idle", "written", "container", "read", "updated", "loaded"}

ASSUME StockAssumption ==
    /\ Totals \subseteq [bales : Nat \ {0}, weight : Nat \ {0}] /\ Totals # {}
    /\ Amounts \subseteq [bales : Int \cup {None}, weight : Int \cup {None}]
    /\ Tolerance \in Nat /\ MaxRequests \in Nat
    /\ None \notin Item \cup Workers \cup Items \cup Statuses
    \* the conversions come out even
    /\ \A tot \in Totals, a \in Amounts :
          /\ a.bales # None => (tot.weight * a.bales) % tot.bales = 0
          /\ a.weight # None => (tot.bales * a.weight) % tot.weight = 0

VARIABLES
    total,     \* the bales and the weight of the container
    items,     \* the committed items, None where there is none
    status,    \* the committed inventoryStatus
    counter,   \* history: the copy of the function that wrote it
    req,       \* per worker: the request under way
    rowLock,   \* the transaction that has updated the container row, or None
    excused,   \* history: the status may be stale, see StaleOnlyIfExcused
    requests   \* requests begun so far

vars == <<total, items, status, counter, req, rowLock, excused, requests>>

\* kind, item, put: the request and its write; total, next: what the recount
\* read and decided; alone: nobody else has run since it began to read.
Request ==
    [at : Stages, kind : Kinds, item : Items \cup {None}, put : Item \cup {None},
     total : Totals, next : Statuses, alone : BOOLEAN]

TypeOK ==
    /\ total \in Totals
    /\ items \in [Items -> Item \cup {None}]
    /\ status \in Statuses
    /\ counter \in Copies
    /\ req \in [Workers -> Request]
    /\ rowLock \in Workers \cup {None}
    /\ excused \in BOOLEAN
    /\ requests \in 0 .. MaxRequests

-----------------------------------------------------------------------------
(* updateContainerInventoryStatus, without its reads and its write. *)

Live(its) == {i \in Items : its[i] # None /\ its[i].status # "CANCELLED"}

\* What an item takes of a container.  Without bales and weight it stands for the
\* whole.  If it states one of them, the sales and trade services give it the same
\* share of the other, and the delivery service the whole of the other.
Taken(item, tot, copy) ==
    LET whole == copy = "delivery" \/ (item.bales = None /\ item.weight = None)
    IN  [bales  |-> CASE item.bales # None -> item.bales
                      [] item.bales = None /\ whole -> tot.bales
                      [] OTHER -> (tot.bales * item.weight) \div tot.weight,
         weight |-> CASE item.weight # None -> item.weight
                      [] item.weight = None /\ whole -> tot.weight
                      [] OTHER -> (tot.weight * item.bales) \div tot.bales]

SumOfLive(f, its) == IF Live(its) = {} THEN 0 ELSE SumFunctionOnSet(f, Live(its))

Sold(its, tot, copy) ==
    [bales  |-> SumOfLive([i \in Live(its) |-> Taken(its[i], tot, copy).bales], its),
     weight |-> SumOfLive([i \in Live(its) |-> Taken(its[i], tot, copy).weight], its)]

\* The delivery service's copy allows for no rounding.
ToleranceOf(copy) == IF copy = "delivery" THEN 0 ELSE Tolerance

\* Nothing is left of a container of which this was sold.
AllSold(sold, tot, tolerance) ==
    tot.bales - sold.bales <= tolerance /\ tot.weight - sold.weight <= tolerance

\* Mutated: a container sold beyond its quantity is not sold out.
ExactlySold(sold, tot, copy) ==
    /\ tot.bales - sold.bales \in 0 .. ToleranceOf(copy)
    /\ tot.weight - sold.weight \in 0 .. ToleranceOf(copy)

SoldOut(sold, tot, copy) == AllSold(sold, tot, ToleranceOf(copy))

\* Mutated: the initial null stays when nothing is sold.
NullWhenUnsold(its, tot, copy) ==
    IF Sold(its, tot, copy).bales > 0 THEN "SELLING" ELSE None

StatusOf(its, tot, copy) ==
    LET Has(S) == \E i \in Live(its) : its[i].status \in S
        sold == Sold(its, tot, copy)
        some == sold.bales > 0 \/ sold.weight > 0
        soldOut == SoldOut(sold, tot, copy)
        onlyReserved == ~Has((SaleStatuses \cup StockStatuses) \ {"RESERVED"})
        completed == Has({"COMPLETED", "INVENTORY_CONSUMPTION"})
        inProgress == Has({"SOLD", "RESERVED"})
    IN  CASE ~some -> "AVAILABLE"
          [] some /\ onlyReserved ->
                IF soldOut THEN "RESERVED" ELSE "PARTIALLY_RESERVED"
          [] some /\ ~onlyReserved /\ soldOut ->
                IF completed /\ ~inProgress THEN "SOLD_OUT" ELSE "SELLING"
          [] OTHER ->
                IF completed THEN "PARTIALLY_SOLD_COMPLETED" ELSE "PARTIALLY_SOLD"

CopyOf(kind) == IF kind = "unload" THEN "delivery" ELSE "sales"

Current == status = StatusOf(items, total, counter)

-----------------------------------------------------------------------------
InTransaction(w) == req[w].kind \in {"sale", "confirm"} /\ req[w].at # "idle"

\* The items a query of worker w sees: what is committed, and its own writes.
Seen(w) == IF InTransaction(w) THEN [items EXCEPT ![req[w].item] = req[w].put]
           ELSE items

OthersIdle(w) == \A v \in Workers \ {w} : req[v].at = "idle"

AllIdle == \A w \in Workers : req[w].at = "idle"

Quiet(t) ==
    [at |-> "idle", kind |-> "sale", item |-> None, put |-> None,
     total |-> t, next |-> "AVAILABLE", alone |-> FALSE]

Init ==
    /\ total \in Totals
    /\ items = [i \in Items |-> None]
    /\ status = "AVAILABLE" /\ counter = "sales"
    /\ req = [w \in Workers |-> Quiet(total)]
    /\ rowLock = None
    /\ excused = FALSE
    /\ requests = 0

\* A request begins; whoever runs is no longer alone.
Begin(w, r) ==
    /\ req[w].at = "idle"
    /\ requests < MaxRequests
    /\ requests' = requests + 1
    /\ req' = [v \in Workers |-> IF v = w THEN r ELSE [req[v] EXCEPT !.alone = FALSE]]
    /\ excused' = (excused \/ ~OthersIdle(w))

\* A row another transaction has written waits for its end.
Writable(i) == \A v \in Workers : InTransaction(v) => req[v].item # i

\* A sale writes an item: adds, changes, cancels or removes it.
SaleWrites(w, i, item) ==
    /\ Writable(i) /\ item # items[i]
    /\ Begin(w, [Quiet(total) EXCEPT !.at = "written", !.kind = "sale",
                                     !.item = i, !.put = item])
    /\ UNCHANGED <<total, items, status, counter, rowLock>>

\* confirmSales writes an item the sale did not have.
ConfirmWrites(w, i, item) ==
    /\ Writable(i) /\ items[i] = None /\ item.status = "SOLD"
    /\ Begin(w, [Quiet(total) EXCEPT !.at = "written", !.kind = "confirm",
                                     !.item = i, !.put = item])
    /\ UNCHANGED <<total, items, status, counter, rowLock>>

\* Unloading completes, restores or cancels an item of a sale, with the
\* quantity that was unloaded.
UnloadWrites(w, i, item) ==
    /\ Writable(i)
    /\ items[i] # None /\ items[i].status \in SaleStatuses
    /\ item.status \in {"COMPLETED", "SOLD", "CANCELLED"} /\ item # items[i]
    /\ items' = [items EXCEPT ![i] = item]
    /\ Begin(w, [Quiet(total) EXCEPT !.at = "written", !.kind = "unload"])
    /\ UNCHANGED <<total, status, counter, rowLock>>

\* adjustContainerInventory, up to the item; the sale before it has no items.
AdjustWrites(w, i, item) ==
    /\ Writable(i)
    /\ items[i] = None /\ item.status \in StockStatuses
    /\ items' = [items EXCEPT ![i] = item]
    /\ Begin(w, [Quiet(total) EXCEPT !.at = "written", !.kind = "adjust"])
    /\ UNCHANGED <<total, status, counter, rowLock>>

\* The recount: the container, then its items, then the new status.
ReadContainer(w) ==
    /\ req[w].at = "written" /\ req[w].kind # "confirm"
    /\ req' = [req EXCEPT ![w].at = "container", ![w].total = total,
                          ![w].alone = OthersIdle(w)]
    /\ UNCHANGED <<total, items, status, counter, rowLock, excused, requests>>

ReadItems(w) ==
    /\ req[w].at = "container"
    /\ req' = [req EXCEPT ![w].at = "read",
                 ![w].next = StatusOf(Seen(w), req[w].total, CopyOf(req[w].kind))]
    /\ UNCHANGED <<total, items, status, counter, rowLock, excused, requests>>

\* In a transaction the row stays locked until the end.
WriteStatusLocking(w) ==
    /\ req[w].at = "read" /\ InTransaction(w)
    /\ rowLock = None
    /\ rowLock' = w
    /\ req' = [req EXCEPT ![w].at = "updated"]
    /\ UNCHANGED <<total, items, status, counter, excused, requests>>

\* The end of a request that has recounted: alone, it leaves the status right.
End(w) ==
    /\ req' = [req EXCEPT ![w] = Quiet(total)]
    /\ excused' = (excused /\ ~req[w].alone)
    /\ UNCHANGED <<total, requests>>

\* Mutated: the transaction commits without its status.
CommitItemsOnly(w) ==
    /\ req[w].at = "updated"
    /\ items' = Seen(w)
    /\ rowLock' = None
    /\ End(w)
    /\ UNCHANGED <<status, counter>>

Commit(w) ==
    /\ req[w].at = "updated"
    /\ items' = Seen(w)
    /\ status' = req[w].next /\ counter' = CopyOf(req[w].kind)
    /\ rowLock' = None
    /\ End(w)

\* The containers confirmSales recounts are those of the items the sale had.
CommitUncounted(w) ==
    /\ req[w].at = "written" /\ req[w].kind = "confirm"
    /\ items' = Seen(w)
    /\ req' = [req EXCEPT ![w] = Quiet(total)]
    /\ excused' = TRUE
    /\ UNCHANGED <<total, status, counter, rowLock, requests>>

WriteStatus(w) ==
    /\ req[w].at = "read" /\ ~InTransaction(w)
    /\ rowLock = None
    /\ status' = req[w].next /\ counter' = CopyOf(req[w].kind)
    /\ End(w)
    /\ UNCHANGED <<items, rowLock>>

\* saveContainersForOrder and syncContainersForOrder: the rows are read ...
OrderLoads(w) ==
    /\ Begin(w, [Quiet(total) EXCEPT !.at = "loaded", !.kind = "order", !.next = status])
    /\ UNCHANGED <<total, items, status, counter, rowLock>>

\* ... and saved with new quantities; save writes every column that differs
\* from the row it finds, the status that was read among them.
OrderSaves(w, tot) ==
    /\ req[w].at = "loaded" /\ req[w].kind = "order"
    /\ rowLock = None
    /\ total' = tot
    /\ status' = req[w].next
    /\ req' = [req EXCEPT ![w] = Quiet(total)]
    /\ excused' = TRUE
    /\ UNCHANGED <<items, counter, rowLock, requests>>

\* recalculateContainerCost, updateContainer and the like: the row is read ...
RowLoads(w) ==
    /\ Begin(w, [Quiet(total) EXCEPT !.at = "loaded", !.kind = "row", !.next = status])
    /\ UNCHANGED <<total, items, status, counter, rowLock>>

\* ... and saved, its quantity and its status as they were read.
RowSaves(w) ==
    /\ req[w].at = "loaded" /\ req[w].kind = "row"
    /\ rowLock = None
    /\ total' = req[w].total
    /\ status' = req[w].next
    /\ req' = [req EXCEPT ![w] = Quiet(total)]
    /\ UNCHANGED <<items, counter, rowLock, excused, requests>>

\* A request dies.  A transaction leaves no trace; of the others what was
\* written stays, and an unfinished recount is lost.
Die(w) ==
    /\ req[w].at # "idle"
    /\ req' = [req EXCEPT ![w] = Quiet(total)]
    /\ rowLock' = IF rowLock = w THEN None ELSE rowLock
    /\ excused' = (excused \/ req[w].kind \in {"unload", "adjust"})
    /\ UNCHANGED <<total, items, status, counter, requests>>

Step(w) ==
    \/ \E i \in Items : \E item \in Item \cup {None} : SaleWrites(w, i, item)
    \/ \E i \in Items : \E item \in Item :
          ConfirmWrites(w, i, item) \/ UnloadWrites(w, i, item) \/ AdjustWrites(w, i, item)
    \/ ReadContainer(w) \/ ReadItems(w)
    \/ WriteStatusLocking(w) \/ Commit(w) \/ CommitUncounted(w) \/ WriteStatus(w)
    \/ OrderLoads(w) \/ \E tot \in Totals : OrderSaves(w, tot)
    \/ RowLoads(w) \/ RowSaves(w)
    \/ Die(w)

Next == \E w \in Workers : Step(w)

Spec == Init /\ [][Next]_vars

-----------------------------------------------------------------------------
\* Whenever nothing is under way the status is the one the copy that wrote it
\* gives to the items, except after one of the four things the code does not
\* guard against: requests that overlapped, one that died between its items and
\* its recount, an order saved with new quantities, an item added by a
\* confirmation.  The next recount that runs alone puts it right.
StaleOnlyIfExcused == AllIdle /\ ~excused => Current

Gone == {"RESERVED", "SELLING", "SOLD_OUT"}

\* Every item states both its bales and its weight, or neither.
BothOrNeither == \A i \in Live(items) : items[i].bales = None <=> items[i].weight = None

\* The inventory lists leave out the containers whose status says that all is
\* reserved or sold.  When the status is not stale these are the containers
\* with nothing left, each item taking the share it states: none that has stock
\* is hidden for what was cancelled or given back, none that is sold out, or sold
\* beyond its quantity, is offered.  The one exception is an item that states
\* only its bales or only its weight, after a recount by the delivery service:
\* that copy counts the whole container for the other.
HiddenIffGone ==
    /\ AllIdle /\ ~excused
    /\ total.bales > Tolerance /\ total.weight > Tolerance
    /\ counter = "delivery" => BothOrNeither
    => LET sold == Sold(items, total, "sales")
       IN  /\ status \in Gone => AllSold(sold, total, Tolerance)
           /\ AllSold(sold, total, 0) => status \in Gone
=================================================================================
