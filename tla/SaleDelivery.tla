------------------------------ MODULE SaleDelivery ------------------------------
(***************************************************************************)
(* One sale and its delivery.  Three tables tell the same story: the items *)
(* of the sale, the loading rows of the delivery, and the status of each;  *)
(* a fourth, the inventory status of the containers, follows the items.    *)
(* A request of the sales service is one transaction and rewrites the rows *)
(* itself; it reads the row of the sale first and saves it at the end,     *)
(* with no lock and no version.  An unloading, and its undoing, is a       *)
(* sequence of statements of the delivery service in no transaction: it    *)
(* can fail or be cut short half-way, and requests about the sale run      *)
(* between its statements.                                                 *)
(*                                                                         *)
(* All containers are of one order and in stock.  Quantities are left out. *)
(***************************************************************************)
EXTENDS Naturals

CONSTANTS
    Containers,
    MaxItems,     \* bound: items ever made
    MaxRequests,  \* bound
    None

Items == 1 .. MaxItems
ItemStatuses == {"RESERVED", "SOLD", "COMPLETED", "CANCELLED"}
SaleStatuses == {"RESERVED", "SOLD", "COMPLETED"}
\* DISPATCHED is every status between the request of a vehicle and the loading.
DeliveryStatuses == {"PENDING", "DISPATCHED", "LOADED", "UNLOADED"}

\* The columns of a sale that are carried in memory.  billing: sa_invoice_status
\* is PENDING_ISSUE; ISSUED is tested for but written nowhere.
SaleRow == [sale : SaleStatuses, cancelled : BOOLEAN, billing : BOOLEAN]

Item == [co : Containers, st : ItemStatuses]
SalesItem == Item \cup {None}

\* op: the row has a schedule or work data; req, act: request- and actualContainer.
LoadingRow == [op : BOOLEAN, req : Containers, act : Containers \cup {None}]
Row == LoadingRow \cup {None}

ASSUME SaleAssumption ==
    /\ MaxItems \in Nat /\ MaxRequests \in Nat
    /\ None \notin Containers \cup Item \cup LoadingRow \cup SaleRow

Unloading == {"add", "diff", "load", "apply", "complete", "recount", "read", "bill"}
Restoring == {"undo", "restore", "unbill", "reopen"}
Stages == {"idle"} \cup Unloading \cup Restoring

VARIABLES
    items,      \* tb_sales_item: None where there is none
    rows,       \* the loading row of each item, or None
    delivery,   \* sd_status
    deleted,    \* sd_deleted_at is set
    sale,       \* sa_status
    cancelled,  \* sa_cancelled_at is set
    billing,    \* sa_invoice_status is PENDING_ISSUE
    shown,      \* the rows in the unloading form that is open
    job,        \* the delivery request under way
    reading,    \* the sale as the request about it that is under way read it, or None
    made,       \* items made so far
    requests,   \* requests so far
    uncounted,  \* containers not recounted since their items changed
    revived,    \* history: cancelled items an unloading completed
    missed,     \* history: containers of items added by a confirmation, and
                \* those that were uncounted when a job began; not recounted since
    cut,        \* history: a job was cut short, or a statement of it failed, and no
                \* unloading has ended since
    mixed,      \* history: a sale request and a job overlapped, and no unloading has
                \* begun alone since
    overwritten \* history: a sale request had the sale in memory, or saved it, while
                \* the last job wrote its billing

saleVars == <<items, sale, cancelled, billing, made>>
historyVars == <<uncounted, revived, missed, cut, mixed, overwritten>>
vars == <<saleVars, rows, delivery, deleted, shown, job, reading, requests, historyVars>>

\* mem: the rows in memory; todo: those still to be applied; out: items whose
\* rows the form removed, then all that are to stay cancelled; touched:
\* containerIdsToUpdate; add: the container of the row the form adds; read: the
\* sale it is about to save.
Job == [at : Stages, mem : [Items -> Row], todo : SUBSET Items,
        out : SUBSET Items, touched : SUBSET Containers,
        add : Containers \cup {None}, read : SaleRow \cup {None}]

NoRows == [i \in Items |-> None]
Idle == [at |-> "idle", mem |-> NoRows, todo |-> {}, out |-> {},
         touched |-> {}, add |-> None, read |-> None]

TypeOK ==
    /\ items \in [Items -> SalesItem]
    /\ rows \in [Items -> Row]
    /\ delivery \in DeliveryStatuses
    /\ deleted \in BOOLEAN
    /\ sale \in SaleStatuses
    /\ cancelled \in BOOLEAN
    /\ billing \in BOOLEAN
    /\ shown \subseteq Items
    /\ job \in Job
    /\ reading \in SaleRow \cup {None}
    /\ made \in 0 .. MaxItems
    /\ requests \in 0 .. MaxRequests
    /\ uncounted \subseteq Containers
    /\ revived \subseteq Items
    /\ missed \subseteq Containers
    /\ cut \in BOOLEAN
    /\ mixed \in BOOLEAN
    /\ overwritten \in BOOLEAN

-----------------------------------------------------------------------------
Existing(its) == {i \in Items : its[i] # None}
Live(its) == {i \in Existing(its) : its[i].st # "CANCELLED"}
Held(its, S) == {its[i].co : i \in S}
WithRow(rs) == {i \in Items : rs[i] # None}

\* Mutated: nothing but cancelled items gives no status at all.
NullWhenNoneLive(its, old) ==
    LET Has(st) == \E i \in Live(its) : its[i].st = st
    IN  IF Has("COMPLETED") THEN "COMPLETED"
        ELSE IF Has("SOLD") THEN "SOLD"
        ELSE IF Has("RESERVED") THEN "RESERVED"
        ELSE None

\* deriveSalesStatusFromItems; its null leaves the old status.
SalesStatusOf(its, old) ==
    LET Has(st) == \E i \in Live(its) : its[i].st = st
    IN  IF Has("COMPLETED") THEN "COMPLETED"
        ELSE IF Has("SOLD") THEN "SOLD"
        ELSE IF Has("RESERVED") THEN "RESERVED"
        ELSE old

SaleNow == [sale |-> sale, cancelled |-> cancelled, billing |-> billing]

\* save() selects the row and writes the columns that differ from the entity: what
\* the entity has, unless another wrote the column after that selection.
Saved(value, read, now) == {value} \cup (IF now = read THEN {} ELSE {now})

\* The containers whose use differs between two states of the items.
Changed(its, new) ==
    LET diff == {i \in Items : its[i] # new[i]}
    IN  Held(its, diff \cap Live(its)) \cup Held(new, diff \cap Live(new))

\* The items become new, and the containers counted are recounted.
SetItems(new, counted) ==
    /\ items' = new
    /\ uncounted' = (uncounted \cup Changed(items, new)) \ counted

NewRow(co) == [op |-> FALSE, req |-> co, act |-> None]

\* A sale just created, its delivery on the way.
Init ==
    /\ \E st \in {"RESERVED", "SOLD"}, f \in [Items -> Containers \cup {None}] :
          /\ \A i, j \in Items : f[i] # None /\ i # j => f[i] # f[j]
          /\ \A i, j \in Items : f[j] # None /\ i < j => f[i] # None
          /\ \E i \in Items : f[i] # None
          /\ items = [i \in Items |-> IF f[i] = None THEN None
                                      ELSE [co |-> f[i], st |-> st]]
          /\ made \in 0 .. MaxItems
          /\ \A i \in Items : f[i] # None <=> i <= made
          /\ sale = st
    /\ delivery \in {"PENDING", "DISPATCHED", "LOADED"}
    /\ rows = [i \in Items |-> IF items[i] = None THEN None
                 ELSE [NewRow(items[i].co) EXCEPT !.op = delivery # "PENDING"]]
    /\ deleted = FALSE /\ cancelled = FALSE /\ billing = FALSE
    /\ shown = {} /\ job = Idle /\ reading = None /\ requests = 0
    /\ uncounted = {} /\ revived = {} /\ missed = {}
    /\ cut = FALSE /\ mixed = FALSE /\ overwritten = FALSE

Request ==
    /\ requests < MaxRequests
    /\ requests' = requests + 1

-----------------------------------------------------------------------------
(* Requests about the sale, each one transaction of the sales service, one *)
(* at a time: it reads the sale, and what it does to items, rows and sale  *)
(* shows when it commits.                                                  *)

ReadSale ==
    /\ reading = None
    /\ Request
    /\ reading' = SaleNow
    /\ mixed' = (mixed \/ job.at # "idle")
    /\ UNCHANGED <<saleVars, rows, delivery, deleted, shown, job,
                   uncounted, revived, missed, cut, overwritten>>

\* An error or the end of the server rolls it back.
RollBack ==
    /\ reading # None
    /\ reading' = None
    /\ UNCHANGED <<saleVars, rows, delivery, deleted, shown, job, requests, historyVars>>

\* Mutated: rows that exist are left as they are.
RowsOfNewOnly(its) ==
    [i \in Items |->
        IF i \in Live(its) THEN IF rows[i] = None THEN NewRow(its[i].co) ELSE rows[i]
        ELSE None]

\* createFromSales.  Rows of items removed are gone already (cascade).  With
\* nothing live it returns early.  Rows are replaced, unless the loading is
\* done: then they are updated, and one with data stays without its item.
RowsFor(its) ==
    [i \in Items |->
        IF i \in Live(its) THEN
            IF rows[i] = None THEN NewRow(its[i].co)
            ELSE [rows[i] EXCEPT !.req = its[i].co]
        ELSE IF i \in Existing(its) /\ rows[i] # None
                /\ (\/ Live(its) = {}
                    \/ delivery \in {"LOADED", "UNLOADED"}
                       /\ (rows[i].op \/ rows[i].act # None))
             THEN rows[i]
        ELSE None]

CreateFromSales(its) ==
    /\ rows' = RowsFor(its)
    /\ deleted' = (deleted /\ Live(its) = {})

\* The request commits: the sale gets the status and, if cancel, the time of the
\* cancellation; its other columns as they were read.  The revived items have
\* rows again, or are gone.
Commit(status, cancel) ==
    /\ reading # None
    /\ reading' = None
    /\ sale' \in Saved(status, reading.sale, sale)
    /\ cancelled' \in Saved(reading.cancelled \/ cancel, reading.cancelled, cancelled)
    /\ billing' \in Saved(reading.billing, reading.billing, billing)
    /\ revived' = {}
    /\ UNCHANGED <<delivery, shown, job, requests, cut, mixed, overwritten>>

\* productInfo: cancelled items are listed only for a cancelled sale.
Listed == IF cancelled THEN Existing(items) ELSE Live(items)

CanConfirm == sale = "RESERVED" /\ Listed # {}

Prefix(S) == \A i \in S, j \in Listed : j < i => j \in S

\* Item ids are given to the containers left in the form by their index: item
\* i gets what item f[i] had.  The database refuses two items of the sale in
\* one container, so i can only get what a removed item had.
Reindexed(f) ==
    LET kept == {i \in Listed : f[i] # None}
    IN  /\ Prefix(kept)
        /\ \A i, j \in kept : i < j => f[i] < f[j]
        /\ \A i \in kept : f[i] = i \/ f[i] \notin kept

\* A new item, SOLD as the container is in stock.
Added(i, add) == add # None /\ i = made + 1

Addable(add, kept) ==
    add # None => /\ kept = Listed /\ made < MaxItems
                  /\ add \notin Held(items, Listed)

\* update: what is not in the form, and every unlisted item, is removed.
Edited(f, add) ==
    [i \in Items |->
        IF i \in Listed /\ f[i] # None THEN items[f[i]]
        ELSE IF Added(i, add) THEN [co |-> add, st |-> "SOLD"]
        ELSE None]

UpdateSale(new) ==
    LET counted == Held(items, Existing(items)) \cup Held(new, Existing(new))
    IN  /\ SetItems(new, counted)
        /\ missed' = missed \ counted

\* The form adds a container or drops some.
EditSale(f, add) ==
    /\ ~CanConfirm
    /\ Reindexed(f) /\ Addable(add, {i \in Listed : f[i] # None})
    /\ made' = IF add = None THEN made ELSE made + 1
    /\ UpdateSale(Edited(f, add))
    /\ CreateFromSales(Edited(f, add))
    /\ Commit(SalesStatusOf(Edited(f, add), reading.sale),
              Existing(Edited(f, add)) # {} /\ Live(Edited(f, add)) = {})

\* The dialog sends every listed item as cancelled; with no item at all,
\* isCancellation suffices.  The status is derived from items that are cancelled
\* already, which gives none, and stays.
CancelSale ==
    LET new == [i \in Items |-> IF i \in Listed
                                THEN [items[i] EXCEPT !.st = "CANCELLED"] ELSE None]
    IN  /\ ~cancelled
        /\ UpdateSale(new)
        /\ CreateFromSales(new)
        /\ Commit(reading.sale, TRUE)
        /\ UNCHANGED made

\* Back to a reservation: while the delivery waits for a vehicle, which also
\* deletes it.  A delivery already deleted is not looked at, and comes back.
ToReservation ==
    LET new == [i \in Items |-> IF i \in Live(items)
                                THEN [items[i] EXCEPT !.st = "RESERVED"] ELSE None]
        reserving == \E i \in Existing(items) : items[i].st = "SOLD"
    IN  /\ sale = "SOLD" /\ Listed # {}
        /\ reserving /\ Live(items) # {} => deleted \/ delivery = "PENDING"
        /\ UpdateSale(new)
        /\ rows' = RowsFor(new)
        /\ deleted' = ((deleted /\ Live(new) = {}) \/
                       (reserving /\ Live(new) # {} /\ ~deleted))
        /\ Commit(SalesStatusOf(new, reading.sale), FALSE)
        /\ UNCHANGED made

\* confirmSales.  Existing items keep their containers whatever the form
\* says; those beyond its length are removed.  Only containers of items that
\* existed are recounted.
ConfirmSales(kept, add) ==
    LET new == [i \in Items |->
                  IF i \in kept THEN [items[i] EXCEPT !.st = "SOLD"]
                  ELSE IF Added(i, add) THEN [co |-> add, st |-> "SOLD"]
                  ELSE None]
    IN  /\ CanConfirm /\ kept # {} /\ Prefix(kept) /\ Addable(add, kept)
        /\ \A i \in Existing(items) : items[i].st \in {"RESERVED", "SOLD"}
        /\ made' = IF add = None THEN made ELSE made + 1
        /\ SetItems(new, Held(items, Existing(items)))
        /\ missed' = (missed \ Held(items, Existing(items)))
                      \cup ({add} \ {None})
        /\ CreateFromSales(new)
        /\ Commit("SOLD", FALSE)

-----------------------------------------------------------------------------
(* The delivery, up to the loading. *)

Open == ~deleted /\ job.at = "idle"

\* The dispatch form sends each row's item as the request again.
Dispatch ==
    /\ Open /\ delivery = "PENDING"
    /\ WithRow(rows) # {} => WithRow(rows) \cap Live(items) # {}
    /\ Request
    /\ delivery' = "DISPATCHED"
    /\ rows' = [i \in Items |-> IF rows[i] = None \/ items[i] = None THEN rows[i]
                                ELSE [rows[i] EXCEPT !.op = TRUE, !.req = items[i].co]]
    /\ UNCHANGED <<saleVars, deleted, shown, job, reading, historyVars>>

\* The loading company's form sets the work data.
Load ==
    /\ Open /\ delivery = "DISPATCHED"
    /\ Request
    /\ delivery' = "LOADED"
    /\ rows' = [i \in Items |-> IF rows[i] = None THEN None
                                ELSE [rows[i] EXCEPT !.op = TRUE]]
    /\ UNCHANGED <<saleVars, deleted, shown, job, reading, historyVars>>

DeleteDelivery ==
    /\ ~deleted
    /\ Request
    /\ deleted' = TRUE
    /\ UNCHANGED <<saleVars, rows, delivery, shown, job, reading, historyVars>>

-----------------------------------------------------------------------------
(* An unloading, and an edit of one: update, statement by statement. *)

Start(status, j) ==
    /\ Request
    /\ delivery' = status
    /\ job' = j
    /\ mixed' = (reading # None \/ (mixed /\ status # "UNLOADED"))
    /\ missed' = missed \cup uncounted
    /\ UNCHANGED <<saleVars, rows, deleted, shown, reading, uncounted, revived, cut, overwritten>>

Apart == UNCHANGED <<delivery, deleted, shown, reading, requests, mixed>>
Quiet == Apart /\ UNCHANGED <<missed, overwritten>>

\* The end of a job before its time: an error is swallowed, a crash needs no
\* handler.
CutShort == job' = Idle /\ cut' = TRUE

OpenForm ==
    /\ Open /\ delivery \in {"LOADED", "UNLOADED"}
    /\ shown # WithRow(rows)
    /\ shown' = WithRow(rows)
    /\ UNCHANGED <<saleVars, rows, delivery, deleted, job, reading, requests, historyVars>>

\* The form keeps some rows, each with an actual container, and may add one.
\* Containers of other rows are not offered.
Unload(act, add) ==
    LET kept == {i \in shown : act[i] # None}
        dropped == {items[i].co : i \in (shown \ kept) \cap Existing(items)}
        actual == {act[i] : i \in kept}
    IN  /\ Open /\ delivery \in {"LOADED", "UNLOADED"}
        /\ shown # {} /\ (kept # {} \/ add # None)
        /\ \A i, j \in kept : act[i] = act[j] => i = j
        /\ actual \cap dropped = {}
        /\ add \notin actual \cup dropped \cup Held(items, kept \cap Existing(items))
        /\ Start("UNLOADED",
                 [Idle EXCEPT
                    !.at = IF add = None THEN "diff" ELSE "add",
                    !.mem = [i \in Items |-> IF i \notin kept THEN None ELSE
                               [op |-> FALSE, req |-> act[i], act |-> act[i]]],
                    !.add = add])

\* A button, without a form.
UnloadStatusOnly ==
    /\ Open /\ delivery = "LOADED"
    /\ Start("UNLOADED", [Idle EXCEPT !.at = "load"])

\* resolveSalesItemForUnloadingAddedContainer: the item of the container, a
\* cancelled one brought back, or a new one.
AddItem ==
    LET holders == {i \in Existing(items) : items[i].co = job.add}
    IN  /\ job.at = "add"
        /\ IF holders = {} /\ made < MaxItems
           THEN /\ made' = made + 1
                /\ SetItems([items EXCEPT ![made + 1] =
                                [co |-> job.add, st |-> "COMPLETED"]], {})
           ELSE /\ SetItems([i \in Items |->
                                IF i \in holders \ Live(items)
                                THEN [items[i] EXCEPT !.st = "COMPLETED"]
                                ELSE items[i]], {})
                /\ UNCHANGED made
        /\ job' = [job EXCEPT !.at = "diff"]
        /\ UNCHANGED <<sale, cancelled, billing, rows, revived, cut>> /\ Quiet

\* One transaction: rows of the form get their actual container, the others
\* are removed and their items cancelled.  A row whose item was removed
\* meanwhile cannot be added again: the request ends in an error.
Diff ==
    LET kept == WithRow(job.mem)
        adds == {i \in Live(items) : job.add # None /\ items[i].co = job.add}
        gone == WithRow(rows) \ kept
        act(i) == [op |-> rows[i] # None /\ rows[i].op,
                   req |-> IF rows[i] = None THEN job.mem[i].act ELSE rows[i].req,
                   act |-> job.mem[i].act]
    IN  /\ job.at = "diff"
        /\ IF kept \subseteq Existing(items)
           THEN /\ rows' = [i \in Items |->
                      IF i \in kept /\ (rows[i] # None \/ i \in Live(items)) THEN act(i)
                      ELSE IF i \in adds \ kept
                           THEN [NewRow(job.add) EXCEPT !.act = job.add]
                      ELSE None]
                /\ SetItems([i \in Items |->
                      IF i \in gone THEN [items[i] EXCEPT !.st = "CANCELLED"]
                      ELSE items[i]], {})
                /\ job' = [job EXCEPT !.at = "load", !.out = gone]
                /\ UNCHANGED cut
           ELSE CutShort /\ UNCHANGED <<items, rows, uncounted>>
        /\ UNCHANGED <<sale, cancelled, billing, made, revived>> /\ Quiet

\* The rows are read; one without an actual container takes the requested one,
\* and so does one that is not in the form.
LoadRows ==
    LET inForm(i) == job.mem[i] # None
        statusOnly == WithRow(job.mem) = {} /\ job.add = None
        actual(i) ==
            IF inForm(i) THEN job.mem[i].act
            ELSE IF statusOnly /\ rows[i].act # None THEN rows[i].act
            ELSE rows[i].req
    IN  /\ job.at = "load"
        /\ job' = [job EXCEPT
             !.at = "apply",
             !.mem = [i \in Items |-> IF rows[i] = None THEN None
                                      ELSE [rows[i] EXCEPT !.act = actual(i)]],
             !.todo = WithRow(rows)]
        /\ UNCHANGED <<saleVars, rows, uncounted, revived, cut>> /\ Quiet

\* A cancelled item that is in the way of i moves to another container.
Evicted(i, to, other) ==
    [j \in Items |->
        IF j # i /\ items[j] # None /\ items[j].co = to /\ items[j].st = "CANCELLED"
        THEN [items[j] EXCEPT !.co = other] ELSE items[j]]

Clash(its, i, to) == \E j \in Existing(its) \ {i} : its[j].co = to

\* The item of the row moves to the actual container, which becomes the
\* requested one as well.  The database refuses a container that another item
\* has: the rest of the unloading is skipped.  other: the container found for
\* a cancelled item that is evicted.
Apply(i, other) ==
    LET row == job.mem[i]
        to == row.act
        from == items[i].co
        its == IF Clash(items, i, to) /\ other # None THEN Evicted(i, to, other) ELSE items
        taken == \E j, k \in Existing(its) : j # k /\ its[j].co = its[k].co
    IN  /\ job.at = "apply"
        /\ i \in job.todo /\ \A j \in job.todo : i <= j
        /\ IF items[i] = None THEN
              /\ other = None
              /\ job' = [job EXCEPT !.todo = @ \ {i}]
              /\ UNCHANGED <<items, rows, uncounted, cut>>
           ELSE
              /\ other # None => other \notin {to, from}
              /\ other = None => \/ from = to
                                 \/ \A j \in Existing(items) \ {i} :
                                       items[j].co = to => items[j].st # "CANCELLED"
                                 \/ Containers = {to, from}
              /\ other # None => /\ from # to
                                 /\ \E j \in Existing(items) \ {i} :
                                       items[j].co = to /\ items[j].st = "CANCELLED"
              /\ IF taken \/ Clash(its, i, to)
                 THEN CutShort /\ UNCHANGED <<items, rows, uncounted>>
                 ELSE /\ SetItems([its EXCEPT ![i].co = to], {})
                      /\ rows' = [rows EXCEPT ![i] = [row EXCEPT !.req = to]]
                      /\ job' = [job EXCEPT !.todo = @ \ {i},
                                            !.touched = @ \cup {row.req, to, from}]
                      /\ UNCHANGED cut
        /\ UNCHANGED <<sale, cancelled, billing, made, revived>> /\ Quiet

\* Items whose rows were removed, and live items that have no row, are
\* cancelled.
Settle ==
    LET applied == WithRow(job.mem)
        removed == (job.out \cup Live(items)) \ applied
    IN  /\ job.at = "apply" /\ job.todo = {}
        /\ SetItems([i \in Items |-> IF i \in removed \cap Existing(items)
                                     THEN [items[i] EXCEPT !.st = "CANCELLED"]
                                     ELSE items[i]], {})
        /\ job' = [job EXCEPT !.at = "complete", !.out = removed,
                              !.touched = @ \cup Held(items, removed \cap Existing(items))]
        /\ UNCHANGED <<sale, cancelled, billing, made, rows, revived, cut>> /\ Quiet

\* Mutated: only what was sold is completed.
CompleteSold ==
    /\ job.at = "complete"
    /\ SetItems([i \in Items |->
            IF i \in Existing(items) \ job.out /\ items[i].st = "SOLD"
            THEN [items[i] EXCEPT !.st = "COMPLETED"] ELSE items[i]], {})
    /\ job' = [job EXCEPT !.at = "recount"]
    /\ UNCHANGED <<sale, cancelled, billing, made, rows, revived, cut>> /\ Quiet

\* Every other item of the sale is completed, cancelled before or not.
Complete ==
    LET completed == Existing(items) \ job.out
    IN  /\ job.at = "complete"
        /\ SetItems([i \in Items |-> IF i \in completed
                                     THEN [items[i] EXCEPT !.st = "COMPLETED"]
                                     ELSE items[i]], {})
        /\ revived' = revived \cup (completed \ Live(items))
        /\ job' = [job EXCEPT !.at = "recount"]
        /\ UNCHANGED <<sale, cancelled, billing, made, rows, cut>> /\ Quiet

\* Mutated: the containers the items have now, not those they left.
RecountHeld(next) ==
    /\ uncounted' = uncounted \ Held(items, Existing(items))
    /\ missed' = missed \ Held(items, Existing(items))
    /\ job' = next

\* The containers the job touched; with none, those of all items.
Recount(next) ==
    LET counted == IF job.touched # {} THEN job.touched ELSE Held(items, Existing(items))
    IN  /\ uncounted' = uncounted \ counted
        /\ missed' = missed \ counted
        /\ job' = next

RecountUnloaded ==
    /\ job.at = "recount"
    /\ Recount([job EXCEPT !.at = "read"])
    /\ UNCHANGED <<saleVars, rows, revived, cut, overwritten>> /\ Apart

ReadBilled ==
    /\ job.at = "read"
    /\ job' = [job EXCEPT !.at = "bill", !.read = SaleNow]
    /\ UNCHANGED <<saleVars, rows, uncounted, revived, cut>> /\ Quiet

\* The sale is completed and waits for its invoice: it is saved as it was read but
\* for these two columns, unless it was so already.
Bill ==
    /\ job.at = "bill"
    /\ \/ /\ job.read.sale = "COMPLETED" /\ job.read.billing
          /\ UNCHANGED <<sale, cancelled, billing>>
       \/ /\ ~(job.read.sale = "COMPLETED" /\ job.read.billing)
          /\ sale' \in Saved("COMPLETED", job.read.sale, sale)
          /\ cancelled' \in Saved(job.read.cancelled, job.read.cancelled, cancelled)
          /\ billing' \in Saved(TRUE, job.read.billing, billing)
    /\ overwritten' = (reading # None \/ job.read # SaleNow)
    /\ job' = Idle /\ cut' = FALSE
    /\ UNCHANGED <<items, made, rows, uncounted, revived, missed>> /\ Apart

-----------------------------------------------------------------------------
(* An unloading undone: back to LOADED. *)

Restore ==
    /\ Open /\ delivery = "UNLOADED"
    /\ Start("LOADED", [Idle EXCEPT !.at = "undo", !.mem = rows, !.todo = WithRow(rows)])

\* Where the row still has two containers, the item goes back.
UndoRow(i) ==
    LET row == job.mem[i]
        back == row.act # None /\ row.req # row.act
    IN  /\ job.at = "undo"
        /\ i \in job.todo /\ \A j \in job.todo : i <= j
        /\ IF items[i] # None /\ back /\ Clash(items, i, row.req)
           THEN CutShort /\ UNCHANGED <<items, uncounted>>
           ELSE /\ SetItems(IF items[i] # None /\ back
                            THEN [items EXCEPT ![i].co = row.req] ELSE items, {})
                /\ job' = [job EXCEPT !.todo = @ \ {i},
                             !.touched = @ \cup (IF items[i] = None THEN {}
                                                 ELSE IF back THEN {row.req, row.act}
                                                 ELSE {items[i].co})]
                /\ UNCHANGED cut
        /\ UNCHANGED <<sale, cancelled, billing, made, rows, revived>> /\ Quiet

\* The rows are saved as they were read; their items are sold again, but not
\* the cancelled ones.
MarkSold ==
    LET read == WithRow(job.mem)
    IN  /\ job.at = "undo" /\ job.todo = {}
        /\ IF read \subseteq Existing(items)
           THEN /\ rows' = [i \in Items |-> IF i \in read THEN job.mem[i] ELSE rows[i]]
                /\ SetItems([i \in Items |-> IF i \in read \cap Live(items)
                                             THEN [items[i] EXCEPT !.st = "SOLD"]
                                             ELSE items[i]], {})
                /\ job' = [job EXCEPT !.at = "restore"]
                /\ UNCHANGED cut
           ELSE CutShort /\ UNCHANGED <<items, rows, uncounted>>
        /\ UNCHANGED <<sale, cancelled, billing, made, revived>> /\ Quiet

\* Mutated: the sale stays completed.
LeaveCompleted ==
    /\ job.at = "restore"
    /\ job' = [job EXCEPT !.at = "unbill"]
    /\ UNCHANGED <<saleVars, rows, uncounted, revived, cut>> /\ Quiet

\* A completed sale is sold again.
RestoreSale ==
    /\ job.at = "restore"
    /\ sale' = IF sale = "COMPLETED" THEN "SOLD" ELSE sale
    /\ job' = [job EXCEPT !.at = "unbill"]
    /\ UNCHANGED <<items, cancelled, billing, made, rows, uncounted, revived, cut>> /\ Quiet

\* Mutated: the invoice is still awaited.
LeaveBilled ==
    /\ job.at = "unbill"
    /\ job' = [job EXCEPT !.at = "reopen"]
    /\ UNCHANGED <<saleVars, rows, uncounted, revived, cut>> /\ Quiet

\* The sale no longer waits for an invoice; an error is swallowed.
ResetBilling ==
    /\ job.at = "unbill"
    /\ \/ billing' = FALSE /\ overwritten' = (reading # None) /\ UNCHANGED cut
       \/ cut' = TRUE /\ UNCHANGED <<billing, overwritten>>
    /\ job' = [job EXCEPT !.at = "reopen"]
    /\ UNCHANGED <<items, sale, cancelled, made, rows, uncounted, revived, missed>> /\ Apart

RecountRestored ==
    /\ job.at = "reopen"
    /\ Recount(Idle)
    /\ UNCHANGED <<saleVars, rows, revived, cut, overwritten>> /\ Apart

\* The server stops.
Crash ==
    /\ job.at # "idle"
    /\ CutShort
    /\ UNCHANGED <<saleVars, rows, uncounted, revived>> /\ Quiet

-----------------------------------------------------------------------------
SaleStep ==
    \/ ReadSale \/ RollBack
    \/ \E f \in [Listed -> Listed \cup {None}] : EditSale(f, None)
    \/ \E add \in Containers : EditSale([i \in Listed |-> i], add)
    \/ CancelSale \/ ToReservation
    \/ \E kept \in SUBSET Listed, add \in Containers \cup {None} : ConfirmSales(kept, add)

DeliveryStep ==
    \/ Dispatch \/ Load \/ DeleteDelivery \/ OpenForm
    \/ \E act \in [shown -> Containers \cup {None}], add \in Containers \cup {None} :
          Unload(act, add)
    \/ UnloadStatusOnly \/ Restore

JobStep ==
    \/ AddItem \/ Diff \/ LoadRows
    \/ \E i \in job.todo, other \in Containers \cup {None} : Apply(i, other)
    \/ Settle \/ Complete \/ RecountUnloaded \/ ReadBilled \/ Bill
    \/ \E i \in job.todo : UndoRow(i)
    \/ MarkSold \/ RestoreSale \/ ResetBilling \/ RecountRestored
    \/ Crash

Next == SaleStep \/ DeliveryStep \/ JobStep

Spec == Init /\ [][Next]_vars

-----------------------------------------------------------------------------
Settled == job.at = "idle" /\ ~cut

\* A sale waits for an invoice exactly while its delivery is unloaded, unless an
\* unloading, or its undoing, failed or was cut short, or a request about the sale
\* had it in memory when the last of them wrote the billing: that request saves the
\* old value.  Sale requests at any other moment of a job do no harm.
BilledIffUnloaded == Settled /\ ~overwritten => (billing <=> delivery = "UNLOADED")

\* The delivery has a row for every item that is live, for its container;
\* except for cancelled items an unloading completed.
RowsCoverSale ==
    Settled /\ ~mixed /\ ~deleted =>
        \A i \in Live(items) \ revived : rows[i] # None /\ rows[i].req = items[i].co

\* The status of the sale is that of its items; except that a sale that went
\* back to a reservation stays one when the old unloading of its delivery is
\* undone, which leaves its items sold.
StatusFollowsItems ==
    Settled /\ ~mixed /\ revived = {} =>
        \/ sale = SalesStatusOf(items, sale)
        \/ sale = "RESERVED" /\ SalesStatusOf(items, sale) = "SOLD" /\ delivery = "LOADED"

\* Containers whose items changed have been recounted.  There are three exceptions:
\* an item that a confirmation adds, a cancelled item that an unloading completes, and
\* what an earlier job left uncounted when the next began.  The last is not made good
\* by that next job: repeating an unloading that was cut short after it moved an item
\* recounts the container it moved to, the one it left stays wrong until a request
\* about an item in it.
StockCounted ==
    Settled /\ ~mixed => uncounted \subseteq missed \cup Held(items, revived)

\* An unloading that ends leaves each row with one container and its item
\* completed, in that container; except for cancelled items an unloading
\* completes, which another item may have evicted before.
UnloadingAgrees ==
    [][job.at = "bill" /\ job'.at = "idle" /\ ~cut' /\ ~mixed =>
         \A i \in WithRow(rows') :
            /\ items'[i] # None /\ items'[i].st = "COMPLETED"
            /\ rows'[i].req = rows'[i].act
            /\ items'[i].co = rows'[i].act \/ i \in revived']_vars

\* An item that an unloading excluded from the sale is not brought back by
\* another, once past the container its form adds.
ExcludedStaysOut ==
    [][~cancelled /\ job.at \in Unloading \ {"add"} /\ job' # job =>
         \A i \in Existing(items) \ Live(items) : i \notin Live(items')]_vars
================================================================================
