--------------------------- MODULE SaleDeliveryProofs ---------------------------
(***************************************************************************)
(* What holds of SaleDelivery for any number of containers, items and      *)
(* requests: its typing; that a sale waits for its invoice exactly while   *)
(* its delivery is unloaded; and that rows, items, status and inventory    *)
(* agree once no job runs.  Typing is not inductive alone: a step of a job *)
(* relies on the rows it has in memory having an actual container, and on  *)
(* every row having an item.  The agreement (AInv) needs what holds at     *)
(* every stage of a job: which rows have been applied, and where the       *)
(* container of a changed item is still to be found.                       *)
(***************************************************************************)
EXTENDS SaleDelivery, TLAPS

RowsHaveItems == WithRow(rows) \subseteq Existing(items)

\* What a job has in memory, and how the delivery stands while it runs.
JobInv ==
    /\ job.todo \subseteq WithRow(job.mem)
    /\ job.at \in {"add", "diff", "load", "apply"} =>
          \A i \in WithRow(job.mem) : job.mem[i].act # None
    /\ job.at = "add" => job.add # None
    /\ job.at \in Unloading => delivery = "UNLOADED"
    /\ job.at \in Restoring => delivery = "LOADED"
    /\ job.at = "bill" => job.read # None
    /\ job.at = "reopen" /\ ~cut /\ ~overwritten => ~billing
    /\ reading # None => reading.billing = billing \/ overwritten
    /\ BilledIffUnloaded

IInv == TypeOK /\ RowsHaveItems /\ JobInv

USE DEF Items

-----------------------------------------------------------------------------
(* The operators. *)

LEMMA ItemFacts ==
    ASSUME NEW item \in SalesItem, item # None
    PROVE  /\ item \in Item
           /\ item.co \in Containers /\ item.st \in ItemStatuses
           /\ \A st \in ItemStatuses : /\ [item EXCEPT !.st = st] \in Item
                                       /\ [item EXCEPT !.st = st] \in SalesItem
           /\ \A co \in Containers : /\ [item EXCEPT !.co = co] \in Item
                                     /\ [item EXCEPT !.co = co] \in SalesItem
  BY DEF SalesItem, Item

LEMMA RowFacts ==
    ASSUME NEW row \in Row, row # None
    PROVE  /\ row.req \in Containers /\ row.act \in Containers \cup {None}
           /\ row.op \in BOOLEAN
           /\ [row EXCEPT !.op = TRUE] \in Row
           /\ \A co \in Containers : /\ [row EXCEPT !.req = co] \in Row
                                     /\ [row EXCEPT !.op = TRUE, !.req = co] \in Row
           /\ \A co \in Containers \cup {None} : [row EXCEPT !.act = co] \in Row
  BY DEF Row, LoadingRow

LEMMA NewRowType ==
    ASSUME NEW co \in Containers
    PROVE  /\ NewRow(co) \in Row
           /\ [NewRow(co) EXCEPT !.op = TRUE] \in Row
           /\ [NewRow(co) EXCEPT !.op = FALSE] \in Row
           /\ [NewRow(co) EXCEPT !.act = co] \in Row
  BY DEF NewRow, Row, LoadingRow

LEMMA HeldType ==
    ASSUME NEW its \in [Items -> SalesItem], NEW S \in SUBSET Existing(its)
    PROVE  Held(its, S) \in SUBSET Containers
  BY ItemFacts DEF Held, Existing

LEMMA ChangedType ==
    ASSUME NEW its \in [Items -> SalesItem], NEW new \in [Items -> SalesItem]
    PROVE  Changed(its, new) \in SUBSET Containers
<1> DEFINE diff == {i \in Items : its[i] # new[i]}
<1>1. diff \cap Live(its) \in SUBSET Existing(its) /\ diff \cap Live(new) \in SUBSET Existing(new)
  BY DEF Live
<1> QED
  BY <1>1, HeldType DEF Changed

LEMMA SetItemsType ==
    ASSUME TypeOK, NEW new \in [Items -> SalesItem], NEW counted, SetItems(new, counted)
    PROVE  items' \in [Items -> SalesItem] /\ uncounted' \subseteq Containers
  BY ChangedType DEF TypeOK, SetItems

LEMMA StatusType ==
    ASSUME NEW its, NEW old \in SaleStatuses
    PROVE  SalesStatusOf(its, old) \in SaleStatuses
<1> DEFINE Has(st) == \E i \in Live(its) : its[i].st = st
<1> HIDE DEF Has
<1>1. SalesStatusOf(its, old) = IF Has("COMPLETED") THEN "COMPLETED"
                                ELSE IF Has("SOLD") THEN "SOLD"
                                ELSE IF Has("RESERVED") THEN "RESERVED" ELSE old
  BY DEF SalesStatusOf, Has
<1> QED
  BY <1>1 DEF SaleStatuses

LEMMA SavedIn ==
    ASSUME NEW T, NEW value \in T, NEW now \in T, NEW read, NEW x \in Saved(value, read, now)
    PROVE  x \in T
  BY DEF Saved

\* With nothing written since the selection, the entity is what the row becomes.
LEMMA SavedAlone ==
    ASSUME NEW value, NEW now, NEW x \in Saved(value, now, now)
    PROVE  x = value
  BY DEF Saved

LEMMA ReadFacts ==
    ASSUME NEW r \in SaleRow \cup {None}, r # None
    PROVE  r.sale \in SaleStatuses /\ r.cancelled \in BOOLEAN /\ r.billing \in BOOLEAN
  BY DEF SaleRow

LEMMA SaleNowType ==
    ASSUME TypeOK
    PROVE  /\ SaleNow \in SaleRow /\ SaleNow # None
           /\ SaleNow.sale = sale /\ SaleNow.cancelled = cancelled /\ SaleNow.billing = billing
  BY SaleAssumption DEF TypeOK, SaleNow, SaleRow

LEMMA RowsForType ==
    ASSUME TypeOK, NEW its \in [Items -> SalesItem]
    PROVE  /\ RowsFor(its) \in [Items -> Row]
           /\ WithRow(RowsFor(its)) \subseteq Existing(its)
<1>1. None \in Row
  BY DEF Row, LoadingRow
<1>2. ASSUME NEW i \in Items, i \in Live(its)
      PROVE  NewRow(its[i].co) \in Row
             /\ (rows[i] # None => [rows[i] EXCEPT !.req = its[i].co] \in Row)
  BY <1>2, ItemFacts, RowFacts, NewRowType DEF Live, Existing, TypeOK
<1>3. \A i \in Items : RowsFor(its)[i] \in Row
  BY <1>1, <1>2 DEF RowsFor, TypeOK
<1>4. \A i \in Items : RowsFor(its)[i] # None => i \in Existing(its)
  BY DEF RowsFor, Live
<1>5. RowsFor(its) = [i \in Items |-> RowsFor(its)[i]]
  BY DEF RowsFor
<1> QED
  BY <1>3, <1>4, <1>5 DEF WithRow

-----------------------------------------------------------------------------
(* Requests about the sale leave the job and the delivery's status alone. *)

LEMMA RequestType ==
    ASSUME TypeOK, Request
    PROVE  requests' \in 0 .. MaxRequests
  BY SaleAssumption DEF TypeOK, Request

LEMMA ReadSaleKeeps ==
    ASSUME IInv, ReadSale
    PROVE  IInv'
<1>1. /\ reading' = SaleNow /\ Request /\ mixed' = (mixed \/ job.at # "idle")
      /\ UNCHANGED <<items, sale, cancelled, billing, made, rows, delivery, deleted, shown, job,
                     uncounted, revived, missed, cut, overwritten>>
  BY DEF ReadSale, saleVars
<1>2. TypeOK'
  BY <1>1, RequestType, SaleNowType DEF IInv, TypeOK
<1>3. JobInv'
  BY <1>1, SaleNowType DEF IInv, JobInv, BilledIffUnloaded, Settled, WithRow
<1> QED
  BY <1>1, <1>2, <1>3 DEF IInv, RowsHaveItems, WithRow, Existing

LEMMA RollBackKeeps ==
    ASSUME IInv, RollBack
    PROVE  IInv'
<1>1. /\ reading' = None
      /\ UNCHANGED <<items, sale, cancelled, billing, made, rows, delivery, deleted, shown, job,
                     requests, uncounted, revived, missed, cut, mixed, overwritten>>
  BY DEF RollBack, saleVars, historyVars
<1>2. TypeOK'
  BY <1>1 DEF IInv, TypeOK
<1>3. JobInv'
  BY <1>1 DEF IInv, JobInv, BilledIffUnloaded, Settled, WithRow
<1> QED
  BY <1>1, <1>2, <1>3 DEF IInv, RowsHaveItems, WithRow, Existing

LEMMA CommitType ==
    ASSUME IInv, NEW status \in SaleStatuses, NEW cancel \in BOOLEAN, Commit(status, cancel)
    PROVE  /\ reading # None /\ reading' = None /\ reading.sale \in SaleStatuses
           /\ sale' \in SaleStatuses /\ cancelled' \in BOOLEAN /\ billing' \in BOOLEAN
           /\ billing' = billing \/ overwritten
<1>1. /\ reading # None /\ reading' = None
      /\ sale' \in Saved(status, reading.sale, sale)
      /\ cancelled' \in Saved(reading.cancelled \/ cancel, reading.cancelled, cancelled)
      /\ billing' \in Saved(reading.billing, reading.billing, billing)
  BY DEF Commit
<1>2. reading.sale \in SaleStatuses /\ reading.cancelled \in BOOLEAN /\ reading.billing \in BOOLEAN
  BY <1>1, ReadFacts DEF IInv, TypeOK
<1>3. sale \in SaleStatuses /\ cancelled \in BOOLEAN /\ billing \in BOOLEAN
  BY DEF IInv, TypeOK
<1>4. (reading.cancelled \/ cancel) \in BOOLEAN
  BY <1>2
<1>5. sale' \in SaleStatuses
  BY <1>1, <1>3, SavedIn
<1>6. cancelled' \in BOOLEAN
  BY <1>1, <1>3, <1>4, SavedIn
<1>7. billing' \in BOOLEAN
  BY <1>1, <1>2, <1>3, SavedIn
<1>8. reading.billing = billing => billing' = billing
  BY <1>1, SavedAlone
<1> QED
  BY <1>1, <1>2, <1>5, <1>6, <1>7, <1>8 DEF IInv, JobInv

LEMMA SaleRequestKeeps ==
    ASSUME IInv, NEW status \in SaleStatuses, NEW cancel \in BOOLEAN, Commit(status, cancel),
           NEW new \in [Items -> SalesItem], NEW counted, SetItems(new, counted),
           rows' = RowsFor(new), deleted' \in BOOLEAN,
           made' \in 0 .. MaxItems, missed' \subseteq Containers
    PROVE  IInv'
<1>1. items' \in [Items -> SalesItem] /\ uncounted' \subseteq Containers /\ items' = new
  BY SetItemsType DEF IInv, SetItems
<1>2. rows' \in [Items -> Row] /\ RowsHaveItems'
  BY <1>1, RowsForType DEF IInv, RowsHaveItems
<1>3. /\ reading' = None /\ revived' = {} /\ (billing' = billing \/ overwritten)
      /\ sale' \in SaleStatuses /\ cancelled' \in BOOLEAN /\ billing' \in BOOLEAN
      /\ UNCHANGED <<delivery, shown, job, requests, cut, mixed, overwritten>>
  BY CommitType DEF Commit
<1>4. TypeOK'
  BY <1>1, <1>2, <1>3 DEF IInv, TypeOK
<1>5. JobInv'
  BY <1>3 DEF IInv, JobInv, BilledIffUnloaded, Settled, WithRow
<1> QED
  BY <1>2, <1>4, <1>5 DEF IInv

LEMMA NextItem ==
    ASSUME TypeOK, NEW add, NEW kept, Addable(add, kept),
           made' = IF add = None THEN made ELSE made + 1
    PROVE  made' \in 0 .. MaxItems
  BY SaleAssumption DEF TypeOK, Addable

LEMMA EditedType ==
    ASSUME TypeOK, NEW f \in [Listed -> Listed \cup {None}], NEW add \in Containers \cup {None}
    PROVE  Edited(f, add) \in [Items -> SalesItem]
<1>1. Listed \subseteq Items
  BY DEF Listed, Existing, Live
<1>2. \A i \in Items : i \in Listed /\ f[i] # None => items[f[i]] \in SalesItem
  BY <1>1 DEF TypeOK
<1>3. add # None => [co |-> add, st |-> "SOLD"] \in SalesItem
  BY DEF SalesItem, Item, ItemStatuses
<1>4. None \in SalesItem
  BY DEF SalesItem
<1> QED
  BY <1>2, <1>3, <1>4 DEF Edited, Added

LEMMA UpdateSaleKeeps ==
    ASSUME IInv, NEW new \in [Items -> SalesItem], UpdateSale(new),
           NEW status \in SaleStatuses, NEW cancel \in BOOLEAN, Commit(status, cancel),
           rows' = RowsFor(new), deleted' \in BOOLEAN, made' \in 0 .. MaxItems
    PROVE  IInv'
<1> DEFINE counted == Held(items, Existing(items)) \cup Held(new, Existing(new))
<1>1. SetItems(new, counted) /\ missed' = missed \ counted
  BY DEF UpdateSale
<1> HIDE DEF counted
<1>2. missed' \subseteq Containers
  BY <1>1 DEF IInv, TypeOK
<1> QED
  BY <1>1, <1>2, SaleRequestKeeps

LEMMA EditSaleKeeps ==
    ASSUME IInv, NEW f \in [Listed -> Listed \cup {None}],
           NEW add \in Containers \cup {None}, EditSale(f, add)
    PROVE  IInv'
<1> DEFINE new == Edited(f, add)
           status == SalesStatusOf(new, reading.sale)
           cancel == Existing(new) # {} /\ Live(new) = {}
<1>1. new \in [Items -> SalesItem]
  BY EditedType DEF IInv
<1>2. /\ UpdateSale(new) /\ rows' = RowsFor(new)
      /\ deleted' = (deleted /\ Live(new) = {})
      /\ Commit(status, cancel)
  BY DEF EditSale, CreateFromSales
<1>3. made' \in 0 .. MaxItems
  BY NextItem DEF EditSale, IInv
<1> HIDE DEF new
<1>4. status \in SaleStatuses
  BY <1>2, ReadFacts, StatusType DEF IInv, TypeOK, Commit
<1>5. cancel \in BOOLEAN /\ deleted' \in BOOLEAN
  BY <1>2 DEF IInv, TypeOK
<1> QED
  BY <1>1, <1>2, <1>3, <1>4, <1>5, UpdateSaleKeeps

LEMMA CancelSaleKeeps ==
    ASSUME IInv, CancelSale
    PROVE  IInv'
<1> DEFINE new == [i \in Items |-> IF i \in Listed
                                THEN [items[i] EXCEPT !.st = "CANCELLED"] ELSE None]
<1>1. new \in [Items -> SalesItem]
  <2>1. \A i \in Items : i \in Listed => [items[i] EXCEPT !.st = "CANCELLED"] \in SalesItem
    BY ItemFacts DEF IInv, TypeOK, Listed, Live, Existing, ItemStatuses
  <2>2. None \in SalesItem
    BY DEF SalesItem
  <2> QED
    BY <2>1, <2>2
<1>2. /\ UpdateSale(new) /\ rows' = RowsFor(new)
      /\ deleted' = (deleted /\ Live(new) = {})
      /\ Commit(reading.sale, TRUE) /\ made' = made
  BY DEF CancelSale, CreateFromSales
<1> HIDE DEF new
<1>3. reading.sale \in SaleStatuses /\ deleted' \in BOOLEAN /\ made' \in 0 .. MaxItems
  BY <1>2, ReadFacts DEF IInv, TypeOK, Commit
<1> QED
  BY <1>1, <1>2, <1>3, UpdateSaleKeeps

LEMMA ToReservationKeeps ==
    ASSUME IInv, ToReservation
    PROVE  IInv'
<1> DEFINE new == [i \in Items |-> IF i \in Live(items)
                                THEN [items[i] EXCEPT !.st = "RESERVED"] ELSE None]
           reserving == \E i \in Existing(items) : items[i].st = "SOLD"
<1>1. new \in [Items -> SalesItem]
  <2>1. \A i \in Items : i \in Live(items) => [items[i] EXCEPT !.st = "RESERVED"] \in SalesItem
    BY ItemFacts DEF IInv, TypeOK, Live, Existing, ItemStatuses
  <2>2. None \in SalesItem
    BY DEF SalesItem
  <2> QED
    BY <2>1, <2>2
<1>2. /\ UpdateSale(new) /\ rows' = RowsFor(new)
      /\ deleted' = ((deleted /\ Live(new) = {}) \/
                       (reserving /\ Live(new) # {} /\ ~deleted))
      /\ Commit(SalesStatusOf(new, reading.sale), FALSE) /\ made' = made
  BY DEF ToReservation
<1> HIDE DEF new, reserving
<1>3. /\ SalesStatusOf(new, reading.sale) \in SaleStatuses /\ deleted' \in BOOLEAN
      /\ made' \in 0 .. MaxItems
  BY <1>2, ReadFacts, StatusType DEF IInv, TypeOK, Commit
<1> QED
  BY <1>1, <1>2, <1>3, UpdateSaleKeeps

LEMMA ConfirmSalesKeeps ==
    ASSUME IInv, NEW kept \in SUBSET Listed, NEW add \in Containers \cup {None},
           ConfirmSales(kept, add)
    PROVE  IInv'
<1> DEFINE new == [i \in Items |->
                    IF i \in kept THEN [items[i] EXCEPT !.st = "SOLD"]
                    ELSE IF Added(i, add) THEN [co |-> add, st |-> "SOLD"]
                    ELSE None]
           counted == Held(items, Existing(items))
<1>1. new \in [Items -> SalesItem]
  <2>1. \A i \in Items : i \in kept => [items[i] EXCEPT !.st = "SOLD"] \in SalesItem
    BY ItemFacts DEF IInv, TypeOK, Listed, Live, Existing, ItemStatuses
  <2>2. add # None => [co |-> add, st |-> "SOLD"] \in SalesItem
    BY DEF SalesItem, Item, ItemStatuses
  <2>3. None \in SalesItem
    BY DEF SalesItem
  <2> QED
    BY <2>1, <2>2, <2>3 DEF Added
<1>2. /\ Commit("SOLD", FALSE) /\ SetItems(new, counted) /\ rows' = RowsFor(new)
      /\ deleted' = (deleted /\ Live(new) = {})
      /\ missed' = (missed \ counted) \cup ({add} \ {None})
  BY DEF ConfirmSales, CreateFromSales
<1>3. made' \in 0 .. MaxItems
  BY NextItem DEF ConfirmSales, IInv
<1> HIDE DEF new, counted
<1>4. "SOLD" \in SaleStatuses /\ deleted' \in BOOLEAN /\ missed' \subseteq Containers
  BY <1>2 DEF IInv, TypeOK, SaleStatuses
<1> QED
  BY <1>1, <1>2, <1>3, <1>4, SaleRequestKeeps

-----------------------------------------------------------------------------
(* The delivery. *)

LEMMA DispatchKeeps ==
    ASSUME IInv, Dispatch
    PROVE  IInv'
<1> DEFINE new == [i \in Items |-> IF rows[i] = None \/ items[i] = None THEN rows[i]
                                ELSE [rows[i] EXCEPT !.op = TRUE, !.req = items[i].co]]
<1>1. /\ rows' = new /\ delivery' = "DISPATCHED" /\ delivery = "PENDING" /\ Request
      /\ UNCHANGED <<items, sale, cancelled, billing, made, deleted, shown, job,
                     reading, uncounted, revived, missed, cut, mixed, overwritten>>
  BY DEF Dispatch, saleVars, historyVars
<1>2. new \in [Items -> Row]
  BY RowFacts, ItemFacts DEF IInv, TypeOK
<1>3. \A i \in Items : new[i] # None => rows[i] # None
  OBVIOUS
<1> HIDE DEF new
<1>4. RowsHaveItems'
  BY <1>1, <1>2, <1>3 DEF IInv, RowsHaveItems, WithRow, Existing
<1>5. TypeOK'
  BY <1>1, <1>2, RequestType DEF IInv, TypeOK, DeliveryStatuses
<1>6. JobInv'
  BY <1>1 DEF IInv, JobInv, BilledIffUnloaded, Settled, Dispatch, Open, Unloading, Restoring
<1> QED
  BY <1>4, <1>5, <1>6 DEF IInv

LEMMA LoadKeeps ==
    ASSUME IInv, Load
    PROVE  IInv'
<1> DEFINE new == [i \in Items |-> IF rows[i] = None THEN None
                                ELSE [rows[i] EXCEPT !.op = TRUE]]
<1>1. /\ rows' = new /\ delivery' = "LOADED" /\ delivery = "DISPATCHED" /\ Request
      /\ UNCHANGED <<items, sale, cancelled, billing, made, deleted, shown, job,
                     reading, uncounted, revived, missed, cut, mixed, overwritten>>
  BY DEF Load, saleVars, historyVars
<1>2. new \in [Items -> Row]
  BY RowFacts DEF IInv, TypeOK, Row, LoadingRow
<1>3. \A i \in Items : new[i] # None => rows[i] # None
  OBVIOUS
<1> HIDE DEF new
<1>4. RowsHaveItems'
  BY <1>1, <1>2, <1>3 DEF IInv, RowsHaveItems, WithRow, Existing
<1>5. TypeOK'
  BY <1>1, <1>2, RequestType DEF IInv, TypeOK, DeliveryStatuses
<1>6. JobInv'
  BY <1>1 DEF IInv, JobInv, BilledIffUnloaded, Settled, Load, Open, Unloading, Restoring
<1> QED
  BY <1>4, <1>5, <1>6 DEF IInv

LEMMA DeleteDeliveryKeeps ==
    ASSUME IInv, DeleteDelivery
    PROVE  IInv'
<1>1. /\ deleted' = TRUE /\ Request
      /\ UNCHANGED <<items, sale, cancelled, billing, made, rows, delivery, shown, job,
                     reading, uncounted, revived, missed, cut, mixed, overwritten>>
  BY DEF DeleteDelivery, saleVars, historyVars
<1>2. TypeOK'
  BY <1>1, RequestType DEF IInv, TypeOK
<1> QED
  BY <1>1, <1>2 DEF IInv, RowsHaveItems, WithRow, Existing, JobInv, BilledIffUnloaded, Settled

LEMMA OpenFormKeeps ==
    ASSUME IInv, OpenForm
    PROVE  IInv'
<1>1. /\ shown' \subseteq Items
      /\ UNCHANGED <<items, sale, cancelled, billing, made, rows, delivery, deleted, job,
                     reading, requests, uncounted, revived, missed, cut, mixed, overwritten>>
  BY DEF OpenForm, saleVars, historyVars, WithRow
<1>2. TypeOK'
  BY <1>1 DEF IInv, TypeOK
<1> QED
  BY <1>1, <1>2 DEF IInv, RowsHaveItems, WithRow, Existing, JobInv, BilledIffUnloaded, Settled

\* A job begins.
LEMMA StartKeeps ==
    ASSUME IInv, NEW status \in {"LOADED", "UNLOADED"}, NEW j \in Job, Start(status, j),
           j.todo \subseteq WithRow(j.mem),
           j.at \in {"add", "diff", "load", "apply"} =>
               \A i \in WithRow(j.mem) : j.mem[i].act # None,
           j.at = "add" => j.add # None,
           \/ status = "UNLOADED" /\ j.at \in {"add", "diff", "load"}
           \/ status = "LOADED" /\ j.at = "undo"
    PROVE  IInv'
<1>1. /\ delivery' = status /\ job' = j /\ Request
      /\ mixed' = (reading # None \/ (mixed /\ status # "UNLOADED"))
      /\ missed' = missed \cup uncounted
      /\ UNCHANGED <<items, sale, cancelled, billing, made, rows, deleted, shown, reading,
                     uncounted, revived, cut, overwritten>>
  BY DEF Start, saleVars
<1>2. TypeOK'
  BY <1>1, RequestType DEF IInv, TypeOK, DeliveryStatuses
<1>3. RowsHaveItems'
  BY <1>1 DEF IInv, RowsHaveItems, WithRow, Existing
<1>4. JobInv'
  BY <1>1 DEF IInv, JobInv, Unloading, Restoring, BilledIffUnloaded, Settled, WithRow
<1> QED
  BY <1>2, <1>3, <1>4 DEF IInv

LEMMA NoRowsType == NoRows \in [Items -> Row] /\ WithRow(NoRows) = {}
  BY DEF NoRows, Row, LoadingRow, WithRow

LEMMA IdleType == Idle \in Job
  BY NoRowsType DEF Idle, Job, Stages

LEMMA UnloadKeeps ==
    ASSUME IInv, NEW act \in [shown -> Containers \cup {None}],
           NEW add \in Containers \cup {None}, Unload(act, add)
    PROVE  IInv'
<1> DEFINE kept == {i \in shown : act[i] # None}
           mem == [i \in Items |-> IF i \notin kept THEN None ELSE
                               [op |-> FALSE, req |-> act[i], act |-> act[i]]]
           j == [Idle EXCEPT !.at = IF add = None THEN "diff" ELSE "add",
                             !.mem = mem, !.add = add]
<1>1. Start("UNLOADED", j)
  BY DEF Unload
<1>2. mem \in [Items -> Row]
  BY DEF Row, LoadingRow, IInv, TypeOK
<1>3. \A i \in WithRow(mem) : mem[i].act # None
  BY DEF WithRow
<1> HIDE DEF mem
<1>4. /\ j \in Job /\ j.todo = {} /\ j.mem = mem /\ j.add = add
      /\ j.at \in {"add", "diff"} /\ (j.at = "add" => add # None)
  BY <1>2, IdleType DEF Idle, Job, Stages, Unloading
<1> HIDE DEF j
<1> QED
  BY <1>1, <1>3, <1>4, StartKeeps

LEMMA UnloadStatusOnlyKeeps ==
    ASSUME IInv, UnloadStatusOnly
    PROVE  IInv'
<1> DEFINE j == [Idle EXCEPT !.at = "load"]
<1>1. Start("UNLOADED", j)
  BY DEF UnloadStatusOnly
<1>2. j \in Job /\ j.todo = {} /\ WithRow(j.mem) = {} /\ j.at = "load"
  BY IdleType, NoRowsType DEF Idle, Job, Stages, Unloading
<1> HIDE DEF j
<1> QED
  BY <1>1, <1>2, StartKeeps

LEMMA RestoreKeeps ==
    ASSUME IInv, Restore
    PROVE  IInv'
<1> DEFINE j == [Idle EXCEPT !.at = "undo", !.mem = rows, !.todo = WithRow(rows)]
<1>1. Start("LOADED", j)
  BY DEF Restore
<1>2. j \in Job /\ j.todo = WithRow(j.mem) /\ j.at = "undo"
  BY IdleType DEF Idle, Job, Stages, Restoring, IInv, TypeOK, WithRow
<1> HIDE DEF j
<1> QED
  BY <1>1, <1>2, StartKeeps

-----------------------------------------------------------------------------
(* The steps of a job. *)

LEMMA JobStepTyped ==
    ASSUME IInv, Apart, items' \in [Items -> SalesItem], rows' \in [Items -> Row],
           RowsHaveItems', uncounted' \subseteq Containers, made' \in 0 .. MaxItems,
           sale' \in SaleStatuses, billing' \in BOOLEAN, cancelled' \in BOOLEAN,
           revived' \subseteq Items, cut' \in BOOLEAN, missed' \subseteq Containers,
           overwritten' \in BOOLEAN, job' \in Job, JobInv'
    PROVE  IInv'
<1>1. UNCHANGED <<delivery, deleted, shown, reading, requests, mixed>>
  BY DEF Apart
<1>2. TypeOK'
  BY <1>1 DEF IInv, TypeOK
<1> QED
  BY <1>2 DEF IInv

LEMMA JobStepKeeps ==
    ASSUME IInv, Quiet, items' \in [Items -> SalesItem], rows' \in [Items -> Row],
           RowsHaveItems', uncounted' \subseteq Containers, made' \in 0 .. MaxItems,
           sale' \in SaleStatuses, billing' \in BOOLEAN, cancelled' = cancelled,
           revived' \subseteq Items, cut' \in BOOLEAN, job' \in Job, JobInv'
    PROVE  IInv'
<1>1. /\ Apart /\ missed' \subseteq Containers /\ overwritten' \in BOOLEAN
      /\ cancelled' \in BOOLEAN
  BY DEF Quiet, Apart, IInv, TypeOK
<1> QED
  BY <1>1, JobStepTyped

LEMMA CutShortInv ==
    ASSUME IInv, CutShort, UNCHANGED <<billing, reading, overwritten>>
    PROVE  job' \in Job /\ cut' \in BOOLEAN /\ JobInv'
<1>1. job' = Idle /\ cut' = TRUE
  BY DEF CutShort
<1>2. /\ Idle.at = "idle" /\ Idle.todo = {}
  BY DEF Idle
<1> QED
  BY <1>1, <1>2, IdleType DEF IInv, JobInv, Unloading, Restoring, BilledIffUnloaded, Settled

\* A step that leaves the memory of the job and what is billed alone.
LEMMA StageKeeps ==
    ASSUME IInv, NEW j \in Job, job' = j, j.mem = job.mem, j.todo \subseteq job.todo,
           UNCHANGED <<delivery, billing, reading, overwritten>>,
           \/ job.at = "add" /\ j.at = "diff"
           \/ job.at = "diff" /\ j.at = "load"
           \/ job.at = "apply" /\ j.at \in {"apply", "complete"}
           \/ job.at = "complete" /\ j.at = "recount"
           \/ job.at = "recount" /\ j.at = "read"
           \/ job.at = "undo" /\ j.at \in {"undo", "restore"}
           \/ job.at = "restore" /\ j.at = "unbill"
    PROVE  JobInv'
  BY DEF IInv, JobInv, Unloading, Restoring, BilledIffUnloaded, Settled, WithRow

\* Items that change but stay.
LEMMA ItemsStay ==
    ASSUME IInv, NEW new \in [Items -> SalesItem], NEW counted, SetItems(new, counted),
           \A i \in Items : items[i] # None => new[i] # None
    PROVE  /\ items' \in [Items -> SalesItem] /\ uncounted' \subseteq Containers
           /\ items' = new
           /\ \A rs \in [Items -> Row] :
                 rows' = rs /\ WithRow(rs) \subseteq Existing(items) => RowsHaveItems'
<1>1. items' \in [Items -> SalesItem] /\ uncounted' \subseteq Containers /\ items' = new
  BY SetItemsType DEF IInv, SetItems
<1>2. Existing(items) \subseteq Existing(new)
  BY DEF Existing
<1> QED
  BY <1>1, <1>2 DEF RowsHaveItems

\* Only the statuses of some items that exist change.
LEMMA MarkedType ==
    ASSUME TypeOK, NEW S \in SUBSET Existing(items), NEW st \in ItemStatuses
    PROVE  LET new == [i \in Items |-> IF i \in S THEN [items[i] EXCEPT !.st = st]
                                      ELSE items[i]]
           IN  /\ new \in [Items -> SalesItem]
               /\ \A i \in Items : items[i] # None => new[i] # None
<1>1. \A i \in Items : i \in S => /\ [items[i] EXCEPT !.st = st] \in SalesItem
                                  /\ [items[i] EXCEPT !.st = st] # None
  BY ItemFacts, SaleAssumption DEF TypeOK, Existing
<1> QED
  BY <1>1 DEF TypeOK

LEMMA AddItemKeeps ==
    ASSUME IInv, AddItem
    PROVE  IInv'
<1> DEFINE holders == {i \in Existing(items) : items[i].co = job.add}
           S == holders \ Live(items)
           new == [i \in Items |-> IF i \in S THEN [items[i] EXCEPT !.st = "COMPLETED"]
                                  ELSE items[i]]
           made1 == [items EXCEPT ![made + 1] = [co |-> job.add, st |-> "COMPLETED"]]
           j == [job EXCEPT !.at = "diff"]
<1>1. job.add \in Containers
  BY DEF AddItem, IInv, JobInv, TypeOK, Job
<1>2. j \in Job /\ j.mem = job.mem /\ j.todo = job.todo /\ j.at = "diff"
  BY DEF IInv, TypeOK, Job, Stages, Unloading
<1>3. /\ job.at = "add" /\ job' = j /\ Quiet
      /\ UNCHANGED <<sale, cancelled, billing, rows, revived, cut>>
      /\ \/ made < MaxItems /\ made' = made + 1 /\ SetItems(made1, {})
         \/ made' = made /\ SetItems(new, {})
  BY DEF AddItem
<1>4. new \in [Items -> SalesItem] /\ \A i \in Items : items[i] # None => new[i] # None
  <2>1. S \in SUBSET Existing(items) /\ "COMPLETED" \in ItemStatuses
    BY DEF ItemStatuses
  <2> HIDE DEF S
  <2> QED
    BY <2>1, MarkedType DEF IInv
<1>5. made1 \in [Items -> SalesItem] /\ \A i \in Items : items[i] # None => made1[i] # None
  <2>1. [co |-> job.add, st |-> "COMPLETED"] \in Item
    BY <1>1 DEF Item, ItemStatuses
  <2> QED
    BY <2>1, SaleAssumption DEF IInv, TypeOK, SalesItem
<1> HIDE DEF j, new, made1
<1>6. JobInv'
  BY <1>2, <1>3, StageKeeps DEF Quiet, Apart
<1>7. made' \in 0 .. MaxItems
  BY <1>3, SaleAssumption DEF IInv, TypeOK
<1>8. items' \in [Items -> SalesItem] /\ uncounted' \subseteq Containers /\ RowsHaveItems'
  BY <1>3, <1>4, <1>5, ItemsStay DEF IInv, TypeOK, RowsHaveItems
<1> QED
  BY <1>2, <1>3, <1>6, <1>7, <1>8, JobStepKeeps DEF IInv, TypeOK

LEMMA DiffKeeps ==
    ASSUME IInv, Diff
    PROVE  IInv'
<1> DEFINE kept == WithRow(job.mem)
           adds == {i \in Live(items) : job.add # None /\ items[i].co = job.add}
           gone == WithRow(rows) \ kept
           act(i) == [op |-> rows[i] # None /\ rows[i].op,
                      req |-> IF rows[i] = None THEN job.mem[i].act ELSE rows[i].req,
                      act |-> job.mem[i].act]
           newRows == [i \in Items |->
                      IF i \in kept /\ (rows[i] # None \/ i \in Live(items)) THEN act(i)
                      ELSE IF i \in adds \ kept
                           THEN [NewRow(job.add) EXCEPT !.act = job.add]
                      ELSE None]
           new == [i \in Items |->
                      IF i \in gone THEN [items[i] EXCEPT !.st = "CANCELLED"]
                      ELSE items[i]]
           j == [job EXCEPT !.at = "load", !.out = gone]
<1>1. /\ job.at = "diff" /\ Quiet
      /\ UNCHANGED <<sale, cancelled, billing, made, revived>>
      /\ \/ /\ kept \subseteq Existing(items) /\ rows' = newRows
            /\ SetItems(new, {}) /\ job' = j /\ cut' = cut
         \/ CutShort /\ UNCHANGED <<items, rows, uncounted>>
  BY DEF Diff
<1>2. CASE CutShort /\ UNCHANGED <<items, rows, uncounted>>
  BY <1>1, <1>2, CutShortInv, JobStepKeeps DEF Quiet, Apart, IInv, TypeOK, RowsHaveItems, WithRow, Existing
<1>3. CASE /\ kept \subseteq Existing(items) /\ rows' = newRows
           /\ SetItems(new, {}) /\ job' = j /\ cut' = cut
  <2>1. new \in [Items -> SalesItem] /\ \A i \in Items : items[i] # None => new[i] # None
    <3>1. gone \in SUBSET Existing(items) /\ "CANCELLED" \in ItemStatuses
      BY DEF IInv, RowsHaveItems, ItemStatuses
    <3> HIDE DEF gone
    <3> QED
      BY <3>1, MarkedType DEF IInv
  <2>2. \A i \in Items : i \in kept => act(i) \in Row
    BY <1>1, RowFacts DEF IInv, TypeOK, Job, JobInv, WithRow, Row, LoadingRow
  <2>3. adds # {} => [NewRow(job.add) EXCEPT !.act = job.add] \in Row
    BY NewRowType DEF IInv, TypeOK, Job
  <2>4. None \in Row
    BY DEF Row, LoadingRow
  <2>5. adds \subseteq Existing(items)
    BY DEF Live
  <2>6. j \in Job /\ j.mem = job.mem /\ j.todo = job.todo /\ j.at = "load"
    BY DEF IInv, TypeOK, Job, Stages, Unloading, WithRow
  <2> HIDE DEF kept, adds, act, new, j
  <2>7. newRows \in [Items -> Row] /\ \A i \in Items : newRows[i] # None => i \in kept \cup adds
    BY <2>2, <2>3, <2>4
  <2> HIDE DEF newRows
  <2>8. WithRow(newRows) \subseteq Existing(items)
    BY <1>3, <2>5, <2>7 DEF WithRow
  <2>9. items' \in [Items -> SalesItem] /\ uncounted' \subseteq Containers /\ RowsHaveItems'
    BY <1>3, <2>1, <2>7, <2>8, ItemsStay
  <2>10. JobInv'
    BY <1>1, <1>3, <2>6, StageKeeps DEF Quiet, Apart
  <2> QED
    BY <1>1, <1>3, <2>6, <2>7, <2>9, <2>10, JobStepKeeps DEF IInv, TypeOK
<1> QED
  BY <1>1, <1>2, <1>3

LEMMA LoadRowsKeeps ==
    ASSUME IInv, LoadRows
    PROVE  IInv'
<1> DEFINE statusOnly == WithRow(job.mem) = {} /\ job.add = None
           actual(i) ==
              IF job.mem[i] # None THEN job.mem[i].act
              ELSE IF statusOnly /\ rows[i].act # None THEN rows[i].act
              ELSE rows[i].req
           mem == [i \in Items |-> IF rows[i] = None THEN None
                                  ELSE [rows[i] EXCEPT !.act = actual(i)]]
           j == [job EXCEPT !.at = "apply", !.mem = mem, !.todo = WithRow(rows)]
<1>1. /\ job.at = "load" /\ Quiet /\ job' = j
      /\ UNCHANGED <<items, sale, cancelled, billing, made, rows, uncounted, revived, cut>>
  BY DEF LoadRows, saleVars
<1>2. \A i \in Items : rows[i] # None => actual(i) \in Containers
  <2> SUFFICES ASSUME NEW i \in Items, rows[i] # None PROVE actual(i) \in Containers
    OBVIOUS
  <2>1. CASE job.mem[i] # None
    BY <1>1, <2>1, RowFacts DEF IInv, TypeOK, Job, JobInv, WithRow
  <2>2. CASE job.mem[i] = None
    BY <2>2, RowFacts DEF IInv, TypeOK
  <2> QED
    BY <2>1, <2>2
<1> HIDE DEF actual
<1>3. mem \in [Items -> Row]
  BY <1>2, RowFacts DEF IInv, TypeOK, Row, LoadingRow
<1>4. ASSUME NEW i \in Items, rows[i] # None
      PROVE  mem[i] # None /\ mem[i].act # None
  <2>1. rows[i] \in LoadingRow
    BY <1>4 DEF IInv, TypeOK, Row, LoadingRow
  <2>2. mem[i] = [rows[i] EXCEPT !.act = actual(i)]
    BY <1>4
  <2>3. mem[i] \in [op : BOOLEAN, req : Containers, act : Containers] /\ mem[i].act \in Containers
    BY <1>2, <1>4, <2>1, <2>2 DEF LoadingRow
  <2> QED
    BY <2>3, SaleAssumption DEF LoadingRow
<1>5. \A i \in Items : rows[i] = None => mem[i] = None
  OBVIOUS
<1> HIDE DEF mem
<1>6. j \in Job /\ j.mem = mem /\ j.todo = WithRow(rows) /\ j.at = "apply"
  BY <1>3 DEF IInv, TypeOK, Job, Stages, Unloading, WithRow
<1> HIDE DEF j
<1>7. JobInv'
  <2>1. j.todo \subseteq WithRow(j.mem) /\ \A i \in WithRow(j.mem) : j.mem[i].act # None
    BY <1>4, <1>5, <1>6 DEF WithRow
  <2> QED
    BY <1>1, <1>6, <2>1 DEF Quiet, Apart, IInv, JobInv, Unloading, Restoring, BilledIffUnloaded, Settled
<1>8. RowsHaveItems'
  BY <1>1 DEF IInv, RowsHaveItems, WithRow, Existing
<1> QED
  BY <1>1, <1>6, <1>7, <1>8, JobStepKeeps DEF IInv, TypeOK

LEMMA MovedType ==
    ASSUME NEW its \in [Items -> SalesItem], NEW i \in Items, its[i] # None,
           NEW co \in Containers
    PROVE  /\ [its EXCEPT ![i].co = co] \in [Items -> SalesItem]
           /\ \A k \in Items : its[k] # None => [its EXCEPT ![i].co = co][k] # None
<1>1. [its[i] EXCEPT !.co = co] \in SalesItem /\ [its[i] EXCEPT !.co = co] # None
  BY ItemFacts, SaleAssumption
<1>2. \A k \in Items : [its EXCEPT ![i].co = co][k] =
                         IF k = i THEN [its[i] EXCEPT !.co = co] ELSE its[k]
  OBVIOUS
<1> QED
  BY <1>1, <1>2

LEMMA EvictedType ==
    ASSUME TypeOK, NEW i, NEW to, NEW other \in Containers
    PROVE  /\ Evicted(i, to, other) \in [Items -> SalesItem]
           /\ \A k \in Items : items[k] # None => Evicted(i, to, other)[k] # None
<1>1. ASSUME NEW k \in Items, items[k] # None
      PROVE  [items[k] EXCEPT !.co = other] \in SalesItem /\ [items[k] EXCEPT !.co = other] # None
  BY <1>1, ItemFacts, SaleAssumption DEF TypeOK
<1> QED
  BY <1>1 DEF Evicted, TypeOK

LEMMA ApplyKeeps ==
    ASSUME IInv, NEW i \in job.todo, NEW other \in Containers \cup {None}, Apply(i, other)
    PROVE  IInv'
<1> DEFINE row == job.mem[i]
           to == row.act
           from == items[i].co
           its == IF Clash(items, i, to) /\ other # None THEN Evicted(i, to, other) ELSE items
           new == [its EXCEPT ![i].co = to]
           newRows == [rows EXCEPT ![i] = [row EXCEPT !.req = to]]
           skip == [job EXCEPT !.todo = @ \ {i}]
           j == [job EXCEPT !.todo = @ \ {i}, !.touched = @ \cup {row.req, to, from}]
<1>1. /\ job.at = "apply" /\ Quiet
      /\ UNCHANGED <<sale, cancelled, billing, made, revived>>
      /\ \/ job' = skip /\ UNCHANGED <<items, rows, uncounted, cut>>
         \/ CutShort /\ UNCHANGED <<items, rows, uncounted>>
         \/ /\ items[i] # None /\ SetItems(new, {}) /\ rows' = newRows
            /\ job' = j /\ cut' = cut
  BY DEF Apply
<1>2. CASE CutShort /\ UNCHANGED <<items, rows, uncounted>>
  BY <1>1, <1>2, CutShortInv, JobStepKeeps DEF Quiet, Apart, IInv, TypeOK, RowsHaveItems, WithRow, Existing
<1>3. CASE job' = skip /\ UNCHANGED <<items, rows, uncounted, cut>>
  <2>1. skip \in Job /\ skip.mem = job.mem /\ skip.todo \subseteq job.todo /\ skip.at = job.at
    BY DEF IInv, TypeOK, Job
  <2> HIDE DEF skip
  <2>2. JobInv'
    BY <1>1, <1>3, <2>1, StageKeeps DEF Quiet, Apart
  <2>3. RowsHaveItems'
    BY <1>3 DEF IInv, RowsHaveItems, WithRow, Existing
  <2> QED
    BY <1>1, <1>3, <2>1, <2>2, <2>3, JobStepKeeps DEF IInv, TypeOK
<1>4. CASE /\ items[i] # None /\ SetItems(new, {}) /\ rows' = newRows
           /\ job' = j /\ cut' = cut
  <2>1. i \in Items /\ row \in Row /\ row # None
    BY DEF IInv, TypeOK, Job, JobInv, WithRow
  <2>2. to \in Containers
    BY <1>1, <2>1, RowFacts DEF IInv, JobInv, WithRow
  <2>3. row.req \in Containers /\ from \in Containers
    BY <1>4, <2>1, RowFacts, ItemFacts DEF IInv, TypeOK
  <2>4. [row EXCEPT !.req = to] \in Row
    BY <2>1, <2>2, RowFacts
  <2>5. its \in [Items -> SalesItem] /\ \A k \in Items : items[k] # None => its[k] # None
    BY EvictedType DEF IInv, TypeOK
  <2>6. j \in Job /\ j.mem = job.mem /\ j.todo \subseteq job.todo /\ j.at = job.at
    BY <2>2, <2>3 DEF IInv, TypeOK, Job
  <2> HIDE DEF row, to, from, its, j
  <2>7. new \in [Items -> SalesItem] /\ \A k \in Items : items[k] # None => new[k] # None
    BY <1>4, <2>1, <2>2, <2>5, MovedType
  <2>8. newRows \in [Items -> Row]
    BY <2>1, <2>4 DEF IInv, TypeOK
  <2>9. WithRow(newRows) \subseteq Existing(items)
    BY <1>4, <2>1 DEF IInv, TypeOK, RowsHaveItems, WithRow, Existing
  <2> HIDE DEF new, newRows
  <2>10. items' \in [Items -> SalesItem] /\ uncounted' \subseteq Containers /\ RowsHaveItems'
    BY <1>4, <2>7, <2>8, <2>9, ItemsStay
  <2>11. JobInv'
    BY <1>1, <1>4, <2>6, StageKeeps DEF Quiet, Apart
  <2> QED
    BY <1>1, <1>4, <2>6, <2>8, <2>10, <2>11, JobStepKeeps DEF IInv, TypeOK
<1> QED
  BY <1>1, <1>2, <1>3, <1>4

LEMMA SettleKeeps ==
    ASSUME IInv, Settle
    PROVE  IInv'
<1> DEFINE removed == (job.out \cup Live(items)) \ WithRow(job.mem)
           S == removed \cap Existing(items)
           new == [i \in Items |-> IF i \in S THEN [items[i] EXCEPT !.st = "CANCELLED"]
                                  ELSE items[i]]
           j == [job EXCEPT !.at = "complete", !.out = removed, !.touched = @ \cup Held(items, S)]
<1>1. /\ job.at = "apply" /\ Quiet /\ SetItems(new, {}) /\ job' = j
      /\ UNCHANGED <<sale, cancelled, billing, made, rows, revived, cut>>
  BY DEF Settle
<1>2. S \in SUBSET Existing(items) /\ removed \in SUBSET Items /\ "CANCELLED" \in ItemStatuses
  BY DEF ItemStatuses, IInv, TypeOK, Job, Live, Existing
<1> HIDE DEF removed, S
<1>3. new \in [Items -> SalesItem] /\ \A i \in Items : items[i] # None => new[i] # None
  BY <1>2, MarkedType DEF IInv
<1>4. Held(items, S) \in SUBSET Containers
  BY <1>2, HeldType DEF IInv, TypeOK
<1>5. j \in Job /\ j.mem = job.mem /\ j.todo = job.todo /\ j.at = "complete"
  BY <1>2, <1>4 DEF IInv, TypeOK, Job, Stages, Unloading
<1> HIDE DEF new, j
<1>6. JobInv'
  BY <1>1, <1>5, StageKeeps DEF Quiet, Apart
<1>7. items' \in [Items -> SalesItem] /\ uncounted' \subseteq Containers /\ RowsHaveItems'
  BY <1>1, <1>3, ItemsStay DEF IInv, TypeOK, RowsHaveItems
<1> QED
  BY <1>1, <1>5, <1>6, <1>7, JobStepKeeps DEF IInv, TypeOK

LEMMA CompleteKeeps ==
    ASSUME IInv, Complete
    PROVE  IInv'
<1> DEFINE S == Existing(items) \ job.out
           new == [i \in Items |-> IF i \in S THEN [items[i] EXCEPT !.st = "COMPLETED"]
                                  ELSE items[i]]
           j == [job EXCEPT !.at = "recount"]
<1>1. /\ job.at = "complete" /\ Quiet /\ SetItems(new, {}) /\ job' = j
      /\ revived' = revived \cup (S \ Live(items))
      /\ UNCHANGED <<sale, cancelled, billing, made, rows, cut>>
  BY DEF Complete
<1>2. S \in SUBSET Existing(items) /\ S \subseteq Items /\ "COMPLETED" \in ItemStatuses
  BY DEF ItemStatuses, Existing
<1> HIDE DEF S
<1>3. new \in [Items -> SalesItem] /\ \A i \in Items : items[i] # None => new[i] # None
  BY <1>2, MarkedType DEF IInv
<1>4. j \in Job /\ j.mem = job.mem /\ j.todo = job.todo /\ j.at = "recount"
  BY DEF IInv, TypeOK, Job, Stages, Unloading
<1> HIDE DEF new, j
<1>5. JobInv'
  BY <1>1, <1>4, StageKeeps DEF Quiet, Apart
<1>6. items' \in [Items -> SalesItem] /\ uncounted' \subseteq Containers /\ RowsHaveItems'
  BY <1>1, <1>3, ItemsStay DEF IInv, TypeOK, RowsHaveItems
<1>7. revived' \subseteq Items
  BY <1>1, <1>2 DEF IInv, TypeOK
<1> QED
  BY <1>1, <1>4, <1>5, <1>6, <1>7, JobStepKeeps DEF IInv, TypeOK

LEMMA RecountUnloadedKeeps ==
    ASSUME IInv, RecountUnloaded
    PROVE  IInv'
<1> DEFINE j == [job EXCEPT !.at = "read"]
<1>1. /\ job.at = "recount" /\ Apart /\ job' = j
      /\ uncounted' \subseteq uncounted /\ missed' \subseteq missed
      /\ UNCHANGED <<items, sale, cancelled, billing, made, rows, revived, cut, overwritten>>
  BY DEF RecountUnloaded, Recount, saleVars
<1>2. j \in Job /\ j.mem = job.mem /\ j.todo = job.todo /\ j.at = "read"
  BY DEF IInv, TypeOK, Job, Stages, Unloading
<1> HIDE DEF j
<1>3. JobInv'
  BY <1>1, <1>2, StageKeeps DEF Quiet, Apart
<1>4. RowsHaveItems'
  BY <1>1 DEF IInv, RowsHaveItems, WithRow, Existing
<1> QED
  BY <1>1, <1>2, <1>3, <1>4, JobStepTyped DEF IInv, TypeOK

LEMMA ReadBilledKeeps ==
    ASSUME IInv, ReadBilled
    PROVE  IInv'
<1> DEFINE j == [job EXCEPT !.at = "bill", !.read = SaleNow]
<1>1. /\ job.at = "read" /\ Quiet /\ job' = j
      /\ UNCHANGED <<items, sale, cancelled, billing, made, rows, uncounted, revived, cut>>
  BY DEF ReadBilled, saleVars
<1>2. SaleNow \in SaleRow /\ SaleNow # None
  BY SaleNowType DEF IInv
<1>3. /\ j \in Job /\ j.mem = job.mem /\ j.todo = job.todo /\ j.at = "bill"
      /\ j.read # None
  BY <1>2 DEF IInv, TypeOK, Job, Stages, Unloading
<1> HIDE DEF j
<1>4. JobInv'
  BY <1>1, <1>3 DEF Quiet, Apart, IInv, JobInv, Unloading, Restoring, BilledIffUnloaded,
     Settled, WithRow
<1>5. RowsHaveItems'
  BY <1>1 DEF IInv, RowsHaveItems, WithRow, Existing
<1> QED
  BY <1>1, <1>3, <1>4, <1>5, JobStepKeeps DEF IInv, TypeOK

LEMMA BillKeeps ==
    ASSUME IInv, Bill
    PROVE  IInv'
<1>1. /\ job.at = "bill" /\ Apart /\ job' = Idle /\ cut' = FALSE
      /\ overwritten' = (reading # None \/ job.read # SaleNow)
      /\ UNCHANGED <<items, made, rows, uncounted, revived, missed>>
      /\ \/ /\ job.read.billing
            /\ UNCHANGED <<sale, cancelled, billing>>
         \/ /\ sale' \in Saved("COMPLETED", job.read.sale, sale)
            /\ cancelled' \in Saved(job.read.cancelled, job.read.cancelled, cancelled)
            /\ billing' \in Saved(TRUE, job.read.billing, billing)
  BY DEF Bill
<1>2. Idle.at = "idle" /\ Idle.todo = {}
  BY DEF Idle
<1>3. job.read \in SaleRow
  BY <1>1 DEF IInv, JobInv, TypeOK, Job
<1>4. sale' \in SaleStatuses /\ cancelled' \in BOOLEAN /\ billing' \in BOOLEAN
  <2>1. /\ "COMPLETED" \in SaleStatuses /\ sale \in SaleStatuses /\ cancelled \in BOOLEAN
        /\ billing \in BOOLEAN /\ TRUE \in BOOLEAN /\ job.read.cancelled \in BOOLEAN
    BY <1>3 DEF IInv, TypeOK, SaleStatuses, SaleRow
  <2> QED
    BY <1>1, <2>1, SavedIn
<1>5. ~overwritten' => reading = None /\ billing' = TRUE
  <2> SUFFICES ASSUME ~overwritten' PROVE reading = None /\ billing' = TRUE
    OBVIOUS
  <2>1. reading = None /\ job.read.billing = billing
    BY <1>1, SaleNowType DEF IInv
  <2>2. CASE job.read.billing /\ UNCHANGED <<sale, cancelled, billing>>
    BY <2>1, <2>2 DEF IInv, TypeOK
  <2>3. CASE billing' \in Saved(TRUE, job.read.billing, billing)
    BY <2>1, <2>3, SavedAlone
  <2> QED
    BY <1>1, <2>1, <2>2, <2>3
<1>6. JobInv'
  BY <1>1, <1>2, <1>5 DEF Apart, IInv, JobInv, Unloading, Restoring, BilledIffUnloaded, Settled
<1>7. RowsHaveItems'
  BY <1>1 DEF IInv, RowsHaveItems, WithRow, Existing
<1>8. overwritten' \in BOOLEAN
  BY <1>1
<1> QED
  BY <1>1, <1>4, <1>6, <1>7, <1>8, IdleType, JobStepTyped DEF IInv, TypeOK

LEMMA UndoRowKeeps ==
    ASSUME IInv, NEW i \in job.todo, UndoRow(i)
    PROVE  IInv'
<1> DEFINE row == job.mem[i]
           back == row.act # None /\ row.req # row.act
           moves == items[i] # None /\ back
           new == IF moves THEN [items EXCEPT ![i].co = row.req] ELSE items
           more == IF items[i] = None THEN {} ELSE IF back THEN {row.req, row.act}
                   ELSE {items[i].co}
           j == [job EXCEPT !.todo = @ \ {i}, !.touched = @ \cup more]
<1>1. /\ job.at = "undo" /\ Quiet
      /\ UNCHANGED <<sale, cancelled, billing, made, rows, revived>>
      /\ \/ CutShort /\ UNCHANGED <<items, uncounted>>
         \/ SetItems(new, {}) /\ job' = j /\ cut' = cut
  BY DEF UndoRow
<1>2. i \in Items /\ row \in Row /\ row # None
  BY DEF IInv, TypeOK, Job, JobInv, WithRow
<1>3. row.req \in Containers /\ row.act \in Containers \cup {None}
  BY <1>2, RowFacts
<1>4. more \in SUBSET Containers
  BY <1>2, <1>3, ItemFacts DEF IInv, TypeOK
<1> HIDE DEF row, back, more
<1>5. new \in [Items -> SalesItem] /\ \A k \in Items : items[k] # None => new[k] # None
  BY <1>2, <1>3, MovedType DEF IInv, TypeOK
<1>6. j \in Job /\ j.mem = job.mem /\ j.todo \subseteq job.todo /\ j.at = "undo"
  BY <1>1, <1>4 DEF IInv, TypeOK, Job
<1> HIDE DEF new, j
<1>7. CASE CutShort /\ UNCHANGED <<items, uncounted>>
  BY <1>1, <1>7, CutShortInv, JobStepKeeps DEF Quiet, Apart, IInv, TypeOK, RowsHaveItems, WithRow, Existing
<1>8. CASE SetItems(new, {}) /\ job' = j /\ cut' = cut
  <2>1. items' \in [Items -> SalesItem] /\ uncounted' \subseteq Containers /\ RowsHaveItems'
    BY <1>1, <1>5, <1>8, ItemsStay DEF IInv, TypeOK, RowsHaveItems
  <2>2. JobInv'
    BY <1>1, <1>6, <1>8, StageKeeps DEF Quiet, Apart
  <2> QED
    BY <1>1, <1>6, <1>8, <2>1, <2>2, JobStepKeeps DEF IInv, TypeOK
<1> QED
  BY <1>1, <1>7, <1>8

LEMMA MarkSoldKeeps ==
    ASSUME IInv, MarkSold
    PROVE  IInv'
<1> DEFINE read == WithRow(job.mem)
           S == read \cap Live(items)
           newRows == [i \in Items |-> IF i \in read THEN job.mem[i] ELSE rows[i]]
           new == [i \in Items |-> IF i \in S THEN [items[i] EXCEPT !.st = "SOLD"]
                                  ELSE items[i]]
           j == [job EXCEPT !.at = "restore"]
<1>1. /\ job.at = "undo" /\ Quiet
      /\ UNCHANGED <<sale, cancelled, billing, made, revived>>
      /\ \/ /\ read \subseteq Existing(items) /\ rows' = newRows
            /\ SetItems(new, {}) /\ job' = j /\ cut' = cut
         \/ CutShort /\ UNCHANGED <<items, rows, uncounted>>
  BY DEF MarkSold
<1>2. newRows \in [Items -> Row]
  BY DEF IInv, TypeOK, Job
<1>3. \A i \in Items : newRows[i] # None => i \in read \cup WithRow(rows)
  BY DEF WithRow
<1>4. S \in SUBSET Existing(items) /\ "SOLD" \in ItemStatuses
  BY DEF Live, ItemStatuses
<1>5. j \in Job /\ j.mem = job.mem /\ j.todo = job.todo /\ j.at = "restore"
  BY DEF IInv, TypeOK, Job, Stages, Restoring
<1> HIDE DEF read, S, newRows, j
<1>6. new \in [Items -> SalesItem] /\ \A i \in Items : items[i] # None => new[i] # None
  BY <1>4, MarkedType DEF IInv
<1> HIDE DEF new
<1>7. CASE CutShort /\ UNCHANGED <<items, rows, uncounted>>
  BY <1>1, <1>7, CutShortInv, JobStepKeeps DEF Quiet, Apart, IInv, TypeOK, RowsHaveItems, WithRow, Existing
<1>8. CASE /\ read \subseteq Existing(items) /\ rows' = newRows
           /\ SetItems(new, {}) /\ job' = j /\ cut' = cut
  <2>1. WithRow(newRows) \subseteq Existing(items)
    BY <1>3, <1>8 DEF WithRow, IInv, RowsHaveItems
  <2>2. items' \in [Items -> SalesItem] /\ uncounted' \subseteq Containers /\ RowsHaveItems'
    BY <1>2, <1>6, <1>8, <2>1, ItemsStay
  <2>3. JobInv'
    BY <1>1, <1>5, <1>8, StageKeeps DEF Quiet, Apart
  <2> QED
    BY <1>1, <1>2, <1>5, <1>8, <2>2, <2>3, JobStepKeeps DEF IInv, TypeOK
<1> QED
  BY <1>1, <1>7, <1>8

LEMMA RestoreSaleKeeps ==
    ASSUME IInv, RestoreSale
    PROVE  IInv'
<1> DEFINE j == [job EXCEPT !.at = "unbill"]
<1>1. /\ job.at = "restore" /\ Quiet /\ job' = j
      /\ sale' = IF sale = "COMPLETED" THEN "SOLD" ELSE sale
      /\ UNCHANGED <<items, cancelled, billing, made, rows, uncounted, revived, cut>>
  BY DEF RestoreSale
<1>2. j \in Job /\ j.mem = job.mem /\ j.todo = job.todo /\ j.at = "unbill"
  BY DEF IInv, TypeOK, Job, Stages, Restoring
<1> HIDE DEF j
<1>3. JobInv'
  BY <1>1, <1>2, StageKeeps DEF Quiet, Apart
<1>4. RowsHaveItems'
  BY <1>1 DEF IInv, RowsHaveItems, WithRow, Existing
<1>5. sale' \in SaleStatuses
  BY <1>1 DEF IInv, TypeOK, SaleStatuses
<1> QED
  BY <1>1, <1>2, <1>3, <1>4, <1>5, JobStepKeeps DEF IInv, TypeOK

LEMMA ResetBillingKeeps ==
    ASSUME IInv, ResetBilling
    PROVE  IInv'
<1> DEFINE j == [job EXCEPT !.at = "reopen"]
<1>1. /\ job.at = "unbill" /\ Apart /\ job' = j
      /\ \/ billing' = FALSE /\ overwritten' = (reading # None) /\ cut' = cut
         \/ cut' = TRUE /\ UNCHANGED <<billing, overwritten>>
      /\ UNCHANGED <<items, sale, cancelled, made, rows, uncounted, revived, missed>>
  BY DEF ResetBilling
<1>2. j \in Job /\ j.mem = job.mem /\ j.todo = job.todo /\ j.at = "reopen"
  BY DEF IInv, TypeOK, Job, Stages, Restoring
<1> HIDE DEF j
<1>3. JobInv'
  BY <1>1, <1>2 DEF Apart, IInv, JobInv, Unloading, Restoring, BilledIffUnloaded, Settled, WithRow
<1>4. RowsHaveItems'
  BY <1>1 DEF IInv, RowsHaveItems, WithRow, Existing
<1>5. billing' \in BOOLEAN /\ cut' \in BOOLEAN /\ overwritten' \in BOOLEAN
  BY <1>1 DEF IInv, TypeOK
<1> QED
  BY <1>1, <1>2, <1>3, <1>4, <1>5, JobStepTyped DEF IInv, TypeOK

LEMMA RecountRestoredKeeps ==
    ASSUME IInv, RecountRestored
    PROVE  IInv'
<1>1. /\ job.at = "reopen" /\ Apart /\ job' = Idle
      /\ uncounted' \subseteq uncounted /\ missed' \subseteq missed
      /\ UNCHANGED <<items, sale, cancelled, billing, made, rows, revived, cut, overwritten>>
  BY DEF RecountRestored, Recount, saleVars
<1>2. Idle.at = "idle" /\ Idle.todo = {}
  BY DEF Idle
<1>3. JobInv'
  BY <1>1, <1>2 DEF Apart, IInv, JobInv, Unloading, Restoring, BilledIffUnloaded, Settled
<1>4. RowsHaveItems'
  BY <1>1 DEF IInv, RowsHaveItems, WithRow, Existing
<1> QED
  BY <1>1, <1>3, <1>4, IdleType, JobStepTyped DEF IInv, TypeOK

LEMMA CrashKeeps ==
    ASSUME IInv, Crash
    PROVE  IInv'
<1>1. /\ Quiet /\ CutShort
      /\ UNCHANGED <<items, sale, cancelled, billing, made, rows, uncounted, revived>>
  BY DEF Crash, saleVars
<1>2. RowsHaveItems'
  BY <1>1 DEF IInv, RowsHaveItems, WithRow, Existing
<1> QED
  BY <1>1, <1>2, CutShortInv, JobStepKeeps DEF Quiet, Apart, IInv, TypeOK

-----------------------------------------------------------------------------
LEMMA InitIInv == Init => IInv
<1> SUFFICES ASSUME Init PROVE IInv
  OBVIOUS
<1>1. PICK st \in {"RESERVED", "SOLD"}, f \in [Items -> Containers \cup {None}] :
          /\ items = [i \in Items |-> IF f[i] = None THEN None ELSE [co |-> f[i], st |-> st]]
          /\ made \in 0 .. MaxItems /\ sale = st
  BY DEF Init
<1>2. \A i \in Items : f[i] # None => [co |-> f[i], st |-> st] \in Item
  BY DEF Item, ItemStatuses
<1>3. items \in [Items -> SalesItem]
  BY <1>1, <1>2 DEF SalesItem
<1>4. rows \in [Items -> Row] /\ RowsHaveItems
  <2>1. \A i \in Items : items[i] # None =>
           [NewRow(items[i].co) EXCEPT !.op = delivery # "PENDING"] \in Row
    BY <1>3, ItemFacts, NewRowType
  <2>2. None \in Row
    BY DEF Row
  <2>3. rows = [i \in Items |-> IF items[i] = None THEN None
                 ELSE [NewRow(items[i].co) EXCEPT !.op = delivery # "PENDING"]]
    BY DEF Init
  <2>4. \A i \in Items : rows[i] # None => items[i] # None
    BY <2>3
  <2> QED
    BY <2>1, <2>2, <2>3, <2>4 DEF RowsHaveItems, WithRow, Existing
<1>5. /\ delivery \in {"PENDING", "DISPATCHED", "LOADED"} /\ deleted = FALSE
      /\ cancelled = FALSE /\ billing = FALSE /\ shown = {} /\ job = Idle /\ requests = 0
      /\ uncounted = {} /\ revived = {} /\ missed = {} /\ cut = FALSE /\ mixed = FALSE
      /\ reading = None /\ overwritten = FALSE
  BY DEF Init
<1>6. TypeOK
  <2>1. sale \in SaleStatuses /\ made \in 0 .. MaxItems
    BY <1>1 DEF SaleStatuses
  <2>2. delivery \in DeliveryStatuses /\ requests \in 0 .. MaxRequests
    BY <1>5, SaleAssumption DEF DeliveryStatuses
  <2>3. job \in Job
    BY <1>5, IdleType
  <2> QED
    BY <1>3, <1>4, <1>5, <2>1, <2>2, <2>3 DEF TypeOK
<1>7. JobInv
  BY <1>5 DEF JobInv, Idle, Unloading, Restoring, BilledIffUnloaded, Settled
<1> QED
  BY <1>4, <1>6, <1>7 DEF IInv

LEMMA IInvStep == IInv /\ [Next]_vars => IInv'
<1> SUFFICES ASSUME IInv, [Next]_vars PROVE IInv'
  OBVIOUS
<1>1. CASE SaleStep
  <2>1. [i \in Listed |-> i] \in [Listed -> Listed \cup {None}]
    OBVIOUS
  <2> QED
    BY <1>1, <2>1, ReadSaleKeeps, RollBackKeeps, EditSaleKeeps, CancelSaleKeeps, ToReservationKeeps, ConfirmSalesKeeps
       DEF SaleStep
<1>2. CASE DeliveryStep
  BY <1>2, DispatchKeeps, LoadKeeps, DeleteDeliveryKeeps, OpenFormKeeps, UnloadKeeps,
     UnloadStatusOnlyKeeps, RestoreKeeps DEF DeliveryStep
<1>3. CASE JobStep
  BY <1>3, AddItemKeeps, DiffKeeps, LoadRowsKeeps, ApplyKeeps, SettleKeeps, CompleteKeeps,
     RecountUnloadedKeeps, ReadBilledKeeps, BillKeeps, UndoRowKeeps, MarkSoldKeeps,
     RestoreSaleKeeps, ResetBillingKeeps, RecountRestoredKeeps, CrashKeeps DEF JobStep
<1>4. CASE UNCHANGED vars
  BY <1>4 DEF vars, saleVars, historyVars, IInv, TypeOK, RowsHaveItems, WithRow, Existing,
     JobInv, BilledIffUnloaded, Settled
<1> QED
  BY <1>1, <1>2, <1>3, <1>4 DEF Next

THEOREM Invariance == Spec => []IInv
<1> QED
  BY InitIInv, IInvStep, PTL DEF Spec

\* The state is typed: no item ends in no container, and the status of the
\* sale is never lost.
THEOREM TypeCorrect == Spec => []TypeOK
<1>1. IInv => TypeOK
  BY DEF IInv
<1> QED
  BY <1>1, Invariance, PTL

\* A sale waits for its invoice exactly while its delivery is unloaded, unless
\* an unloading or its undoing failed or was cut short, or a request about the
\* sale had it in memory when the last of them wrote the billing: requests that
\* run between its other statements, and all later ones, leave the billing as it is.
THEOREM BilledCorrectly == Spec => []BilledIffUnloaded
<1>1. IInv => BilledIffUnloaded
  BY DEF IInv, JobInv
<1> QED
  BY <1>1, Invariance, PTL

-----------------------------------------------------------------------------
(* How the tables agree while no request about the sale runs beside a job. *)

Unexplained == uncounted \ missed

\* What a request about the sale, and the last statement of an unloading, have
\* read of it is still so.
ReadInv ==
    ~mixed =>
        /\ reading # None => job.at = "idle" /\ reading = SaleNow
        /\ job.at = "bill" => job.read = SaleNow

RevivedInv ==
    /\ revived \subseteq Existing(items)
    /\ delivery = "PENDING" => revived = {}

\* Between two jobs, and while an unloading is undone.
RowsAgree ==
    job.at \in {"idle"} \cup Restoring /\ ~cut =>
        /\ ~deleted => \A i \in Live(items) \ revived :
                          rows[i] # None /\ rows[i].req = items[i].co
        /\ \A i \in revived \cap WithRow(rows) : rows[i].req = rows[i].act

IdleAgrees ==
    job.at = "idle" /\ ~cut =>
        /\ Unexplained \subseteq Held(items, revived)
        /\ revived = {} =>
              \/ sale = SalesStatusOf(items, sale)
              \/ sale = "RESERVED" /\ SalesStatusOf(items, sale) = "SOLD" /\ delivery = "LOADED"

UndoAgrees ==
    job.at = "undo" /\ ~cut =>
        /\ rows = job.mem
        /\ Unexplained = {}
        /\ \A i \in Live(items) \ revived : rows[i] # None /\ rows[i].req = items[i].co
        /\ \A i \in (WithRow(rows) \ job.todo) \cap Live(items) : items[i].co \in job.touched

RestoredAgrees ==
    job.at \in {"restore", "unbill", "reopen"} /\ ~cut =>
        /\ Unexplained \subseteq job.touched
        /\ revived = {} => \A i \in Live(items) : items[i].st = "SOLD"
        /\ job.at \in {"unbill", "reopen"} => sale # "COMPLETED"

\* An unloading: until its rows are read, a container whose item changed is
\* that of the item the form adds, or of an item the form excludes.
FormAgrees ==
    /\ job.at = "add" => Unexplained = {}
    /\ job.at = "diff" =>
          \A c \in Unexplained : \E i \in Live(items) : items[i].co = c /\ job.add = c
    /\ job.at = "load" =>
          Unexplained \subseteq Held(items, (job.out \cup WithRow(rows)) \cap Existing(items))

\* A row that was applied has one container, that of its item if it is live.
AppliedAgree ==
    job.at \in {"apply", "complete", "recount", "read", "bill"} =>
        /\ WithRow(rows) = WithRow(job.mem)
        /\ \A i \in WithRow(rows) \ job.todo :
              /\ rows[i].req = rows[i].act
              /\ i \in Live(items) => \/ items[i].co = rows[i].act
                                      \/ job.at \in {"recount", "read", "bill"} /\ i \in revived

\* A container whose item changed was touched, or will be: by a row not yet
\* applied, or by an item that will be cancelled.
TouchedAgree ==
    /\ job.at = "apply" =>
          Unexplained \subseteq job.touched \cup
             Held(items, ((job.out \ WithRow(rows)) \cup job.todo) \cap Existing(items))
    /\ job.at \in {"apply", "complete"} =>
          \A i \in (WithRow(rows) \ job.todo) \cap Live(items) : items[i].co \in job.touched
    /\ job.at = "complete" => Unexplained \subseteq job.touched
    /\ job.at = "recount" => Unexplained \subseteq job.touched \cup Held(items, revived)
    /\ job.at \in {"read", "bill"} => Unexplained \subseteq Held(items, revived)

SettledAgree ==
    /\ job.at = "complete" =>
          /\ job.todo = {} /\ job.out \cap WithRow(rows) = {}
          /\ Live(items) \subseteq WithRow(rows)
          /\ \A i \in job.out \cap Existing(items) : items[i].st = "CANCELLED"
    /\ job.at \in {"recount", "read", "bill"} =>
          /\ job.todo = {}
          /\ Live(items) \ revived \subseteq WithRow(rows)
          /\ WithRow(rows) \subseteq Live(items)
          /\ \A i \in Live(items) : items[i].st = "COMPLETED"

RestInv == RowsAgree /\ IdleAgrees /\ UndoAgrees /\ RestoredAgrees
UnloadInv == FormAgrees /\ AppliedAgree /\ TouchedAgree /\ SettledAgree
AInv == RevivedInv /\ (~mixed => RestInv /\ UnloadInv)

-----------------------------------------------------------------------------
LEMMA ChangedFact ==
    ASSUME NEW its, NEW new, NEW c \in Changed(its, new)
    PROVE  \E i \in Items : /\ its[i] # new[i]
                            /\ \/ i \in Live(its) /\ its[i].co = c
                               \/ i \in Live(new) /\ new[i].co = c
  BY DEF Changed, Held

\* Some items that exist take a status: their containers may be uncounted.
LEMMA Marked ==
    ASSUME TypeOK, NEW S \in SUBSET Existing(items), NEW st \in ItemStatuses, NEW new,
           \A i \in S : new[i] = [items[i] EXCEPT !.st = st],
           \A i \in Items \ S : new[i] = items[i],
           SetItems(new, {})
    PROVE  /\ items' = new
           /\ Existing(items') = Existing(items)
           /\ \A i \in Existing(items) : /\ items'[i].co = items[i].co
                                         /\ items'[i].st = IF i \in S THEN st ELSE items[i].st
           /\ \A c \in uncounted' : c \in uncounted \/
                 \E i \in S : /\ items[i].co = c
                              /\ i \in Live(items) \/ st # "CANCELLED"
<1>1. items' = new /\ uncounted' = uncounted \cup Changed(items, new)
  BY DEF SetItems
<1>2. \A i \in Existing(items) : i \in Items /\ items[i] \in Item /\ items[i] # None
  BY DEF TypeOK, SalesItem, Existing
<1>3. \A i \in S : new[i] = [items[i] EXCEPT !.st = st] /\ new[i] \in Item
  BY <1>2, ItemFacts DEF SalesItem
<1>4. \A i \in Items \ S : new[i] = items[i]
  OBVIOUS
<1>5. \A i \in S : new[i].co = items[i].co /\ new[i].st = st /\ new[i] # None
  BY <1>2, <1>3, SaleAssumption DEF Item
<1>6. Existing(new) = Existing(items)
  BY <1>2, <1>4, <1>5 DEF Existing
<1>7. ASSUME NEW c \in Changed(items, new)
      PROVE  \E i \in S : items[i].co = c /\ (i \in Live(items) \/ st # "CANCELLED")
  <2>1. PICK i \in Items : /\ items[i] # new[i]
                           /\ \/ i \in Live(items) /\ items[i].co = c
                              \/ i \in Live(new) /\ new[i].co = c
    BY ChangedFact
  <2>2. i \in S
    BY <1>4, <2>1
  <2>3. CASE i \in Live(items)
    <3>1. items[i].co = c
      BY <1>5, <2>1, <2>2
    <3> QED
      BY <2>2, <2>3, <3>1
  <2>4. CASE i \notin Live(items)
    <3>1. i \in Live(new) /\ new[i].co = c
      BY <2>1, <2>4
    <3>2. new[i].st # "CANCELLED"
      BY <3>1 DEF Live
    <3> QED
      BY <1>5, <2>2, <3>1, <3>2
  <2> QED
    BY <2>3, <2>4
<1>8. \A i \in Existing(items) : /\ new[i].co = items[i].co
                                 /\ new[i].st = IF i \in S THEN st ELSE items[i].st
  BY <1>2, <1>4, <1>5
<1> QED
  BY <1>1, <1>6, <1>7, <1>8

LEMMA StatusIs ==
    ASSUME NEW its, NEW old, NEW st \in {"RESERVED", "SOLD", "COMPLETED"},
           \A i \in Live(its) : its[i].st = st
    PROVE  SalesStatusOf(its, old) = IF Live(its) = {} THEN old ELSE st
<1> DEFINE Has(s) == \E i \in Live(its) : its[i].st = s
<1>1. \A s \in {"RESERVED", "SOLD", "COMPLETED"} : Has(s) <=> Live(its) # {} /\ s = st
  OBVIOUS
<1>2. SalesStatusOf(its, old) = IF Has("COMPLETED") THEN "COMPLETED"
                                ELSE IF Has("SOLD") THEN "SOLD"
                                ELSE IF Has("RESERVED") THEN "RESERVED" ELSE old
  BY DEF SalesStatusOf
<1> HIDE DEF Has
<1> QED
  BY <1>1, <1>2

\* The status made of the items is the one made of them again.
LEMMA StatusStays ==
    ASSUME NEW its, NEW old
    PROVE  SalesStatusOf(its, SalesStatusOf(its, old)) = SalesStatusOf(its, old)
<1> DEFINE Has(s) == \E i \in Live(its) : its[i].st = s
           Value(s) == IF Has("COMPLETED") THEN "COMPLETED"
                       ELSE IF Has("SOLD") THEN "SOLD"
                       ELSE IF Has("RESERVED") THEN "RESERVED" ELSE s
<1>1. \A s : SalesStatusOf(its, s) = Value(s)
  BY DEF SalesStatusOf
<1>2. Value(Value(old)) = Value(old)
  <2> HIDE DEF Has
  <2> QED
    OBVIOUS
<1> HIDE DEF Value
<1> QED
  BY <1>1, <1>2

LEMMA RowsForCover ==
    ASSUME TypeOK, NEW its \in [Items -> SalesItem], NEW i \in Live(its)
    PROVE  RowsFor(its)[i] # None /\ RowsFor(its)[i].req = its[i].co
<1>1. i \in Items /\ its[i] \in SalesItem /\ its[i] # None
  BY DEF Live, Existing
<1>2. its[i].co \in Containers
  BY <1>1, ItemFacts
<1>3. RowsFor(its)[i] = IF rows[i] = None THEN NewRow(its[i].co)
                        ELSE [rows[i] EXCEPT !.req = its[i].co]
  BY <1>1 DEF RowsFor
<1>4. CASE rows[i] = None
  <2>1. NewRow(its[i].co) \in LoadingRow /\ NewRow(its[i].co).req = its[i].co
    BY <1>2 DEF NewRow, LoadingRow
  <2> QED
    BY <1>3, <1>4, <2>1, SaleAssumption
<1>5. CASE rows[i] # None
  <2>1. rows[i] \in LoadingRow
    BY <1>1, <1>5 DEF TypeOK, Row
  <2>2. RowsFor(its)[i] = [rows[i] EXCEPT !.req = its[i].co]
    BY <1>3, <1>5
  <2> DEFINE row == RowsFor(its)[i]
  <2>3. row \in LoadingRow /\ row.req = its[i].co
    <3>1. row = [rows[i] EXCEPT !.req = its[i].co]
      BY <2>2
    <3> HIDE DEF row
    <3> QED
      BY <1>2, <2>1, <3>1 DEF LoadingRow
  <2> QED
    BY <2>3, SaleAssumption
<1> QED
  BY <1>4, <1>5

\* A request about the sale brings the tables together.
LEMMA SaleRequestAgrees ==
    ASSUME IInv, AInv, ReadInv, NEW status, NEW cancel, Commit(status, cancel),
           NEW new \in [Items -> SalesItem], NEW counted,
           SetItems(new, counted), rows' = RowsFor(new),
           \A c \in Changed(items, new) : c \in counted \cup missed',
           Held(items, Existing(items)) \subseteq counted,
           missed \ counted \subseteq missed',
           reading.sale = sale => status = SalesStatusOf(new, status)
    PROVE  AInv'
<1>1. /\ items' = new /\ uncounted' = (uncounted \cup Changed(items, new)) \ counted
      /\ revived' = {} /\ reading # None /\ sale' \in Saved(status, reading.sale, sale)
      /\ UNCHANGED <<delivery, job, cut, mixed>>
  BY DEF SetItems, Commit
<1>2. RevivedInv'
  BY <1>1 DEF RevivedInv
<1>3. ASSUME ~mixed' PROVE RestInv' /\ UnloadInv'
  <2>0. reading.sale = sale
    BY <1>1, <1>3, SaleNowType DEF ReadInv, IInv
  <2>1. job.at = "idle" /\ ~mixed /\ sale' = status
    BY <1>1, <1>3, <2>0, SavedAlone DEF ReadInv
  <2>2. UnloadInv'
    BY <1>1, <2>1 DEF UnloadInv, FormAgrees, AppliedAgree, TouchedAgree, SettledAgree
  <2>3. UndoAgrees' /\ RestoredAgrees'
    BY <1>1, <2>1 DEF UndoAgrees, RestoredAgrees
  <2>4. ASSUME NEW i \in Live(items') PROVE rows'[i] # None /\ rows'[i].req = items'[i].co
    BY <1>1, <2>4, RowsForCover DEF IInv
  <2>5. RowsAgree'
    BY <1>1, <2>4 DEF RowsAgree
  <2>6. ASSUME ~cut PROVE Unexplained' = {}
    <3>1. Unexplained \subseteq Held(items, revived)
      BY <2>1, <2>6 DEF AInv, RestInv, IdleAgrees
    <3>2. Unexplained \subseteq counted
      BY <3>1 DEF AInv, RevivedInv, Held
    <3> QED
      BY <1>1, <3>2 DEF Unexplained
  <2>7. sale' = SalesStatusOf(items, sale)'
    BY <1>1, <2>0, <2>1
  <2>8. IdleAgrees'
    BY <1>1, <2>6, <2>7 DEF IdleAgrees
  <2> QED
    BY <2>2, <2>3, <2>5, <2>8 DEF RestInv
<1> QED
  BY <1>2, <1>3 DEF AInv

LEMMA UpdateSaleAgrees ==
    ASSUME IInv, AInv, ReadInv, NEW new \in [Items -> SalesItem], UpdateSale(new),
           NEW status, NEW cancel, Commit(status, cancel), rows' = RowsFor(new),
           reading.sale = sale => status = SalesStatusOf(new, status)
    PROVE  AInv'
<1> DEFINE counted == Held(items, Existing(items)) \cup Held(new, Existing(new))
<1>1. SetItems(new, counted) /\ missed' = missed \ counted
  BY DEF UpdateSale
<1>2. \A i \in Existing(items) : items[i].co \in counted
  BY DEF Held
<1>3. \A i \in Existing(new) : new[i].co \in counted
  BY DEF Held
<1>4. Held(items, Existing(items)) \subseteq counted
  OBVIOUS
<1> HIDE DEF counted
<1>5. ASSUME NEW c \in Changed(items, new) PROVE c \in counted
  <2>1. PICK i \in Items : /\ items[i] # new[i]
                           /\ \/ i \in Live(items) /\ items[i].co = c
                              \/ i \in Live(new) /\ new[i].co = c
    BY DEF Changed, Held
  <2> QED
    BY <1>2, <1>3, <2>1 DEF Live
<1> QED
  BY <1>1, <1>4, <1>5, SaleRequestAgrees

LEMMA EditSaleAgrees ==
    ASSUME IInv, AInv, ReadInv, NEW f \in [Listed -> Listed \cup {None}],
           NEW add \in Containers \cup {None}, EditSale(f, add)
    PROVE  AInv'
<1> DEFINE new == Edited(f, add)
<1>1. new \in [Items -> SalesItem]
  BY EditedType DEF IInv
<1> DEFINE status == SalesStatusOf(new, reading.sale)
           cancel == Existing(new) # {} /\ Live(new) = {}
<1>2. UpdateSale(new) /\ rows' = RowsFor(new) /\ Commit(status, cancel)
  BY DEF EditSale, CreateFromSales
<1> HIDE DEF new
<1>3. status = SalesStatusOf(new, status)
  BY StatusStays
<1> HIDE DEF status, cancel
<1> QED
  BY <1>1, <1>2, <1>3, UpdateSaleAgrees

LEMMA CancelSaleAgrees ==
    ASSUME IInv, AInv, ReadInv, CancelSale
    PROVE  AInv'
<1> DEFINE new == [i \in Items |-> IF i \in Listed
                                THEN [items[i] EXCEPT !.st = "CANCELLED"] ELSE None]
<1>1. \A i \in Items : i \in Listed => /\ [items[i] EXCEPT !.st = "CANCELLED"] \in Item
                                       /\ [items[i] EXCEPT !.st = "CANCELLED"] \in SalesItem
  BY ItemFacts DEF IInv, TypeOK, Listed, Live, Existing, ItemStatuses
<1>2. new \in [Items -> SalesItem]
  BY <1>1 DEF SalesItem
<1>3. \A i \in Items : i \in Listed => [items[i] EXCEPT !.st = "CANCELLED"].st = "CANCELLED"
  BY DEF IInv, TypeOK, Listed, Live, Existing, SalesItem, Item
<1>4. \A i \in Items : new[i] # None => new[i].st = "CANCELLED"
  BY <1>3
<1>5. UpdateSale(new) /\ rows' = RowsFor(new) /\ Commit(reading.sale, TRUE)
  BY DEF CancelSale, CreateFromSales
<1> HIDE DEF new
<1>6. Live(new) = {}
  BY <1>4 DEF Live, Existing
<1>7. SalesStatusOf(new, reading.sale) = reading.sale
  BY <1>6, StatusIs
<1> QED
  BY <1>2, <1>5, <1>7, UpdateSaleAgrees

LEMMA ToReservationAgrees ==
    ASSUME IInv, AInv, ReadInv, ToReservation
    PROVE  AInv'
<1> DEFINE new == [i \in Items |-> IF i \in Live(items)
                                THEN [items[i] EXCEPT !.st = "RESERVED"] ELSE None]
<1>1. new \in [Items -> SalesItem]
  <2>1. \A i \in Items : i \in Live(items) => [items[i] EXCEPT !.st = "RESERVED"] \in SalesItem
    BY ItemFacts DEF IInv, TypeOK, Live, Existing, ItemStatuses
  <2> QED
    BY <2>1 DEF SalesItem
<1> DEFINE status == SalesStatusOf(new, reading.sale)
<1>2. UpdateSale(new) /\ rows' = RowsFor(new) /\ Commit(status, FALSE)
  BY DEF ToReservation
<1> HIDE DEF new
<1>3. status = SalesStatusOf(new, status)
  BY StatusStays
<1> HIDE DEF status
<1> QED
  BY <1>1, <1>2, <1>3, UpdateSaleAgrees

LEMMA ConfirmSalesAgrees ==
    ASSUME IInv, AInv, ReadInv, NEW kept \in SUBSET Listed, NEW add \in Containers \cup {None},
           ConfirmSales(kept, add)
    PROVE  AInv'
<1> DEFINE new == [i \in Items |->
                    IF i \in kept THEN [items[i] EXCEPT !.st = "SOLD"]
                    ELSE IF Added(i, add) THEN [co |-> add, st |-> "SOLD"]
                    ELSE None]
           counted == Held(items, Existing(items))
<1>1. /\ kept # {} /\ kept \subseteq Items
      /\ \A i \in kept : i \in Existing(items) /\ items[i] \in Item
  BY DEF ConfirmSales, Listed, Live, Existing, IInv, TypeOK, SalesItem
<1>2. /\ Commit("SOLD", FALSE) /\ SetItems(new, counted) /\ rows' = RowsFor(new)
      /\ missed' = (missed \ counted) \cup ({add} \ {None})
  BY DEF ConfirmSales, CreateFromSales
<1>3. \A i \in kept : /\ [items[i] EXCEPT !.st = "SOLD"] \in Item
                      /\ [items[i] EXCEPT !.st = "SOLD"].st = "SOLD"
                      /\ [items[i] EXCEPT !.st = "SOLD"].co = items[i].co
  BY <1>1 DEF Item, ItemStatuses
<1>4. add # None => /\ [co |-> add, st |-> "SOLD"] \in Item
                    /\ [co |-> add, st |-> "SOLD"].st = "SOLD"
                    /\ [co |-> add, st |-> "SOLD"].co = add
  BY DEF Item, ItemStatuses
<1>5. \A i \in kept : new[i] = [items[i] EXCEPT !.st = "SOLD"]
  BY <1>1
<1>6. \A i \in Items \ kept : new[i] = None \/ (add # None /\ new[i] = [co |-> add, st |-> "SOLD"])
  BY DEF Added
<1>7. new \in [Items -> SalesItem]
  <2>1. \A i \in Items : new[i] \in SalesItem
    BY <1>3, <1>4, <1>5, <1>6 DEF SalesItem
  <2> QED
    BY <2>1
<1> HIDE DEF new
<1>8. \A i \in Live(new) : /\ new[i].st = "SOLD"
                           /\ \/ i \in kept /\ new[i].co = items[i].co
                              \/ add # None /\ new[i].co = add
  BY <1>3, <1>4, <1>5, <1>6 DEF Live, Existing
<1>9. Live(new) # {}
  <2>1. PICK i \in kept : TRUE
    BY <1>1
  <2>2. new[i] # None /\ new[i].st = "SOLD"
    BY <1>3, <1>5, SaleAssumption
  <2> QED
    BY <1>1, <2>1, <2>2 DEF Live, Existing
<1>10. SalesStatusOf(new, "SOLD") = "SOLD"
  BY <1>8, StatusIs
<1>11. ASSUME NEW c \in Changed(items, new) PROVE c \in counted \cup missed'
  <2>1. PICK i \in Items : \/ i \in Live(items) /\ items[i].co = c
                           \/ i \in Live(new) /\ new[i].co = c
    BY ChangedFact
  <2>2. CASE i \in Live(items) /\ items[i].co = c
    BY <2>2 DEF Held, Live
  <2>3. CASE i \in Live(new) /\ new[i].co = c
    BY <1>1, <1>2, <1>8, <2>3 DEF Held
  <2> QED
    BY <2>1, <2>2, <2>3
<1> HIDE DEF counted
<1>12. Held(items, Existing(items)) \subseteq counted
  BY DEF counted
<1>13. missed \ counted \subseteq missed'
  BY <1>2
<1> QED
  BY <1>2, <1>7, <1>10, <1>11, <1>12, <1>13, SaleRequestAgrees

-----------------------------------------------------------------------------
LEMMA DispatchAgrees ==
    ASSUME IInv, AInv, Dispatch
    PROVE  AInv'
<1> DEFINE new == [i \in Items |-> IF rows[i] = None \/ items[i] = None THEN rows[i]
                                ELSE [rows[i] EXCEPT !.op = TRUE, !.req = items[i].co]]
<1>1. /\ rows' = new /\ delivery' = "DISPATCHED" /\ delivery = "PENDING" /\ job.at = "idle"
      /\ UNCHANGED <<items, sale, cancelled, billing, made, deleted, shown, job,
                     reading, uncounted, revived, missed, cut, mixed, overwritten>>
  BY DEF Dispatch, Open, saleVars, historyVars
<1>2. ASSUME NEW i \in Items, rows[i] # None, items[i] # None
      PROVE  new[i] # None /\ new[i].req = items[i].co
  <2>1. rows[i] \in LoadingRow /\ items[i].co \in Containers
    BY <1>2, ItemFacts DEF IInv, TypeOK, Row
  <2> DEFINE row == new[i]
  <2>2. row = [rows[i] EXCEPT !.op = TRUE, !.req = items[i].co]
    BY <1>2
  <2> HIDE DEF row
  <2>3. row \in LoadingRow /\ row.req = items[i].co
    BY <2>1, <2>2 DEF LoadingRow
  <2> QED
    BY <2>3, SaleAssumption DEF row
<1> HIDE DEF new
<1>3. revived = {}
  BY <1>1 DEF AInv, RevivedInv
<1>4. RevivedInv'
  BY <1>1, <1>3 DEF RevivedInv
<1>5. ASSUME ~mixed PROVE RestInv' /\ UnloadInv'
  <2>1. UnloadInv'
    BY <1>1 DEF UnloadInv, FormAgrees, AppliedAgree, TouchedAgree, SettledAgree
  <2>2. UndoAgrees' /\ RestoredAgrees'
    BY <1>1 DEF UndoAgrees, RestoredAgrees
  <2>3. RowsAgree'
    BY <1>1, <1>2, <1>3, <1>5 DEF AInv, RestInv, RowsAgree, Live, Existing
  <2>4. SalesStatusOf(items, sale)' = SalesStatusOf(items, sale)
    BY <1>1
  <2>5. IdleAgrees'
    BY <1>1, <1>5, <2>4 DEF AInv, RestInv, IdleAgrees, Unexplained, Held
  <2> QED
    BY <2>1, <2>2, <2>3, <2>5 DEF RestInv
<1> QED
  BY <1>1, <1>4, <1>5 DEF AInv

LEMMA SameStatus ==
    ASSUME UNCHANGED <<items, sale>>
    PROVE  SalesStatusOf(items, sale)' = SalesStatusOf(items, sale)
  OBVIOUS

LEMMA LoadAgrees ==
    ASSUME IInv, AInv, Load
    PROVE  AInv'
<1> DEFINE new == [i \in Items |-> IF rows[i] = None THEN None
                                ELSE [rows[i] EXCEPT !.op = TRUE]]
<1>1. /\ rows' = new /\ delivery' = "LOADED" /\ delivery = "DISPATCHED" /\ job.at = "idle"
      /\ UNCHANGED <<items, sale, cancelled, billing, made, deleted, shown, job,
                     reading, uncounted, revived, missed, cut, mixed, overwritten>>
  BY DEF Load, Open, saleVars, historyVars
<1>2. ASSUME NEW i \in Items, rows[i] # None
      PROVE  new[i] # None /\ new[i].req = rows[i].req /\ new[i].act = rows[i].act
  <2>1. rows[i] \in LoadingRow
    BY <1>2 DEF IInv, TypeOK, Row
  <2> DEFINE row == new[i]
  <2>2. row = [rows[i] EXCEPT !.op = TRUE]
    BY <1>2
  <2> HIDE DEF row
  <2>3. row \in LoadingRow /\ row.req = rows[i].req /\ row.act = rows[i].act
    BY <2>1, <2>2 DEF LoadingRow
  <2> QED
    BY <2>3, SaleAssumption DEF row
<1>3. \A i \in Items : rows[i] = None => new[i] = None
  OBVIOUS
<1> HIDE DEF new
<1>4. RevivedInv'
  BY <1>1 DEF AInv, RevivedInv
<1>5. ASSUME ~mixed PROVE RestInv' /\ UnloadInv'
  <2>1. UnloadInv'
    BY <1>1 DEF UnloadInv, FormAgrees, AppliedAgree, TouchedAgree, SettledAgree
  <2>2. UndoAgrees' /\ RestoredAgrees'
    BY <1>1 DEF UndoAgrees, RestoredAgrees
  <2>3. RowsAgree'
    BY <1>1, <1>2, <1>3, <1>5 DEF AInv, RestInv, RowsAgree, Live, Existing, WithRow
  <2>4. IdleAgrees'
    BY <1>1, <1>5, SameStatus DEF AInv, RestInv, IdleAgrees, Unexplained, Held
  <2> QED
    BY <2>1, <2>2, <2>3, <2>4 DEF RestInv
<1> QED
  BY <1>1, <1>4, <1>5 DEF AInv

\* A step that leaves alone all the invariant is about but the deletion.
LEMMA AsideAgrees ==
    ASSUME AInv, deleted' = deleted \/ deleted' = TRUE, mixed' = mixed \/ mixed' = TRUE,
           UNCHANGED <<items, rows, delivery, sale, job, uncounted, revived, missed, cut>>
    PROVE  AInv'
<1>1. RevivedInv'
  BY DEF AInv, RevivedInv, Existing
<1>2. ASSUME ~mixed, ~mixed' PROVE RestInv' /\ UnloadInv'
  <2>1. RowsAgree'
    BY <1>2 DEF AInv, RestInv, RowsAgree, Live, Existing, WithRow
  <2>2. IdleAgrees'
    BY <1>2, SameStatus DEF AInv, RestInv, IdleAgrees, Unexplained, Held
  <2>3. UndoAgrees' /\ RestoredAgrees'
    BY <1>2 DEF AInv, RestInv, UndoAgrees, RestoredAgrees, Unexplained, Live, Existing, WithRow
  <2>4. FormAgrees' /\ AppliedAgree'
    BY <1>2 DEF AInv, UnloadInv, FormAgrees, AppliedAgree, Unexplained, Held, Live, Existing,
       WithRow
  <2>5. TouchedAgree' /\ SettledAgree'
    BY <1>2 DEF AInv, UnloadInv, TouchedAgree, SettledAgree, Unexplained, Held, Live, Existing,
       WithRow
  <2> QED
    BY <2>1, <2>2, <2>3, <2>4, <2>5 DEF RestInv, UnloadInv
<1> QED
  BY <1>1, <1>2 DEF AInv

\* An unloading begins: nothing is unexplained yet.
LEMMA StartUnloadingAgrees ==
    ASSUME IInv, AInv, NEW j, Start("UNLOADED", j), j.at \in {"add", "diff", "load"}
    PROVE  AInv'
<1>1. /\ delivery' = "UNLOADED" /\ job' = j /\ missed' = missed \cup uncounted
      /\ UNCHANGED <<items, rows, uncounted, revived>>
  BY DEF Start, saleVars
<1>2. RevivedInv'
  BY <1>1 DEF AInv, RevivedInv, Existing
<1>3. Unexplained' = {}
  BY <1>1 DEF Unexplained
<1>4. RestInv'
  BY <1>1 DEF RestInv, RowsAgree, IdleAgrees, UndoAgrees, RestoredAgrees, Restoring
<1>5. UnloadInv'
  BY <1>1, <1>3 DEF UnloadInv, FormAgrees, AppliedAgree, TouchedAgree, SettledAgree
<1> QED
  BY <1>2, <1>4, <1>5 DEF AInv

LEMMA UnloadAgrees ==
    ASSUME IInv, AInv, NEW act \in [shown -> Containers \cup {None}],
           NEW add \in Containers \cup {None}, Unload(act, add)
    PROVE  AInv'
<1> DEFINE kept == {i \in shown : act[i] # None}
           mem == [i \in Items |-> IF i \notin kept THEN None ELSE
                               [op |-> FALSE, req |-> act[i], act |-> act[i]]]
           j == [Idle EXCEPT !.at = IF add = None THEN "diff" ELSE "add",
                             !.mem = mem, !.add = add]
<1>1. Start("UNLOADED", j)
  BY DEF Unload
<1> HIDE DEF mem
<1>2. j.at \in {"add", "diff"}
  BY DEF Idle
<1> HIDE DEF j
<1> QED
  BY <1>1, <1>2, StartUnloadingAgrees

LEMMA UnloadStatusOnlyAgrees ==
    ASSUME IInv, AInv, UnloadStatusOnly
    PROVE  AInv'
<1> DEFINE j == [Idle EXCEPT !.at = "load"]
<1>1. Start("UNLOADED", j)
  BY DEF UnloadStatusOnly
<1>2. j.at = "load"
  BY DEF Idle
<1> HIDE DEF j
<1> QED
  BY <1>1, <1>2, StartUnloadingAgrees

LEMMA RestoreAgrees ==
    ASSUME IInv, AInv, Restore
    PROVE  AInv'
<1> DEFINE j == [Idle EXCEPT !.at = "undo", !.mem = rows, !.todo = WithRow(rows)]
<1>1. ~deleted /\ job.at = "idle" /\ Start("LOADED", j)
  BY DEF Restore, Open
<1>2. j.at = "undo" /\ j.mem = rows /\ j.todo = WithRow(rows)
  BY DEF Idle
<1> HIDE DEF j
<1>3. /\ delivery' = "LOADED" /\ job' = j /\ missed' = missed \cup uncounted
      /\ mixed' = (reading # None \/ (mixed /\ "LOADED" # "UNLOADED"))
      /\ UNCHANGED <<items, rows, deleted, uncounted, revived, cut>>
  BY <1>1 DEF Start, saleVars
<1>4. RevivedInv'
  BY <1>3 DEF AInv, RevivedInv, Existing
<1>5. Unexplained' = {}
  BY <1>3 DEF Unexplained
<1>6. ASSUME ~mixed' PROVE RestInv' /\ UnloadInv'
  <2>1. ~mixed
    BY <1>3, <1>6 DEF IInv, TypeOK
  <2>2. UnloadInv'
    BY <1>2, <1>3 DEF UnloadInv, FormAgrees, AppliedAgree, TouchedAgree, SettledAgree
  <2>3. RowsAgree'
    BY <1>1, <1>3, <2>1 DEF AInv, RestInv, RowsAgree, Live, Existing, WithRow
  <2>4. UndoAgrees'
    BY <1>1, <1>2, <1>3, <1>5, <2>1 DEF AInv, RestInv, RowsAgree, UndoAgrees, Live, Existing,
       WithRow
  <2>5. IdleAgrees' /\ RestoredAgrees'
    BY <1>2, <1>3 DEF IdleAgrees, RestoredAgrees
  <2> QED
    BY <2>2, <2>3, <2>4, <2>5 DEF RestInv
<1> QED
  BY <1>4, <1>6 DEF AInv

\* A job cut short leaves nothing to agree.
LEMMA CutShortAgrees ==
    ASSUME AInv, CutShort, Quiet, UNCHANGED <<items, rows, uncounted, revived>>
    PROVE  AInv'
<1>1. job'.at = "idle" /\ cut' = TRUE
  BY DEF CutShort, Idle
<1>2. RevivedInv'
  BY DEF AInv, RevivedInv, Quiet, Apart, Existing
<1>3. RestInv'
  BY <1>1 DEF RestInv, RowsAgree, IdleAgrees, UndoAgrees, RestoredAgrees
<1>4. UnloadInv'
  BY <1>1 DEF UnloadInv, FormAgrees, AppliedAgree, TouchedAgree, SettledAgree
<1> QED
  BY <1>2, <1>3, <1>4 DEF AInv

\* No item has a number not yet given.
MadeInv == \A i \in Existing(items) : i <= made

\* While rows are read or written by an unloading, nothing rests.
LEMMA UnloadStepAgrees ==
    ASSUME AInv, Apart, Existing(items) \subseteq Existing(items'),
           revived' = revived \/ (revived' \subseteq Existing(items') /\ delivery # "PENDING"),
           job'.at \in Unloading,
           ~mixed => UnloadInv'
    PROVE  AInv'
<1>1. delivery' = delivery /\ mixed' = mixed
  BY DEF Apart
<1>2. RevivedInv'
  BY <1>1 DEF AInv, RevivedInv, Existing
<1>3. RestInv'
  BY DEF RestInv, RowsAgree, IdleAgrees, UndoAgrees, RestoredAgrees, Unloading, Restoring
<1> QED
  BY <1>1, <1>2, <1>3 DEF AInv

LEMMA AddItemAgrees ==
    ASSUME IInv, AInv, MadeInv, AddItem
    PROVE  AInv'
<1> DEFINE holders == {i \in Existing(items) : items[i].co = job.add}
           S == holders \ Live(items)
           new == [i \in Items |-> IF i \in S THEN [items[i] EXCEPT !.st = "COMPLETED"]
                                  ELSE items[i]]
           item == [co |-> job.add, st |-> "COMPLETED"]
           made1 == [items EXCEPT ![made + 1] = item]
           j == [job EXCEPT !.at = "diff"]
<1>1. /\ job.at = "add" /\ job' = j /\ Quiet
      /\ UNCHANGED <<rows, revived>>
      /\ \/ made < MaxItems /\ SetItems(made1, {})
         \/ SetItems(new, {})
  BY DEF AddItem
<1>2. j.at = "diff" /\ j.add = job.add /\ job.add \in Containers
  BY <1>1 DEF IInv, JobInv, TypeOK, Job
<1> HIDE DEF j
<1>3. ~mixed => Unexplained = {}
  BY <1>1 DEF AInv, UnloadInv, FormAgrees
<1>4. CASE made < MaxItems /\ SetItems(made1, {})
  <2>1. items' = made1 /\ uncounted' = uncounted \cup Changed(items, made1)
    BY <1>4 DEF SetItems
  <2>2. made + 1 \in Items /\ items[made + 1] = None
    <3>0. made \in 0 .. MaxItems /\ MaxItems \in Nat
      BY SaleAssumption DEF IInv, TypeOK
    <3>1. made \in Nat /\ made + 1 \in Items /\ ~(made + 1 <= made)
      BY <1>4, <3>0 DEF Items
    <3>2. made + 1 \notin Existing(items)
      BY <3>1 DEF MadeInv
    <3> QED
      BY <3>1, <3>2 DEF Existing
  <2>3. item \in Item /\ item.co = job.add /\ item.st = "COMPLETED"
    BY <1>2 DEF Item, ItemStatuses
  <2>4. item # None
    BY <2>3, SaleAssumption
  <2> HIDE DEF item
  <2>5. made1[made + 1] = item /\ \A k \in Items \ {made + 1} : made1[k] = items[k]
    BY <2>2 DEF IInv, TypeOK
  <2> HIDE DEF made1
  <2>6. Existing(items) \subseteq Existing(items') /\ made + 1 \in Live(items')
    BY <2>1, <2>2, <2>3, <2>4, <2>5 DEF Existing, Live
  <2>7. ASSUME NEW c \in Changed(items, made1) PROVE c = job.add
    <3>1. PICK i \in Items : /\ items[i] # made1[i]
                             /\ \/ i \in Live(items) /\ items[i].co = c
                                \/ i \in Live(made1) /\ made1[i].co = c
      BY ChangedFact
    <3>2. i = made + 1
      BY <2>5, <3>1
    <3> QED
      BY <2>2, <2>3, <2>5, <3>1, <3>2 DEF Live, Existing
  <2>8. ~mixed => FormAgrees'
    BY <1>1, <1>2, <1>3, <2>1, <2>3, <2>5, <2>6, <2>7 DEF FormAgrees, Unexplained, Quiet, Apart
  <2>9. ~mixed => UnloadInv'
    BY <1>1, <1>2, <2>8 DEF UnloadInv, AppliedAgree, TouchedAgree, SettledAgree
  <2> QED
    BY <1>1, <1>2, <2>6, <2>9, UnloadStepAgrees DEF Unloading, Quiet
<1>5. CASE SetItems(new, {})
  <2>1. S \in SUBSET Existing(items) /\ "COMPLETED" \in ItemStatuses
    BY DEF ItemStatuses
  <2>2. \A i \in S : items[i].co = job.add
    OBVIOUS
  <2> HIDE DEF S
  <2>3. /\ \A i \in S : new[i] = [items[i] EXCEPT !.st = "COMPLETED"]
        /\ \A i \in Items \ S : new[i] = items[i]
    BY <2>1 DEF Existing
  <2> HIDE DEF new
  <2>4. /\ Existing(items') = Existing(items)
        /\ \A i \in Existing(items) : /\ items'[i].co = items[i].co
                                      /\ items'[i].st = IF i \in S THEN "COMPLETED" ELSE items[i].st
        /\ \A c \in uncounted' : c \in uncounted \/ \E i \in S : items[i].co = c
    <3>1. TypeOK /\ SetItems(new, {})
      BY <1>5 DEF IInv
    <3>2. /\ items' = new
          /\ Existing(items') = Existing(items)
          /\ \A i \in Existing(items) : /\ items'[i].co = items[i].co
                                        /\ items'[i].st = IF i \in S THEN "COMPLETED" ELSE items[i].st
          /\ \A c \in uncounted' : c \in uncounted \/
                \E i \in S : /\ items[i].co = c
                             /\ i \in Live(items) \/ "COMPLETED" # "CANCELLED"
      BY <2>1, <2>3, <3>1, Marked, ZenonT(30)
    <3> QED
      BY <3>2
  <2>5. \A i \in S : i \in Live(items') /\ items'[i].co = job.add
    BY <2>1, <2>2, <2>4 DEF Live
  <2>6. ~mixed => FormAgrees'
    BY <1>1, <1>2, <1>3, <2>1, <2>4, <2>5 DEF FormAgrees, Unexplained, Quiet, Apart
  <2>7. ~mixed => UnloadInv'
    BY <1>1, <1>2, <2>6 DEF UnloadInv, AppliedAgree, TouchedAgree, SettledAgree
  <2> QED
    BY <1>1, <1>2, <2>4, <2>7, UnloadStepAgrees DEF Unloading, Quiet
<1> QED
  BY <1>1, <1>4, <1>5

LEMMA DiffAgrees ==
    ASSUME IInv, AInv, Diff
    PROVE  AInv'
<1> DEFINE kept == WithRow(job.mem)
           adds == {i \in Live(items) : job.add # None /\ items[i].co = job.add}
           gone == WithRow(rows) \ kept
           act(i) == [op |-> rows[i] # None /\ rows[i].op,
                      req |-> IF rows[i] = None THEN job.mem[i].act ELSE rows[i].req,
                      act |-> job.mem[i].act]
           newRows == [i \in Items |->
                      IF i \in kept /\ (rows[i] # None \/ i \in Live(items)) THEN act(i)
                      ELSE IF i \in adds \ kept
                           THEN [NewRow(job.add) EXCEPT !.act = job.add]
                      ELSE None]
           new == [i \in Items |->
                      IF i \in gone THEN [items[i] EXCEPT !.st = "CANCELLED"]
                      ELSE items[i]]
           j == [job EXCEPT !.at = "load", !.out = gone]
<1>1. /\ job.at = "diff" /\ Quiet /\ revived' = revived
      /\ \/ /\ rows' = newRows /\ SetItems(new, {}) /\ job' = j
         \/ CutShort /\ UNCHANGED <<items, rows, uncounted>>
  BY DEF Diff
<1>2. CASE CutShort /\ UNCHANGED <<items, rows, uncounted>>
  BY <1>1, <1>2, CutShortAgrees
<1>3. CASE rows' = newRows /\ SetItems(new, {}) /\ job' = j
  <2>1. gone \in SUBSET Existing(items) /\ "CANCELLED" \in ItemStatuses
    BY DEF IInv, RowsHaveItems, ItemStatuses
  <2>2. \A i \in Items : i \in kept => act(i) \in LoadingRow
    BY <1>1, RowFacts DEF IInv, TypeOK, Job, JobInv, WithRow, Row, LoadingRow
  <2>3. adds # {} => [NewRow(job.add) EXCEPT !.act = job.add] \in LoadingRow
    BY DEF IInv, TypeOK, Job, NewRow, LoadingRow
  <2>4. j.at = "load" /\ j.out = gone
    BY DEF IInv, TypeOK, Job
  <2>5. \A i \in adds : i \in Items
    BY DEF Live, Existing
  <2>6. /\ \A i \in gone : new[i] = [items[i] EXCEPT !.st = "CANCELLED"]
        /\ \A i \in Items \ gone : new[i] = items[i]
    BY <2>1 DEF Existing
  <2> HIDE DEF kept, act, gone, new, j
  <2>7. ASSUME NEW i \in adds PROVE newRows[i] # None
    <3>1. i \in Items /\ i \in Live(items)
      BY <2>5
    <3>2. newRows[i] = IF i \in kept THEN act(i) ELSE [NewRow(job.add) EXCEPT !.act = job.add]
      BY <3>1
    <3>3. newRows[i] \in LoadingRow
      BY <2>2, <2>3, <3>1, <3>2
    <3> QED
      BY <3>3, SaleAssumption
  <2>8. \A i \in Live(items) : job.add # None /\ items[i].co = job.add => i \in adds
    OBVIOUS
  <2> HIDE DEF newRows, adds
  <2>9. /\ Existing(items') = Existing(items)
        /\ \A i \in Existing(items) : items'[i].co = items[i].co
        /\ \A c \in uncounted' : c \in uncounted \/ \E i \in gone : items[i].co = c
    <3>1. TypeOK /\ SetItems(new, {})
      BY <1>3 DEF IInv
    <3>2. /\ items' = new
          /\ Existing(items') = Existing(items)
          /\ \A i \in Existing(items) : /\ items'[i].co = items[i].co
                                        /\ items'[i].st = IF i \in gone THEN "CANCELLED" ELSE items[i].st
          /\ \A c \in uncounted' : c \in uncounted \/
                \E i \in gone : /\ items[i].co = c
                                /\ i \in Live(items) \/ "CANCELLED" # "CANCELLED"
      BY <2>1, <2>6, <3>1, Marked
    <3> QED
      BY <3>2
  <2>10. ASSUME ~mixed, NEW c \in Unexplained'
         PROVE  c \in Held(items', (job'.out \cup WithRow(rows')) \cap Existing(items'))
    <3>1. c \in Unexplained \/ \E i \in gone : items[i].co = c
      BY <1>1, <2>9 DEF Unexplained, Quiet, Apart
    <3>2. CASE \E i \in gone : items[i].co = c
      BY <1>3, <2>1, <2>4, <2>9, <3>2 DEF Held
    <3>3. CASE c \in Unexplained
      <4>1. PICK i \in Live(items) : items[i].co = c /\ job.add = c
        BY <1>1, <2>10, <3>3 DEF AInv, UnloadInv, FormAgrees
      <4>2. i \in Existing(items) /\ items[i].co \in Containers
        BY ItemFacts DEF Live, Existing, IInv, TypeOK
      <4>3. job.add # None
        BY <4>1, <4>2, SaleAssumption
      <4>4. newRows[i] # None
        BY <2>7, <2>8, <4>1, <4>3
      <4> QED
        BY <1>3, <2>9, <4>1, <4>2, <4>4 DEF Held, WithRow, Existing
    <3> QED
      BY <3>1, <3>2, <3>3
  <2>11. ~mixed => UnloadInv'
    BY <1>3, <2>4, <2>10 DEF UnloadInv, FormAgrees, AppliedAgree, TouchedAgree, SettledAgree
  <2> QED
    BY <1>1, <1>3, <2>4, <2>9, <2>11, UnloadStepAgrees DEF Unloading, Quiet
<1> QED
  BY <1>1, <1>2, <1>3

LEMMA LoadRowsAgrees ==
    ASSUME IInv, IInv', AInv, LoadRows
    PROVE  AInv'
<1>1. /\ job.at = "load" /\ Quiet /\ UNCHANGED <<items, rows, uncounted, revived>>
  BY DEF LoadRows, saleVars
<1>2. /\ job'.at = "apply" /\ job'.todo = WithRow(rows) /\ job'.out = job.out
      /\ job'.touched = job.touched
      /\ \A i \in Items : rows[i] = None => job'.mem[i] = None
  BY DEF LoadRows, IInv, TypeOK, Job
<1>3. WithRow(rows') = WithRow(job'.mem)
  <2>1. job'.todo \subseteq WithRow(job'.mem)
    BY DEF IInv, JobInv
  <2> QED
    BY <1>1, <1>2, <2>1 DEF WithRow
<1>4. AppliedAgree'
  BY <1>1, <1>2, <1>3 DEF AppliedAgree
<1>5. ASSUME ~mixed PROVE TouchedAgree'
  <2>1. Unexplained \subseteq Held(items, (job.out \cup WithRow(rows)) \cap Existing(items))
    BY <1>1, <1>5 DEF AInv, UnloadInv, FormAgrees
  <2>2. Unexplained' = Unexplained
    BY <1>1 DEF Unexplained, Quiet, Apart
  <2>3. (job.out \cup WithRow(rows)) \cap Existing(items) =
           (((job'.out \ WithRow(rows')) \cup job'.todo) \cap Existing(items'))
    BY <1>1, <1>2
  <2> QED
    BY <1>1, <1>2, <2>1, <2>2, <2>3 DEF TouchedAgree
<1>6. FormAgrees' /\ SettledAgree'
  BY <1>2 DEF FormAgrees, SettledAgree
<1> QED
  BY <1>1, <1>2, <1>4, <1>5, <1>6, UnloadStepAgrees DEF UnloadInv, Unloading, Quiet

\* What an item's move does: it gets the container `to', and cancelled items
\* that had it may be evicted.
LEMMA Moved ==
    ASSUME TypeOK, NEW i \in Existing(items), NEW to \in Containers,
           NEW other \in Containers \cup {None}, NEW its,
           its = items \/ (other # None /\ its = Evicted(i, to, other)),
           SetItems([its EXCEPT ![i].co = to], {})
    PROVE  /\ Existing(items') = Existing(items)
           /\ items'[i].co = to
           /\ \A k \in Existing(items) : items'[k].st = items[k].st
           /\ \A k \in Existing(items) \ {i} :
                 \/ items'[k] = items[k]
                 \/ k \notin Live(items) /\ items[k].co = to
           /\ \A c \in uncounted' : c \in uncounted \cup {items[i].co, to}
<1> DEFINE new == [its EXCEPT ![i].co = to]
<1>1. items' = new /\ uncounted' = uncounted \cup Changed(items, new)
  BY DEF SetItems
<1>2. \A k \in Items : items[k] # None => items[k] \in Item
  BY DEF TypeOK, SalesItem
<1>3. i \in Items /\ items[i] # None
  BY DEF Existing
<1>4. /\ its \in [Items -> SalesItem]
      /\ its[i] = items[i]
      /\ \A k \in Items : items[k] = None => its[k] = None
      /\ \A k \in Items \ {i} : items[k] # None =>
            \/ its[k] = items[k]
            \/ /\ items[k].st = "CANCELLED" /\ items[k].co = to
               /\ other # None /\ its[k] = [items[k] EXCEPT !.co = other]
  <2>1. CASE its = items
    BY <1>3, <2>1 DEF TypeOK
  <2>2. CASE other # None /\ its = Evicted(i, to, other)
    <3>1. its \in [Items -> SalesItem]
      BY <2>2, EvictedType
    <3>2. its = [j \in Items |->
             IF j # i /\ items[j] # None /\ items[j].co = to /\ items[j].st = "CANCELLED"
             THEN [items[j] EXCEPT !.co = other] ELSE items[j]]
      BY <2>2 DEF Evicted
    <3> QED
      BY <1>3, <2>2, <3>1, <3>2
  <2> QED
    BY <2>1, <2>2
<1>5. \A k \in Items : items[k] # None /\ other # None =>
         LET it == [items[k] EXCEPT !.co = other]
         IN  it \in Item /\ it.st = items[k].st /\ it # None
  BY <1>2, SaleAssumption DEF Item
<1>6. \A k \in Items \ {i} : new[k] = its[k]
  BY <1>3, <1>4
<1>7. new[i] = [items[i] EXCEPT !.co = to]
  BY <1>3, <1>4
<1>8. new[i].co = to /\ new[i].st = items[i].st /\ new[i] # None
  <2> DEFINE it == new[i]
  <2>1. it = [items[i] EXCEPT !.co = to] /\ items[i] \in Item
    BY <1>2, <1>3, <1>7
  <2> HIDE DEF it
  <2>2. it \in Item /\ it.co = to /\ it.st = items[i].st
    BY <2>1 DEF Item
  <2> QED
    BY <2>2, SaleAssumption DEF it
<1> HIDE DEF new
<1>9. ASSUME NEW k \in Existing(items)
      PROVE  /\ new[k] # None /\ new[k].st = items[k].st
             /\ k # i => \/ new[k] = items[k]
                         \/ k \notin Live(items) /\ items[k].co = to
  <2>0. k \in Items /\ items[k] # None
    BY DEF Existing
  <2>1. CASE k = i
    BY <1>8, <2>1
  <2>2. CASE k # i /\ its[k] = items[k]
    BY <1>6, <2>0, <2>2
  <2>3. CASE /\ k # i /\ items[k].st = "CANCELLED" /\ items[k].co = to
             /\ other # None /\ its[k] = [items[k] EXCEPT !.co = other]
    BY <1>5, <1>6, <2>0, <2>3 DEF Live
  <2> QED
    BY <1>4, <2>0, <2>1, <2>2, <2>3
<1>10. \A k \in Items \ Existing(items) : new[k] = None
  BY <1>3, <1>4, <1>6 DEF Existing
<1>11. Existing(new) = Existing(items)
  BY <1>9, <1>10 DEF Existing
<1>12. ASSUME NEW c \in Changed(items, new) PROVE c \in {items[i].co, to}
  <2>1. PICK k \in Items : /\ items[k] # new[k]
                           /\ \/ k \in Live(items) /\ items[k].co = c
                              \/ k \in Live(new) /\ new[k].co = c
    BY ChangedFact
  <2>2. k \in Existing(items) /\ k \in Live(items)
    BY <1>9, <1>11, <2>1 DEF Live
  <2>3. k = i
    BY <1>9, <2>1, <2>2
  <2> QED
    BY <1>8, <2>1, <2>3
<1> QED
  BY <1>1, <1>8, <1>9, <1>11, <1>12

LEMMA ApplyAgrees ==
    ASSUME IInv, AInv, NEW i \in job.todo, NEW other \in Containers \cup {None}, Apply(i, other)
    PROVE  AInv'
<1> DEFINE row == job.mem[i]
           to == row.act
           from == items[i].co
           its == IF Clash(items, i, to) /\ other # None THEN Evicted(i, to, other) ELSE items
           newRows == [rows EXCEPT ![i] = [row EXCEPT !.req = to]]
           skip == [job EXCEPT !.todo = @ \ {i}]
           j == [job EXCEPT !.todo = @ \ {i}, !.touched = @ \cup {row.req, to, from}]
<1>1. /\ job.at = "apply" /\ Quiet /\ revived' = revived
      /\ \/ items[i] = None /\ job' = skip /\ UNCHANGED <<items, rows, uncounted>>
         \/ CutShort /\ UNCHANGED <<items, rows, uncounted>>
         \/ /\ items[i] # None /\ SetItems([its EXCEPT ![i].co = to], {}) /\ rows' = newRows
            /\ job' = j
  BY DEF Apply
<1>0. /\ i \in Items /\ i \in WithRow(job.mem) /\ row \in Row /\ row # None
      /\ row.act # None
  BY <1>1 DEF IInv, TypeOK, Job, JobInv, WithRow
<1>2. CASE CutShort /\ UNCHANGED <<items, rows, uncounted>>
  BY <1>1, <1>2, CutShortAgrees
<1>3. CASE items[i] = None /\ job' = skip /\ UNCHANGED <<items, rows, uncounted>>
  <2>1. skip.at = "apply"
    BY <1>1 DEF IInv, TypeOK, Job
  <2>2. ~mixed => i \in WithRow(rows)
    BY <1>0, <1>1 DEF AInv, UnloadInv, AppliedAgree
  <2>3. mixed
    BY <1>3, <2>2 DEF IInv, TypeOK, RowsHaveItems, Existing
  <2> QED
    BY <1>1, <1>3, <2>1, <2>3, UnloadStepAgrees DEF Unloading, Quiet
<1>4. CASE /\ items[i] # None /\ SetItems([its EXCEPT ![i].co = to], {}) /\ rows' = newRows
           /\ job' = j
  <2>1. to \in Containers
    BY <1>0, RowFacts
  <2>2. /\ j.at = "apply" /\ j.mem = job.mem /\ j.todo = job.todo \ {i} /\ j.out = job.out
        /\ job.touched \subseteq j.touched /\ to \in j.touched /\ from \in j.touched
    BY <1>1 DEF IInv, TypeOK, Job
  <2>3. i \in Existing(items)
    BY <1>0, <1>4 DEF Existing
  <2>4. newRows[i] # None /\ newRows[i].req = to /\ newRows[i].act = to
    <3> DEFINE r == newRows[i]
    <3>1. r = [row EXCEPT !.req = to] /\ row \in LoadingRow
      BY <1>0 DEF IInv, TypeOK, Row
    <3> HIDE DEF r
    <3>2. r \in LoadingRow /\ r.req = to /\ r.act = row.act
      BY <2>1, <3>1 DEF LoadingRow
    <3> QED
      BY <3>2, SaleAssumption DEF r
  <2>5. \A k \in Items \ {i} : newRows[k] = rows[k]
    BY DEF IInv, TypeOK
  <2> HIDE DEF newRows, j
  <2>6. /\ Existing(items') = Existing(items)
        /\ items'[i].co = to
        /\ \A k \in Existing(items) : items'[k].st = items[k].st
        /\ \A k \in Existing(items) \ {i} :
              \/ items'[k] = items[k]
              \/ k \notin Live(items) /\ items[k].co = to
        /\ \A c \in uncounted' : c \in uncounted \cup {from, to}
    <3>1. its = items \/ (other # None /\ its = Evicted(i, to, other))
      OBVIOUS
    <3>2. TypeOK /\ SetItems([its EXCEPT ![i].co = to], {})
      BY <1>4 DEF IInv
    <3> HIDE DEF its, to
    <3> QED
      BY <2>1, <2>3, <3>1, <3>2, Moved
  <2> HIDE DEF its
  <2>7. Live(items') = Live(items)
    BY <2>6 DEF Live
  <2>8. ASSUME ~mixed PROVE UnloadInv'
    <3>1. /\ WithRow(rows) = WithRow(job.mem)
          /\ \A k \in WithRow(rows) \ job.todo :
                rows[k].req = rows[k].act /\ (k \in Live(items) => items[k].co = rows[k].act)
      BY <1>1, <2>8 DEF AInv, UnloadInv, AppliedAgree
    <3>2. /\ Unexplained \subseteq job.touched \cup
               Held(items, ((job.out \ WithRow(rows)) \cup job.todo) \cap Existing(items))
          /\ \A k \in (WithRow(rows) \ job.todo) \cap Live(items) : items[k].co \in job.touched
      BY <1>1, <2>8 DEF AInv, UnloadInv, TouchedAgree
    <3>3. WithRow(rows') = WithRow(rows)
      BY <1>0, <1>4, <2>4, <2>5, <3>1 DEF WithRow
    <3>4. AppliedAgree'
      <4>1. ASSUME NEW k \in WithRow(rows') \ job'.todo
            PROVE  /\ rows'[k].req = rows'[k].act
                   /\ k \in Live(items') => items'[k].co = rows'[k].act
        <5>1. CASE k = i
          BY <1>4, <2>4, <2>6, <5>1
        <5>2. CASE k # i
          <6>1. k \in WithRow(rows) \ job.todo /\ rows'[k] = rows[k] /\ k \in Items
            BY <1>4, <2>2, <2>5, <3>3, <5>2 DEF WithRow
          <6>2. k \in Live(items') => k \in Live(items) /\ items'[k] = items[k]
            BY <2>6, <2>7, <5>2 DEF Live
          <6> QED
            BY <3>1, <6>1, <6>2
        <5> QED
          BY <5>1, <5>2
      <4> QED
        BY <1>4, <2>2, <3>1, <3>3, <4>1 DEF AppliedAgree
    <3>5. ASSUME NEW c \in Unexplained'
          PROVE  c \in job'.touched \cup
             Held(items', ((job'.out \ WithRow(rows')) \cup job'.todo) \cap Existing(items'))
      <4>1. c \in Unexplained \/ c \in {from, to}
        BY <1>1, <2>6 DEF Unexplained, Quiet, Apart
      <4>2. CASE c \in {from, to} \/ c \in job.touched
        BY <1>4, <2>2, <4>2
      <4>3. CASE c \in Held(items, ((job.out \ WithRow(rows)) \cup job.todo) \cap Existing(items))
        <5>1. PICK k \in ((job.out \ WithRow(rows)) \cup job.todo) \cap Existing(items) :
                 items[k].co = c
          BY <4>3 DEF Held
        <5>2. CASE k = i \/ items[k].co = to
          BY <1>4, <2>2, <5>1, <5>2
        <5>3. CASE k # i /\ items[k].co # to
          <6>1. items'[k].co = c
            BY <2>6, <5>1, <5>3
          <6>2. k \in ((job'.out \ WithRow(rows')) \cup job'.todo) \cap Existing(items')
            BY <1>4, <2>2, <2>6, <3>3, <5>1, <5>3
          <6> QED
            BY <6>1, <6>2 DEF Held
        <5> QED
          BY <5>2, <5>3
      <4> QED
        BY <3>2, <4>1, <4>2, <4>3
    <3>6. ASSUME NEW k \in (WithRow(rows') \ job'.todo) \cap Live(items')
          PROVE  items'[k].co \in job'.touched
      <4>1. CASE k = i
        BY <1>4, <2>2, <2>6, <4>1
      <4>2. CASE k # i
        <5>1. items'[k] = items[k] /\ k \in (WithRow(rows) \ job.todo) \cap Live(items)
          BY <1>4, <2>2, <2>6, <2>7, <3>3, <4>2 DEF Live
        <5> QED
          BY <1>4, <2>2, <3>2, <5>1
      <4> QED
        BY <4>1, <4>2
    <3>7. TouchedAgree'
      BY <1>4, <2>2, <3>5, <3>6 DEF TouchedAgree
    <3> QED
      BY <1>4, <2>2, <3>4, <3>7 DEF UnloadInv, FormAgrees, SettledAgree
  <2> QED
    BY <1>1, <1>4, <2>2, <2>6, <2>8, UnloadStepAgrees DEF Unloading, Quiet
<1> QED
  BY <1>1, <1>2, <1>3, <1>4

LEMMA SettleAgrees ==
    ASSUME IInv, AInv, Settle
    PROVE  AInv'
<1> DEFINE removed == (job.out \cup Live(items)) \ WithRow(job.mem)
           S == removed \cap Existing(items)
           new == [i \in Items |-> IF i \in S THEN [items[i] EXCEPT !.st = "CANCELLED"]
                                  ELSE items[i]]
           j == [job EXCEPT !.at = "complete", !.out = removed, !.touched = @ \cup Held(items, S)]
<1>1. /\ job.at = "apply" /\ job.todo = {} /\ Quiet /\ SetItems(new, {}) /\ job' = j
      /\ UNCHANGED <<rows, revived>>
  BY DEF Settle
<1>2. S \in SUBSET Existing(items) /\ "CANCELLED" \in ItemStatuses
  BY DEF ItemStatuses
<1>3. /\ j.at = "complete" /\ j.mem = job.mem /\ j.todo = job.todo /\ j.out = removed
      /\ j.touched = job.touched \cup Held(items, S)
  BY DEF IInv, TypeOK, Job
<1> HIDE DEF S, removed, j
<1>4. /\ \A i \in S : new[i] = [items[i] EXCEPT !.st = "CANCELLED"]
      /\ \A i \in Items \ S : new[i] = items[i]
  BY <1>2 DEF Existing
<1> HIDE DEF new
<1>5. /\ Existing(items') = Existing(items)
      /\ \A i \in Existing(items) : /\ items'[i].co = items[i].co
                                    /\ items'[i].st = IF i \in S THEN "CANCELLED" ELSE items[i].st
      /\ \A c \in uncounted' : c \in uncounted \/ \E i \in S : items[i].co = c
  <2>1. TypeOK /\ SetItems(new, {})
    BY <1>1 DEF IInv
  <2>2. /\ items' = new
        /\ Existing(items') = Existing(items)
        /\ \A i \in Existing(items) : /\ items'[i].co = items[i].co
                                      /\ items'[i].st = IF i \in S THEN "CANCELLED" ELSE items[i].st
        /\ \A c \in uncounted' : c \in uncounted \/
              \E i \in S : items[i].co = c /\ (i \in Live(items) \/ "CANCELLED" # "CANCELLED")
    BY <1>2, <1>4, <2>1, Marked
  <2> QED
    BY <2>2
<1>6. ASSUME ~mixed PROVE UnloadInv'
  <2>1. /\ WithRow(rows) = WithRow(job.mem)
        /\ \A k \in WithRow(rows) :
              rows[k].req = rows[k].act /\ (k \in Live(items) => items[k].co = rows[k].act)
    BY <1>1, <1>6 DEF AInv, UnloadInv, AppliedAgree
  <2>2. /\ Unexplained \subseteq job.touched \cup
             Held(items, (job.out \ WithRow(rows)) \cap Existing(items))
        /\ \A k \in WithRow(rows) \cap Live(items) : items[k].co \in job.touched
    BY <1>1, <1>6 DEF AInv, UnloadInv, TouchedAgree
  <2>3. \A i \in Live(items') : i \in Live(items) /\ i \in WithRow(rows)
    BY <1>5, <2>1 DEF Live, S, removed
  <2>4. AppliedAgree'
    BY <1>1, <1>3, <1>5, <2>1, <2>3 DEF AppliedAgree, Live
  <2>5. (job.out \ WithRow(rows)) \cap Existing(items) \subseteq S
    BY <2>1 DEF S, removed
  <2>6. Unexplained' \subseteq job'.touched
    BY <1>1, <1>3, <1>5, <2>2, <2>5 DEF Unexplained, Quiet, Apart, Held
  <2>7. TouchedAgree'
    BY <1>1, <1>3, <1>5, <2>2, <2>3, <2>6 DEF TouchedAgree, Live
  <2>8. SettledAgree'
    <3>1. job'.out \cap WithRow(rows') = {}
      BY <1>1, <1>3, <2>1 DEF removed
    <3>2. \A i \in job'.out \cap Existing(items') : items'[i].st = "CANCELLED"
      BY <1>1, <1>3, <1>5 DEF S
    <3> QED
      BY <1>1, <1>3, <2>3, <3>1, <3>2 DEF SettledAgree
  <2> QED
    BY <1>1, <1>3, <2>4, <2>7, <2>8 DEF UnloadInv, FormAgrees
<1> QED
  BY <1>1, <1>3, <1>5, <1>6, UnloadStepAgrees DEF Unloading, Quiet

LEMMA CompleteAgrees ==
    ASSUME IInv, AInv, Complete
    PROVE  AInv'
<1> DEFINE S == Existing(items) \ job.out
           new == [i \in Items |-> IF i \in S THEN [items[i] EXCEPT !.st = "COMPLETED"]
                                  ELSE items[i]]
           j == [job EXCEPT !.at = "recount"]
<1>1. /\ job.at = "complete" /\ Quiet /\ SetItems(new, {}) /\ job' = j
      /\ revived' = revived \cup (S \ Live(items)) /\ rows' = rows
  BY DEF Complete
<1>2. S \in SUBSET Existing(items) /\ "COMPLETED" \in ItemStatuses
  BY DEF ItemStatuses
<1>3. /\ j.at = "recount" /\ j.mem = job.mem /\ j.todo = job.todo /\ j.out = job.out
      /\ j.touched = job.touched
  BY DEF IInv, TypeOK, Job
<1> HIDE DEF S, j
<1>4. /\ \A i \in S : new[i] = [items[i] EXCEPT !.st = "COMPLETED"]
      /\ \A i \in Items \ S : new[i] = items[i]
  BY <1>2 DEF Existing
<1> HIDE DEF new
<1>5. /\ Existing(items') = Existing(items)
      /\ \A i \in Existing(items) : /\ items'[i].co = items[i].co
                                    /\ items'[i].st = IF i \in S THEN "COMPLETED" ELSE items[i].st
      /\ \A c \in uncounted' : c \in uncounted \/ \E i \in S : items[i].co = c
  <2>1. TypeOK /\ SetItems(new, {})
    BY <1>1 DEF IInv
  <2>2. /\ items' = new
        /\ Existing(items') = Existing(items)
        /\ \A i \in Existing(items) : /\ items'[i].co = items[i].co
                                      /\ items'[i].st = IF i \in S THEN "COMPLETED" ELSE items[i].st
        /\ \A c \in uncounted' : c \in uncounted \/
              \E i \in S : items[i].co = c /\ (i \in Live(items) \/ "COMPLETED" # "CANCELLED")
    BY <1>2, <1>4, <2>1, Marked, ZenonT(30)
  <2> QED
    BY <2>2
<1>6. revived' \subseteq Existing(items') /\ delivery # "PENDING"
  BY <1>1, <1>2, <1>5 DEF AInv, RevivedInv, IInv, JobInv, Unloading
<1>7. ASSUME ~mixed PROVE UnloadInv'
  <2>1. /\ job.todo = {} /\ job.out \cap WithRow(rows) = {}
        /\ Live(items) \subseteq WithRow(rows)
        /\ \A i \in job.out \cap Existing(items) : items[i].st = "CANCELLED"
    BY <1>1, <1>7 DEF AInv, UnloadInv, SettledAgree
  <2>2. /\ WithRow(rows) = WithRow(job.mem)
        /\ \A k \in WithRow(rows) :
              rows[k].req = rows[k].act /\ (k \in Live(items) => items[k].co = rows[k].act)
    BY <1>1, <1>7, <2>1 DEF AInv, UnloadInv, AppliedAgree
  <2>3. /\ Unexplained \subseteq job.touched
        /\ \A k \in Live(items) : items[k].co \in job.touched
    BY <1>1, <1>7, <2>1 DEF AInv, UnloadInv, TouchedAgree
  <2>4. WithRow(rows) \subseteq Existing(items)
    BY DEF IInv, RowsHaveItems
  <2>5. \A i \in Live(items') : /\ i \in S /\ items'[i].st = "COMPLETED"
                                /\ i \in Live(items) \/ i \in revived'
    BY <1>1, <1>5, <2>1 DEF Live, S
  <2>6. \A i \in S : i \in Live(items')
    BY <1>2, <1>5 DEF Live
  <2>7. AppliedAgree'
    BY <1>1, <1>2, <1>3, <1>5, <2>1, <2>2, <2>5 DEF AppliedAgree
  <2>8. ASSUME NEW c \in Unexplained' PROVE c \in job'.touched \cup Held(items', revived')
    <3>1. c \in Unexplained \/ \E i \in S : items[i].co = c
      BY <1>1, <1>5, <2>8 DEF Unexplained, Quiet, Apart
    <3>2. CASE c \in Unexplained
      BY <1>1, <1>3, <2>3, <3>2
    <3>3. CASE \E i \in S : items[i].co = c
      <4>1. PICK i \in S : items[i].co = c
        BY <3>3
      <4>2. items'[i].co = c /\ (i \in Live(items) \/ i \in revived')
        BY <1>1, <1>2, <1>5, <4>1
      <4> QED
        BY <1>1, <1>3, <2>3, <4>1, <4>2 DEF Held
    <3> QED
      BY <3>1, <3>2, <3>3
  <2>9. TouchedAgree'
    BY <1>1, <1>3, <2>8 DEF TouchedAgree
  <2>10. SettledAgree'
    <3>1. WithRow(rows') \subseteq Live(items')
      BY <1>1, <2>1, <2>4, <2>6 DEF S
    <3>2. Live(items') \ revived' \subseteq WithRow(rows')
      BY <1>1, <2>1, <2>5
    <3>3. \A i \in Live(items') : items'[i].st = "COMPLETED"
      BY <2>5
    <3>4. job'.at = "recount" /\ job'.todo = {}
      BY <1>1, <1>3, <2>1
    <3> QED
      BY <3>1, <3>2, <3>3, <3>4 DEF SettledAgree
  <2> QED
    BY <1>1, <1>3, <2>7, <2>9, <2>10 DEF UnloadInv, FormAgrees
<1> QED
  BY <1>1, <1>3, <1>5, <1>6, <1>7, UnloadStepAgrees DEF Unloading, Quiet

LEMMA RecountUnloadedAgrees ==
    ASSUME IInv, AInv, RecountUnloaded
    PROVE  AInv'
<1> DEFINE counted == IF job.touched # {} THEN job.touched ELSE Held(items, Existing(items))
<1>1. /\ job.at = "recount" /\ Apart
      /\ job' = [job EXCEPT !.at = "read"]
      /\ uncounted' = uncounted \ counted /\ missed' = missed \ counted
      /\ UNCHANGED <<items, rows, revived>>
  BY DEF RecountUnloaded, Recount, saleVars
<1>2. /\ job'.at = "read" /\ job'.mem = job.mem /\ job'.todo = job.todo
  BY <1>1 DEF IInv, TypeOK, Job
<1>3. ASSUME ~mixed PROVE UnloadInv'
  <2>1. AppliedAgree' /\ SettledAgree'
    BY <1>1, <1>2, <1>3 DEF AInv, UnloadInv, AppliedAgree, SettledAgree, Live, Existing
  <2>2. Unexplained \subseteq job.touched \cup Held(items, revived)
    BY <1>1, <1>3 DEF AInv, UnloadInv, TouchedAgree
  <2>3. Unexplained' = Unexplained \ counted
    BY <1>1 DEF Unexplained
  <2>4. Unexplained' \subseteq Held(items', revived')
    <3>1. CASE job.touched # {}
      BY <1>1, <2>2, <2>3, <3>1 DEF Unexplained
    <3>2. CASE job.touched = {}
      BY <1>1, <2>2, <2>3, <3>2
    <3> QED
      BY <3>1, <3>2
  <2> HIDE DEF counted
  <2>5. TouchedAgree'
    BY <1>2, <2>4 DEF TouchedAgree
  <2> QED
    BY <1>2, <2>1, <2>5 DEF UnloadInv, FormAgrees
<1> QED
  BY <1>1, <1>2, <1>3, UnloadStepAgrees DEF Unloading, Quiet

LEMMA ReadBilledAgrees ==
    ASSUME IInv, AInv, ReadBilled
    PROVE  AInv'
<1>1. /\ job.at = "read" /\ Apart /\ job' = [job EXCEPT !.at = "bill", !.read = SaleNow]
      /\ UNCHANGED <<items, rows, uncounted, revived, missed>>
  BY DEF ReadBilled, Quiet, Apart, saleVars
<1>2. job'.at = "bill" /\ job'.mem = job.mem /\ job'.todo = job.todo
  BY <1>1 DEF IInv, TypeOK, Job
<1>3. ASSUME ~mixed PROVE UnloadInv'
  <2>1. AppliedAgree' /\ SettledAgree'
    BY <1>1, <1>2, <1>3 DEF AInv, UnloadInv, AppliedAgree, SettledAgree, Live, Existing
  <2>2. TouchedAgree'
    BY <1>1, <1>2, <1>3 DEF AInv, UnloadInv, TouchedAgree, Unexplained
  <2> QED
    BY <1>2, <2>1, <2>2 DEF UnloadInv, FormAgrees
<1> QED
  BY <1>1, <1>2, <1>3, UnloadStepAgrees DEF Unloading, Quiet

LEMMA BillAgrees ==
    ASSUME IInv, AInv, ReadInv, Bill
    PROVE  AInv'
<1>1. /\ job.at = "bill" /\ Apart /\ missed' = missed /\ job' = Idle /\ cut' = FALSE
      /\ UNCHANGED <<items, rows, uncounted, revived>>
      /\ \/ job.read.sale = "COMPLETED" /\ sale' = sale
         \/ sale' \in Saved("COMPLETED", job.read.sale, sale)
  BY DEF Bill
<1>2. job'.at = "idle"
  BY <1>1 DEF Idle
<1>3. RevivedInv'
  BY <1>1 DEF AInv, RevivedInv, Quiet, Apart, Existing
<1>4. UnloadInv'
  BY <1>2 DEF UnloadInv, FormAgrees, AppliedAgree, TouchedAgree, SettledAgree
<1>5. ASSUME ~mixed PROVE RestInv'
  <2>1. /\ job.todo = {} /\ Live(items) \ revived \subseteq WithRow(rows)
        /\ \A i \in Live(items) : items[i].st = "COMPLETED"
    BY <1>1, <1>5 DEF AInv, UnloadInv, SettledAgree
  <2>2. \A i \in WithRow(rows) : /\ rows[i].req = rows[i].act
                                 /\ i \in Live(items) => items[i].co = rows[i].act \/ i \in revived
    BY <1>1, <1>5, <2>1 DEF AInv, UnloadInv, AppliedAgree
  <2>3. RowsAgree'
    BY <1>1, <2>1, <2>2 DEF RowsAgree, WithRow, Live, Existing
  <2>4. Unexplained' \subseteq Held(items', revived')
    BY <1>1, <1>5 DEF AInv, UnloadInv, TouchedAgree, Unexplained
  <2>5. sale' = "COMPLETED"
    <3>1. job.read.sale = sale
      BY <1>1, <1>5, SaleNowType DEF ReadInv, IInv
    <3> QED
      BY <1>1, <3>1, SavedAlone
  <2>6. SalesStatusOf(items', sale') = sale'
    BY <1>1, <2>1, <2>5, StatusIs
  <2>7. IdleAgrees'
    BY <2>4, <2>6 DEF IdleAgrees
  <2>8. UndoAgrees' /\ RestoredAgrees'
    BY <1>2 DEF UndoAgrees, RestoredAgrees
  <2> QED
    BY <2>3, <2>7, <2>8 DEF RestInv
<1> QED
  BY <1>1, <1>3, <1>4, <1>5 DEF AInv, Apart

\* What a step of a restoring leaves: it is not over, or it is.
LEMMA RestoreStepAgrees ==
    ASSUME AInv, Apart, Existing(items') = Existing(items), revived' = revived,
           job'.at \in Restoring \cup {"idle"},
           ~mixed /\ ~cut' => RestInv',
           cut' \in BOOLEAN
    PROVE  AInv'
<1>1. delivery' = delivery /\ mixed' = mixed
  BY DEF Apart
<1>2. RevivedInv'
  BY <1>1 DEF AInv, RevivedInv
<1>3. UnloadInv'
  BY DEF UnloadInv, FormAgrees, AppliedAgree, TouchedAgree, SettledAgree, Restoring
<1>4. cut' => RestInv'
  BY DEF RestInv, RowsAgree, IdleAgrees, UndoAgrees, RestoredAgrees
<1> QED
  BY <1>1, <1>2, <1>3, <1>4 DEF AInv

LEMMA UndoRowAgrees ==
    ASSUME IInv, IInv', AInv, NEW i \in job.todo, UndoRow(i)
    PROVE  AInv'
<1> DEFINE row == job.mem[i]
           back == row.act # None /\ row.req # row.act
           new == IF items[i] # None /\ back THEN [items EXCEPT ![i].co = row.req] ELSE items
           more == IF items[i] = None THEN {} ELSE IF back THEN {row.req, row.act}
                   ELSE {items[i].co}
           j == [job EXCEPT !.todo = @ \ {i}, !.touched = @ \cup more]
<1>1. /\ job.at = "undo" /\ Quiet /\ UNCHANGED <<rows, revived>>
      /\ \/ CutShort /\ UNCHANGED <<items, uncounted>>
         \/ SetItems(new, {}) /\ job' = j /\ cut' = cut
  BY DEF UndoRow
<1>2. i \in Items /\ i \in WithRow(job.mem)
  BY DEF IInv, TypeOK, Job, JobInv, WithRow
<1>3. CASE CutShort /\ UNCHANGED <<items, uncounted>>
  BY <1>1, <1>3, CutShortAgrees
<1>4. CASE SetItems(new, {}) /\ job' = j /\ cut' = cut
  <2>1. /\ j.at = "undo" /\ j.mem = job.mem /\ j.todo = job.todo \ {i}
        /\ j.touched = job.touched \cup more
    BY <1>1 DEF IInv, TypeOK, Job
  <2>2. \A k \in Items \ {i} : new[k] = items[k]
    OBVIOUS
  <2>3. CASE items[i] # None
    <3>1. items[i] \in Item /\ row.req \in Containers
      <4>1. row \in Row /\ row # None
        BY <1>2 DEF IInv, TypeOK, Job, WithRow
      <4> QED
        BY <1>2, <2>3, <4>1, RowFacts DEF IInv, TypeOK, SalesItem
    <3>2. back => new[i] = [items[i] EXCEPT !.co = row.req]
      BY <1>2, <2>3 DEF IInv, TypeOK
    <3>3. ~back => new = items
      OBVIOUS
    <3>4. back => /\ new[i] \in Item /\ new[i].st = items[i].st
                  /\ items[i].co = row.req => new[i] = items[i]
      <4> SUFFICES ASSUME back PROVE /\ new[i] \in Item /\ new[i].st = items[i].st
                                     /\ items[i].co = row.req => new[i] = items[i]
        OBVIOUS
      <4> DEFINE it == new[i]
      <4>1. it = [items[i] EXCEPT !.co = row.req]
        BY <3>2
      <4> HIDE DEF it
      <4>2. it \in Item /\ it.st = items[i].st /\ it.co = row.req
        BY <3>1, <4>1 DEF Item
      <4>3. items[i].co = row.req => it = items[i]
        BY <3>1, <4>2 DEF Item
      <4> QED
        BY <4>2, <4>3 DEF it
    <3>5. new[i] # None /\ new[i].st = items[i].st
      BY <2>3, <3>3, <3>4, SaleAssumption
    <3> DEFINE moves == items[i] # new[i]
    <3>6. moves => back /\ items[i].co # row.req
      BY <3>3, <3>4
    <3>7. items[i].co = row.req \/ ~back => items[i].co \in more
      BY <2>3
    <3> HIDE DEF moves, new, more, j
    <3>8. items' = new /\ uncounted' = uncounted \cup Changed(items, new)
      BY <1>4 DEF SetItems
    <3>9. Existing(items') = Existing(items)
      BY <1>2, <2>2, <2>3, <3>5, <3>8 DEF Existing
    <3>10. Live(items') = Live(items)
      BY <2>2, <3>5, <3>8, <3>9 DEF Live, Existing
    <3>11. ASSUME ~mixed, ~cut' PROVE RestInv'
      <4>1. /\ rows = job.mem /\ Unexplained = {}
            /\ \A k \in Live(items) \ revived : rows[k] # None /\ rows[k].req = items[k].co
            /\ \A k \in (WithRow(rows) \ job.todo) \cap Live(items) : items[k].co \in job.touched
            /\ \A k \in revived \cap WithRow(rows) : rows[k].req = rows[k].act
        BY <1>1, <1>4, <3>11 DEF AInv, RestInv, UndoAgrees, RowsAgree, Restoring
      <4>2. i \in Live(items) => items[i].co = row.req \/ ~back
        BY <1>2, <4>1
      <4>3. \A k \in Live(items) : items'[k] = items[k]
        BY <2>2, <3>6, <3>8, <4>2 DEF moves, Live, Existing
      <4>4. Unexplained' = {}
        <5>1. Changed(items, new) = {}
          BY <3>8, <3>10, <4>3, ChangedFact
        <5> QED
          BY <1>1, <3>8, <4>1, <5>1 DEF Unexplained, Quiet, Apart
      <4>5. \A k \in (WithRow(rows') \ job'.todo) \cap Live(items') : items'[k].co \in job'.touched
        BY <1>1, <1>4, <2>1, <3>7, <3>10, <4>1, <4>2, <4>3
      <4>6. UndoAgrees'
        BY <1>1, <1>4, <2>1, <3>10, <4>1, <4>3, <4>4, <4>5 DEF UndoAgrees
      <4>7. RowsAgree'
        BY <1>1, <3>10, <4>1, <4>3 DEF RowsAgree
      <4> QED
        BY <1>4, <2>1, <4>6, <4>7 DEF RestInv, IdleAgrees, RestoredAgrees
    <3> QED
      BY <1>1, <1>4, <2>1, <3>9, <3>11, RestoreStepAgrees DEF Quiet, Restoring, IInv, TypeOK
  <2>4. CASE items[i] = None
    <3>1. ~(~mixed /\ ~cut)
      BY <1>1, <1>2, <2>4 DEF AInv, RestInv, UndoAgrees, IInv, RowsHaveItems, Existing
    <3>2. items' = items
      BY <1>4, <2>4 DEF SetItems
    <3> HIDE DEF j
    <3> QED
      BY <1>1, <1>4, <2>1, <3>1, <3>2, RestoreStepAgrees DEF Quiet, Restoring, IInv, TypeOK
  <2> QED
    BY <2>3, <2>4
<1> QED
  BY <1>1, <1>3, <1>4

LEMMA MarkSoldAgrees ==
    ASSUME IInv, AInv, MarkSold
    PROVE  AInv'
<1> DEFINE read == WithRow(job.mem)
           S == read \cap Live(items)
           newRows == [i \in Items |-> IF i \in read THEN job.mem[i] ELSE rows[i]]
           new == [i \in Items |-> IF i \in S THEN [items[i] EXCEPT !.st = "SOLD"]
                                  ELSE items[i]]
           j == [job EXCEPT !.at = "restore"]
<1>1. /\ job.at = "undo" /\ job.todo = {} /\ Quiet /\ revived' = revived
      /\ \/ /\ rows' = newRows /\ SetItems(new, {}) /\ job' = j /\ cut' = cut
         \/ CutShort /\ UNCHANGED <<items, rows, uncounted>>
  BY DEF MarkSold
<1>2. CASE CutShort /\ UNCHANGED <<items, rows, uncounted>>
  BY <1>1, <1>2, CutShortAgrees
<1>3. CASE rows' = newRows /\ SetItems(new, {}) /\ job' = j /\ cut' = cut
  <2>1. S \in SUBSET Existing(items) /\ "SOLD" \in ItemStatuses
    BY DEF ItemStatuses, Live
  <2>2. j.at = "restore" /\ j.touched = job.touched
    BY DEF IInv, TypeOK, Job
  <2>3. rows = job.mem => newRows = rows
    BY DEF IInv, TypeOK
  <2> HIDE DEF S, j, newRows
  <2>4. /\ \A i \in S : new[i] = [items[i] EXCEPT !.st = "SOLD"]
        /\ \A i \in Items \ S : new[i] = items[i]
    BY <2>1 DEF Existing
  <2> HIDE DEF new
  <2>5. /\ Existing(items') = Existing(items)
        /\ \A i \in Existing(items) : /\ items'[i].co = items[i].co
                                      /\ items'[i].st = IF i \in S THEN "SOLD" ELSE items[i].st
        /\ \A c \in uncounted' : c \in uncounted \/ \E i \in S : items[i].co = c
    <3>1. TypeOK /\ SetItems(new, {})
      BY <1>3 DEF IInv
    <3>2. /\ items' = new
          /\ Existing(items') = Existing(items)
          /\ \A i \in Existing(items) : /\ items'[i].co = items[i].co
                                        /\ items'[i].st = IF i \in S THEN "SOLD" ELSE items[i].st
          /\ \A c \in uncounted' : c \in uncounted \/
                \E i \in S : items[i].co = c /\ (i \in Live(items) \/ "SOLD" # "CANCELLED")
      BY <2>1, <2>4, <3>1, Marked, ZenonT(30)
    <3> QED
      BY <3>2
  <2>6. Live(items') = Live(items)
    BY <2>1, <2>5 DEF Live, S
  <2>7. ASSUME ~mixed, ~cut' PROVE RestInv'
    <3>1. /\ rows = job.mem /\ Unexplained = {}
          /\ \A k \in Live(items) \ revived : rows[k] # None /\ rows[k].req = items[k].co
          /\ \A k \in WithRow(rows) \cap Live(items) : items[k].co \in job.touched
          /\ \A k \in revived \cap WithRow(rows) : rows[k].req = rows[k].act
      BY <1>1, <1>3, <2>7 DEF AInv, RestInv, UndoAgrees, RowsAgree, Restoring
    <3>2. rows' = rows
      BY <1>3, <2>3, <3>1
    <3>3. RowsAgree'
      BY <1>1, <2>5, <2>6, <3>1, <3>2 DEF RowsAgree, Live
    <3>4. Unexplained' \subseteq job'.touched
      BY <1>1, <1>3, <2>2, <2>5, <3>1 DEF Unexplained, Quiet, Apart, S
    <3>5. revived' = {} => \A k \in Live(items') : items'[k].st = "SOLD"
      <4> SUFFICES ASSUME revived' = {}, NEW k \in Live(items') PROVE items'[k].st = "SOLD"
        OBVIOUS
      <4>1. k \in Live(items) /\ rows[k] # None /\ k \in Existing(items)
        BY <1>1, <2>6, <3>1 DEF Live
      <4>2. k \in S
        BY <3>1, <4>1 DEF S, WithRow, Existing
      <4> QED
        BY <2>5, <4>1, <4>2
    <3>6. RestoredAgrees'
      BY <1>3, <2>2, <3>4, <3>5 DEF RestoredAgrees
    <3> QED
      BY <1>3, <2>2, <3>3, <3>6 DEF RestInv, IdleAgrees, UndoAgrees
  <2> QED
    BY <1>1, <1>3, <2>2, <2>5, <2>7, RestoreStepAgrees DEF Quiet, Restoring, IInv, TypeOK
<1> QED
  BY <1>1, <1>2, <1>3

LEMMA RestoreSaleAgrees ==
    ASSUME IInv, AInv, RestoreSale
    PROVE  AInv'
<1>1. /\ job.at = "restore" /\ Quiet /\ job' = [job EXCEPT !.at = "unbill"]
      /\ sale' = IF sale = "COMPLETED" THEN "SOLD" ELSE sale
      /\ UNCHANGED <<items, rows, uncounted, revived, cut>>
  BY DEF RestoreSale
<1>2. job'.at = "unbill" /\ job'.touched = job.touched
  BY <1>1 DEF IInv, TypeOK, Job
<1>3. ASSUME ~mixed, ~cut' PROVE RestInv'
  <2>1. RowsAgree'
    BY <1>1, <1>3 DEF AInv, RestInv, RowsAgree, Restoring, Quiet, Apart, Live, Existing, WithRow
  <2>2. RestoredAgrees'
    BY <1>1, <1>2, <1>3 DEF AInv, RestInv, RestoredAgrees, Unexplained, Quiet, Apart, Live, Existing
  <2> QED
    BY <1>2, <2>1, <2>2 DEF RestInv, IdleAgrees, UndoAgrees
<1> QED
  BY <1>1, <1>2, <1>3, RestoreStepAgrees DEF Quiet, Restoring, IInv, TypeOK

LEMMA ResetBillingAgrees ==
    ASSUME IInv, AInv, ResetBilling
    PROVE  AInv'
<1>1. /\ job.at = "unbill" /\ Apart /\ job' = [job EXCEPT !.at = "reopen"]
      /\ cut' = cut \/ cut' = TRUE
      /\ UNCHANGED <<items, sale, rows, uncounted, revived, missed>>
  BY DEF ResetBilling
<1>2. job'.at = "reopen" /\ job'.touched = job.touched
  BY <1>1 DEF IInv, TypeOK, Job
<1>3. ASSUME ~mixed, ~cut' PROVE RestInv'
  <2>1. ~cut
    BY <1>1, <1>3
  <2>2. RowsAgree'
    BY <1>1, <1>3, <2>1 DEF AInv, RestInv, RowsAgree, Restoring, Apart, Live, Existing, WithRow
  <2>3. RestoredAgrees'
    BY <1>1, <1>2, <1>3, <2>1 DEF AInv, RestInv, RestoredAgrees, Unexplained, Live, Existing
  <2> QED
    BY <1>2, <2>2, <2>3 DEF RestInv, IdleAgrees, UndoAgrees
<1> QED
  BY <1>1, <1>2, <1>3, RestoreStepAgrees DEF Quiet, Restoring, IInv, TypeOK

LEMMA RecountRestoredAgrees ==
    ASSUME IInv, AInv, RecountRestored
    PROVE  AInv'
<1> DEFINE counted == IF job.touched # {} THEN job.touched ELSE Held(items, Existing(items))
<1>1. /\ job.at = "reopen" /\ Apart /\ job' = Idle
      /\ uncounted' = uncounted \ counted /\ missed' = missed \ counted
      /\ UNCHANGED <<items, sale, rows, revived, cut>>
  BY DEF RecountRestored, Recount, saleVars
<1>2. job'.at = "idle"
  BY <1>1 DEF Idle
<1>3. ASSUME ~mixed, ~cut' PROVE RestInv'
  <2>1. RowsAgree'
    BY <1>1, <1>3 DEF AInv, RestInv, RowsAgree, Restoring, Quiet, Apart, Live, Existing, WithRow
  <2>2. /\ Unexplained \subseteq job.touched
        /\ revived = {} => \A i \in Live(items) : items[i].st = "SOLD"
        /\ sale # "COMPLETED"
    BY <1>1, <1>3 DEF AInv, RestInv, RestoredAgrees
  <2>3. Unexplained' = {}
    <3>0. Unexplained' = Unexplained \ counted
      BY <1>1 DEF Unexplained
    <3>1. CASE job.touched # {}
      BY <2>2, <3>0, <3>1
    <3>2. CASE job.touched = {}
      BY <2>2, <3>0, <3>2
    <3> QED
      BY <3>1, <3>2
  <2> HIDE DEF counted
  <2>4. revived = {} =>
           SalesStatusOf(items, sale)' = IF Live(items) = {} THEN sale' ELSE "SOLD"
    BY <1>1, <2>2, StatusIs
  <2>5. sale' \in {"RESERVED", "SOLD"} /\ delivery' = "LOADED"
    BY <1>1, <2>2 DEF IInv, TypeOK, SaleStatuses, JobInv, Restoring, Quiet, Apart
  <2>6. IdleAgrees'
    BY <1>1, <2>3, <2>4, <2>5 DEF IdleAgrees
  <2> QED
    BY <1>2, <2>1, <2>6 DEF RestInv, UndoAgrees, RestoredAgrees
<1> QED
  BY <1>1, <1>2, <1>3, RestoreStepAgrees DEF Quiet, IInv, TypeOK

LEMMA ReadSaleAgrees ==
    ASSUME IInv, AInv, ReadSale
    PROVE  AInv'
<1>1. /\ mixed' = mixed \/ mixed' = TRUE
      /\ deleted' = deleted
      /\ UNCHANGED <<items, rows, delivery, sale, job, uncounted, revived, missed, cut>>
  BY DEF ReadSale, saleVars, IInv, TypeOK
<1> QED
  BY <1>1, AsideAgrees

LEMMA CrashAgrees ==
    ASSUME AInv, Crash
    PROVE  AInv'
<1>1. Quiet /\ CutShort /\ UNCHANGED <<items, rows, uncounted, revived>>
  BY DEF Crash, saleVars
<1> QED
  BY <1>1, CutShortAgrees

-----------------------------------------------------------------------------
LEMMA InitAInv == Init => AInv /\ ReadInv /\ MadeInv
<1> SUFFICES ASSUME Init PROVE AInv /\ ReadInv /\ MadeInv
  OBVIOUS
<1>1. IInv
  BY InitIInv
<1>2. /\ job = Idle /\ revived = {} /\ uncounted = {} /\ cut = FALSE /\ mixed = FALSE
      /\ reading = None
      /\ rows = [i \in Items |-> IF items[i] = None THEN None
                 ELSE [NewRow(items[i].co) EXCEPT !.op = delivery # "PENDING"]]
  BY DEF Init
<1>3. PICK st \in {"RESERVED", "SOLD"}, f \in [Items -> Containers \cup {None}] :
          /\ \E i \in Items : f[i] # None
          /\ items = [i \in Items |-> IF f[i] = None THEN None ELSE [co |-> f[i], st |-> st]]
          /\ \A i \in Items : f[i] # None <=> i <= made
          /\ sale = st
  BY DEF Init
<1>4. \A i \in Items : items[i] # None => f[i] # None /\ items[i].st = st
  BY <1>3
<1>5. MadeInv
  BY <1>3, <1>4 DEF MadeInv, Existing
<1>6. ASSUME NEW i \in Live(items) PROVE rows[i] # None /\ rows[i].req = items[i].co
  <2>1. i \in Items /\ items[i] # None /\ items[i].co \in Containers
    BY <1>1, ItemFacts DEF Live, Existing, IInv, TypeOK
  <2>2. rows[i] = [NewRow(items[i].co) EXCEPT !.op = delivery # "PENDING"]
    BY <1>2, <2>1
  <2>3. NewRow(items[i].co) = [op |-> FALSE, req |-> items[i].co, act |-> None]
    BY DEF NewRow
  <2>4. rows[i] = [op |-> delivery # "PENDING", req |-> items[i].co, act |-> None]
    BY <2>2, <2>3
  <2>5. rows[i] \in LoadingRow
    BY <2>1, <2>4 DEF LoadingRow
  <2> QED
    BY <2>4, <2>5, SaleAssumption
<1>7. \A i \in Live(items) : items[i].st = st
  BY <1>4 DEF Live, Existing
<1>8. Live(items) # {}
  <2>1. PICK i \in Items : f[i] # None
    BY <1>3
  <2>2. [co |-> f[i], st |-> st] \in Item /\ items[i] = [co |-> f[i], st |-> st]
    BY <1>3, <2>1 DEF Item, ItemStatuses
  <2>3. items[i] # None /\ items[i].st # "CANCELLED"
    BY <2>2, SaleAssumption
  <2> QED
    BY <2>3 DEF Live, Existing
<1>9. sale = SalesStatusOf(items, sale)
  BY <1>3, <1>7, <1>8, StatusIs
<1>10. job.at = "idle"
  BY <1>2 DEF Idle
<1>11. RestInv
  BY <1>2, <1>6, <1>9, <1>10 DEF RestInv, RowsAgree, IdleAgrees, UndoAgrees, RestoredAgrees,
     Unexplained
<1>12. UnloadInv
  BY <1>10 DEF UnloadInv, FormAgrees, AppliedAgree, TouchedAgree, SettledAgree
<1>13. ReadInv
  BY <1>2, <1>10 DEF ReadInv
<1> QED
  BY <1>2, <1>5, <1>11, <1>12, <1>13 DEF AInv, RevivedInv

-----------------------------------------------------------------------------
(* Items are numbered as they are made. *)

LEMMA MadeKept ==
    ASSUME MadeInv, made' = made, NEW new, items' = new,
           \A i \in Items : new[i] # None => items[i] # None
    PROVE  MadeInv'
  BY DEF MadeInv, Existing

LEMMA MadeGrows ==
    ASSUME MadeInv, IInv, NEW add, NEW kept \in SUBSET Listed, NEW new, items' = new,
           Addable(add, kept), made' = IF add = None THEN made ELSE made + 1,
           \A i \in Items : new[i] # None => i \in Listed \/ (add # None /\ i = made + 1)
    PROVE  MadeInv'
<1>1. made \in Nat /\ made <= made' /\ (add # None => made' = made + 1)
  BY DEF IInv, TypeOK
<1>2. ASSUME NEW i \in Existing(new) PROVE i <= made'
  <2>1. i \in Items /\ (i \in Listed \/ (add # None /\ i = made + 1))
    BY DEF Existing
  <2>2. i \in Listed => i <= made
    BY DEF Listed, Live, MadeInv
  <2> QED
    BY <1>1, <2>1, <2>2 DEF Items
<1> QED
  BY <1>2 DEF MadeInv

LEMMA MadeSaleStep ==
    ASSUME IInv, MadeInv, SaleStep
    PROVE  MadeInv'
<1>1. ASSUME NEW f \in [Listed -> Listed \cup {None}], NEW add \in Containers \cup {None},
             EditSale(f, add)
      PROVE  MadeInv'
  <2>1. /\ items' = Edited(f, add) /\ Addable(add, {i \in Listed : f[i] # None})
        /\ made' = IF add = None THEN made ELSE made + 1
    BY <1>1 DEF EditSale, UpdateSale, SetItems
  <2>2. \A i \in Items : Edited(f, add)[i] # None => i \in Listed \/ (add # None /\ i = made + 1)
    BY DEF Edited, Added
  <2> QED
    BY <2>1, <2>2, MadeGrows
<1>2. CASE CancelSale
  <2> DEFINE new == [i \in Items |-> IF i \in Listed
                                THEN [items[i] EXCEPT !.st = "CANCELLED"] ELSE None]
  <2>1. items' = new /\ made' = made
    BY <1>2 DEF CancelSale, UpdateSale, SetItems
  <2>2. \A i \in Items : new[i] # None => items[i] # None
    BY DEF Listed, Live, Existing
  <2> HIDE DEF new
  <2> QED
    BY <2>1, <2>2, MadeKept
<1>3. CASE ToReservation
  <2> DEFINE new == [i \in Items |-> IF i \in Live(items)
                                THEN [items[i] EXCEPT !.st = "RESERVED"] ELSE None]
  <2>1. items' = new /\ made' = made
    BY <1>3 DEF ToReservation, UpdateSale, SetItems
  <2>2. \A i \in Items : new[i] # None => items[i] # None
    BY DEF Live, Existing
  <2> HIDE DEF new
  <2> QED
    BY <2>1, <2>2, MadeKept
<1>4. ASSUME NEW kept \in SUBSET Listed, NEW add \in Containers \cup {None},
             ConfirmSales(kept, add)
      PROVE  MadeInv'
  <2> DEFINE new == [i \in Items |->
                    IF i \in kept THEN [items[i] EXCEPT !.st = "SOLD"]
                    ELSE IF Added(i, add) THEN [co |-> add, st |-> "SOLD"]
                    ELSE None]
  <2>1. /\ items' = new /\ Addable(add, kept)
        /\ made' = IF add = None THEN made ELSE made + 1
    BY <1>4 DEF ConfirmSales, SetItems
  <2>2. \A i \in Items : new[i] # None => i \in Listed \/ (add # None /\ i = made + 1)
    BY DEF Added
  <2> HIDE DEF new
  <2> QED
    BY <2>1, <2>2, MadeGrows
<1>5. [i \in Listed |-> i] \in [Listed -> Listed \cup {None}]
  OBVIOUS
<1>6. CASE ReadSale \/ RollBack
  <2>1. made' = made /\ items' = items
    BY <1>6 DEF ReadSale, RollBack, saleVars
  <2> QED
    BY <2>1, MadeKept
<1> QED
  BY <1>1, <1>2, <1>3, <1>4, <1>5, <1>6 DEF SaleStep

LEMMA MadeJobStep ==
    ASSUME IInv, MadeInv, JobStep
    PROVE  MadeInv'
<1>1. CASE AddItem
  <2> DEFINE item == [co |-> job.add, st |-> "COMPLETED"]
             S == {i \in Existing(items) : items[i].co = job.add} \ Live(items)
             new == [i \in Items |-> IF i \in S THEN [items[i] EXCEPT !.st = "COMPLETED"]
                                    ELSE items[i]]
  <2>1. \/ made < MaxItems /\ made' = made + 1 /\ items' = [items EXCEPT ![made + 1] = item]
        \/ made' = made /\ items' = new
    BY <1>1 DEF AddItem, SetItems
  <2>2. CASE made' = made + 1 /\ items' = [items EXCEPT ![made + 1] = item]
    <3>1. made \in Nat
      BY DEF IInv, TypeOK
    <3>2. \A i \in Items : i # made + 1 => items'[i] = items[i]
      BY <2>2 DEF IInv, TypeOK
    <3> QED
      BY <2>2, <3>1, <3>2 DEF MadeInv, Existing, Items
  <2>3. CASE made' = made /\ items' = new
    <3>1. \A i \in Items : new[i] # None => items[i] # None
      BY DEF Existing
    <3> HIDE DEF new
    <3> QED
      BY <2>3, <3>1, MadeKept
  <2> QED
    BY <2>1, <2>2, <2>3
<1>2. CASE Diff
  <2> DEFINE gone == WithRow(rows) \ WithRow(job.mem)
             new == [i \in Items |-> IF i \in gone THEN [items[i] EXCEPT !.st = "CANCELLED"]
                                    ELSE items[i]]
  <2>1. made' = made /\ (items' = new \/ items' = items)
    BY <1>2 DEF Diff, SetItems
  <2>2. \A i \in Items : new[i] # None => items[i] # None
    BY DEF IInv, RowsHaveItems, Existing
  <2> HIDE DEF new
  <2> QED
    BY <2>1, <2>2, MadeKept
<1>3. ASSUME NEW i \in job.todo, NEW other \in Containers \cup {None}, Apply(i, other)
      PROVE  MadeInv'
  <2> DEFINE to == job.mem[i].act
             its == IF Clash(items, i, to) /\ other # None THEN Evicted(i, to, other) ELSE items
             new == [its EXCEPT ![i].co = to]
  <2>1. /\ made' = made
        /\ \/ items' = items
           \/ items[i] # None /\ items' = new
    BY <1>3 DEF Apply, SetItems
  <2>2. its \in [Items -> SalesItem] /\ \A k \in Items : its[k] # None => items[k] # None
    <3>1. CASE its = items
      BY <3>1 DEF IInv, TypeOK
    <3>2. CASE other # None /\ its = Evicted(i, to, other)
      <4>1. Evicted(i, to, other) \in [Items -> SalesItem]
        BY <3>2, EvictedType DEF IInv
      <4>2. \A k \in Items : Evicted(i, to, other)[k] # None => items[k] # None
        BY DEF Evicted
      <4> QED
        BY <3>2, <4>1, <4>2
    <3>3. its = items \/ (other # None /\ its = Evicted(i, to, other))
      OBVIOUS
    <3> QED
      BY <3>1, <3>2, <3>3
  <2> HIDE DEF its, to
  <2>3. items[i] # None => \A k \in Items : new[k] # None => items[k] # None
    BY <2>2
  <2> HIDE DEF new
  <2> QED
    BY <2>1, <2>3, MadeKept
<1>4. CASE Settle
  <2> DEFINE S == ((job.out \cup Live(items)) \ WithRow(job.mem)) \cap Existing(items)
             new == [i \in Items |-> IF i \in S THEN [items[i] EXCEPT !.st = "CANCELLED"]
                                    ELSE items[i]]
  <2>1. made' = made /\ items' = new
    BY <1>4 DEF Settle, SetItems
  <2>2. \A i \in Items : new[i] # None => items[i] # None
    BY DEF Existing
  <2> HIDE DEF new
  <2> QED
    BY <2>1, <2>2, MadeKept
<1>5. CASE Complete
  <2> DEFINE S == Existing(items) \ job.out
             new == [i \in Items |-> IF i \in S THEN [items[i] EXCEPT !.st = "COMPLETED"]
                                    ELSE items[i]]
  <2>1. made' = made /\ items' = new
    BY <1>5 DEF Complete, SetItems
  <2>2. \A i \in Items : new[i] # None => items[i] # None
    BY DEF Existing
  <2> HIDE DEF new
  <2> QED
    BY <2>1, <2>2, MadeKept
<1>6. ASSUME NEW i \in job.todo, UndoRow(i)
      PROVE  MadeInv'
  <2> DEFINE row == job.mem[i]
             back == row.act # None /\ row.req # row.act
             new == IF items[i] # None /\ back THEN [items EXCEPT ![i].co = row.req] ELSE items
  <2>1. made' = made /\ (items' = new \/ items' = items)
    BY <1>6 DEF UndoRow, SetItems
  <2> HIDE DEF row, back
  <2>2. \A k \in Items : new[k] # None => items[k] # None
    BY DEF IInv, TypeOK
  <2> HIDE DEF new
  <2> QED
    BY <2>1, <2>2, MadeKept
<1>7. CASE MarkSold
  <2> DEFINE S == WithRow(job.mem) \cap Live(items)
             new == [i \in Items |-> IF i \in S THEN [items[i] EXCEPT !.st = "SOLD"]
                                    ELSE items[i]]
  <2>1. made' = made /\ (items' = new \/ items' = items)
    BY <1>7 DEF MarkSold, SetItems
  <2>2. \A i \in Items : new[i] # None => items[i] # None
    BY DEF Live, Existing
  <2> HIDE DEF new
  <2> QED
    BY <2>1, <2>2, MadeKept
<1>8. CASE \/ LoadRows \/ RecountUnloaded \/ ReadBilled \/ Bill
           \/ RestoreSale \/ ResetBilling \/ RecountRestored \/ Crash
  <2>1. made' = made /\ items' = items
    BY <1>8 DEF LoadRows, RecountUnloaded, ReadBilled, Bill, RestoreSale, ResetBilling,
       RecountRestored, Crash, saleVars
  <2> QED
    BY <2>1, MadeKept
<1> QED
  BY <1>1, <1>2, <1>3, <1>4, <1>5, <1>6, <1>7, <1>8 DEF JobStep

LEMMA MadeStep ==
    ASSUME IInv, MadeInv, [Next]_vars
    PROVE  MadeInv'
<1>1. CASE DeliveryStep \/ UNCHANGED vars
  <2>1. made' = made /\ items' = items
    BY <1>1 DEF DeliveryStep, Dispatch, Load, DeleteDelivery, OpenForm, Unload,
       UnloadStatusOnly, Restore, Start, vars, saleVars
  <2> QED
    BY <2>1, MadeKept
<1> QED
  BY <1>1, MadeSaleStep, MadeJobStep DEF Next

\* What was read of the sale stays so while nothing overlaps.
LEMMA ReadStep ==
    ASSUME IInv, ReadInv, [Next]_vars
    PROVE  ReadInv'
<1>1. CASE ReadSale
  <2>1. /\ reading' = SaleNow /\ mixed' = (mixed \/ job.at # "idle")
        /\ UNCHANGED <<sale, cancelled, billing, job>>
    BY <1>1 DEF ReadSale, saleVars
  <2>2. SaleNow' = SaleNow
    BY <2>1 DEF SaleNow
  <2> QED
    BY <2>1, <2>2 DEF ReadInv, IInv, TypeOK
<1>2. ASSUME SaleStep, ~ReadSale PROVE ReadInv'
  <2>1. reading # None /\ reading' = None /\ UNCHANGED <<job, mixed>>
    BY <1>2 DEF SaleStep, RollBack, EditSale, CancelSale, ToReservation, ConfirmSales, Commit,
       historyVars
  <2> QED
    BY <2>1 DEF ReadInv
<1>3. ASSUME NEW status, NEW j, Start(status, j), j.at # "bill" PROVE ReadInv'
  BY <1>3 DEF ReadInv, Start, IInv, TypeOK
<1>4. CASE DeliveryStep
  <2>1. CASE Dispatch \/ Load \/ DeleteDelivery \/ OpenForm
    <3>1. UNCHANGED <<sale, cancelled, billing, job, reading, mixed>>
      BY <2>1 DEF Dispatch, Load, DeleteDelivery, OpenForm, saleVars, historyVars
    <3> QED
      BY <3>1 DEF ReadInv, SaleNow
  <2>2. ASSUME NEW act, NEW add, Unload(act, add) PROVE ReadInv'
    <3>1. PICK mem :
            Start("UNLOADED", [Idle EXCEPT !.at = IF add = None THEN "diff" ELSE "add",
                                           !.mem = mem, !.add = add])
      BY <2>2 DEF Unload
    <3> DEFINE j == [Idle EXCEPT !.at = IF add = None THEN "diff" ELSE "add",
                                 !.mem = mem, !.add = add]
    <3>2. j.at # "bill"
      BY DEF Idle
    <3> HIDE DEF j
    <3> QED
      BY <1>3, <3>1, <3>2 DEF j
  <2>3. CASE UnloadStatusOnly
    <3> DEFINE j == [Idle EXCEPT !.at = "load"]
    <3>1. j.at # "bill" /\ Start("UNLOADED", j)
      BY <2>3 DEF Idle, UnloadStatusOnly
    <3> HIDE DEF j
    <3> QED
      BY <1>3, <3>1
  <2>4. CASE Restore
    <3> DEFINE j == [Idle EXCEPT !.at = "undo", !.mem = rows, !.todo = WithRow(rows)]
    <3>1. j.at # "bill" /\ Start("LOADED", j)
      BY <2>4 DEF Idle, Restore
    <3> HIDE DEF j
    <3> QED
      BY <1>3, <3>1
  <2> QED
    BY <1>4, <2>1, <2>2, <2>3, <2>4 DEF DeliveryStep
<1>5. CASE ReadBilled
  <2>1. /\ job' = [job EXCEPT !.at = "bill", !.read = SaleNow] /\ job.at = "read"
        /\ UNCHANGED <<sale, cancelled, billing, reading, mixed>>
    BY <1>5 DEF ReadBilled, Quiet, Apart, saleVars
  <2>2. job'.read = SaleNow
    BY <2>1 DEF IInv, TypeOK, Job
  <2>3. SaleNow' = SaleNow
    BY <2>1 DEF SaleNow
  <2> QED
    BY <2>1, <2>2, <2>3 DEF ReadInv
<1>6. ASSUME JobStep, ~ReadBilled PROVE ReadInv'
  <2>1. UNCHANGED <<reading, mixed>> /\ job.at # "idle"
    BY <1>6 DEF JobStep, AddItem, Diff, LoadRows, Apply, Settle, Complete, RecountUnloaded, Bill,
       UndoRow, MarkSold, RestoreSale, ResetBilling, RecountRestored, Crash, Quiet, Apart
  <2>2. job'.at # "bill"
    <3>1. Idle.at = "idle"
      BY DEF Idle
    <3>2. \A st \in Stages : [job EXCEPT !.at = st].at = st
      BY DEF IInv, TypeOK, Job
    <3> QED
      BY <1>6, <3>1 DEF JobStep, AddItem, Diff, LoadRows, Apply, Settle, Complete,
         RecountUnloaded, Recount, Bill, UndoRow, MarkSold, RestoreSale, ResetBilling,
         RecountRestored, Crash, CutShort, IInv, TypeOK, Job
  <2> QED
    BY <2>1, <2>2 DEF ReadInv
<1>7. CASE UNCHANGED vars
  BY <1>7 DEF vars, saleVars, historyVars, ReadInv, SaleNow
<1> QED
  BY <1>1, <1>2, <1>4, <1>5, <1>6, <1>7 DEF Next

LEMMA AInvStep ==
    ASSUME IInv, IInv', AInv, ReadInv, MadeInv, [Next]_vars
    PROVE  AInv'
<1>1. CASE SaleStep
  <2>1. [i \in Listed |-> i] \in [Listed -> Listed \cup {None}]
    OBVIOUS
  <2>2. CASE RollBack
    <3>1. /\ deleted' = deleted /\ mixed' = mixed
          /\ UNCHANGED <<items, rows, delivery, sale, job, uncounted, revived, missed, cut>>
      BY <2>2 DEF RollBack, saleVars, historyVars
    <3> QED
      BY <3>1, AsideAgrees
  <2> QED
    BY <1>1, <2>1, <2>2, ReadSaleAgrees, EditSaleAgrees, CancelSaleAgrees, ToReservationAgrees,
       ConfirmSalesAgrees DEF SaleStep
<1>2. CASE DeliveryStep
  <2>1. CASE DeleteDelivery \/ OpenForm
    <3>1. /\ deleted' = deleted \/ deleted' = TRUE
          /\ mixed' = mixed /\ UNCHANGED <<items, rows, delivery, sale, job, uncounted, revived, missed, cut>>
      BY <2>1 DEF DeleteDelivery, OpenForm, saleVars, historyVars
    <3> QED
      BY <3>1, AsideAgrees
  <2> QED
    BY <1>2, <2>1, DispatchAgrees, LoadAgrees, UnloadAgrees, UnloadStatusOnlyAgrees,
       RestoreAgrees DEF DeliveryStep
<1>3. CASE JobStep
  BY <1>3, AddItemAgrees, DiffAgrees, LoadRowsAgrees, ApplyAgrees, SettleAgrees, CompleteAgrees,
     RecountUnloadedAgrees, ReadBilledAgrees, BillAgrees, UndoRowAgrees, MarkSoldAgrees,
     RestoreSaleAgrees, ResetBillingAgrees, RecountRestoredAgrees, CrashAgrees DEF JobStep
<1>4. CASE UNCHANGED vars
  <2>1. /\ deleted' = deleted
        /\ mixed' = mixed /\ UNCHANGED <<items, rows, delivery, sale, job, uncounted, revived, missed, cut>>
    BY <1>4 DEF vars, saleVars, historyVars
  <2> QED
    BY <2>1, AsideAgrees
<1> QED
  BY <1>1, <1>2, <1>3, <1>4 DEF Next

AgreementInv == IInv /\ AInv /\ ReadInv /\ MadeInv

\* The items, the rows and the status agree in every state: between requests,
\* and at each stage of an unloading or its undoing as far as it has got.
THEOREM Agreement == Spec => []AgreementInv
<1>1. Init => AgreementInv
  BY InitIInv, InitAInv DEF AgreementInv
<1>2. AgreementInv /\ [Next]_vars => AgreementInv'
  <2> SUFFICES ASSUME AgreementInv, [Next]_vars PROVE AgreementInv'
    OBVIOUS
  <2>1. IInv'
    BY IInvStep DEF AgreementInv
  <2> QED
    BY <2>1, AInvStep, ReadStep, MadeStep DEF AgreementInv
<1> QED
  BY <1>1, <1>2, PTL DEF Spec

\* The delivery has a row, for the right container, for every live item of the
\* sale: no edit, cancellation, confirmation or unloading, ended or undone,
\* leaves an item that nobody will load.
THEOREM EveryItemHasItsRow == Spec => []RowsCoverSale
<1>1. AgreementInv => RowsCoverSale
  BY DEF AgreementInv, AInv, RestInv, RowsAgree, RowsCoverSale, Settled
<1> QED
  BY <1>1, Agreement, PTL

\* The status of the sale is derived from its items, whichever service wrote
\* last.
THEOREM StatusIsOfItems == Spec => []StatusFollowsItems
<1>1. AgreementInv => StatusFollowsItems
  BY DEF AgreementInv, AInv, RestInv, IdleAgrees, StatusFollowsItems, Settled
<1> QED
  BY <1>1, Agreement, PTL

\* No container is left with the inventory status of an item that has changed
\* or gone: every request recounts all it touched.  Three are excepted: that of an
\* item a confirmation adds, that of a cancelled item an unloading completes, and what
\* an earlier job left uncounted when the next began, until something counts it.
THEOREM NothingLeftUncounted == Spec => []StockCounted
<1>1. AgreementInv => StockCounted
  BY DEF AgreementInv, AInv, RestInv, IdleAgrees, StockCounted, Settled, Unexplained
<1> QED
  BY <1>1, Agreement, PTL

\* An unloading that ends leaves the rows and the items of the sale in
\* agreement.
THEOREM UnloadingEndsAgreed == Spec => UnloadingAgrees
<1> DEFINE A == job.at = "bill" /\ job'.at = "idle" /\ ~cut' /\ ~mixed =>
         \A i \in WithRow(rows') :
            /\ items'[i] # None /\ items'[i].st = "COMPLETED"
            /\ rows'[i].req = rows'[i].act
            /\ items'[i].co = rows'[i].act \/ i \in revived'
<1>1. ASSUME AgreementInv, Next, job.at = "bill", job'.at = "idle", ~cut', ~mixed
      PROVE  UNCHANGED <<items, rows, revived>>
  <2>1. CASE SaleStep
    <3>1. job' = job
      BY <2>1 DEF SaleStep, ReadSale, RollBack, EditSale, CancelSale, ToReservation, ConfirmSales,
         Commit
    <3> QED
      BY <1>1, <3>1
  <2>2. CASE DeliveryStep
    BY <1>1, <2>2 DEF DeliveryStep, Dispatch, Load, DeleteDelivery, OpenForm, Unload,
       UnloadStatusOnly, Restore, Open, saleVars, historyVars
  <2>3. CASE JobStep
    BY <1>1, <2>3 DEF JobStep, AddItem, Diff, LoadRows, Apply, Settle, Complete,
       RecountUnloaded, ReadBilled, Bill, UndoRow, MarkSold, RestoreSale, ResetBilling,
       RecountRestored, Crash, CutShort
  <2> QED
    BY <1>1, <2>1, <2>2, <2>3 DEF Next
<1>2. ASSUME AgreementInv, job.at = "bill", ~mixed
      PROVE  \A i \in WithRow(rows) :
                /\ items[i] # None /\ items[i].st = "COMPLETED"
                /\ rows[i].req = rows[i].act
                /\ items[i].co = rows[i].act \/ i \in revived
  <2>1. /\ job.todo = {} /\ WithRow(rows) \subseteq Live(items)
        /\ \A i \in Live(items) : items[i].st = "COMPLETED"
    BY <1>2 DEF AgreementInv, AInv, UnloadInv, SettledAgree
  <2>2. \A i \in WithRow(rows) : /\ rows[i].req = rows[i].act
                                 /\ i \in Live(items) => items[i].co = rows[i].act \/ i \in revived
    BY <1>2, <2>1 DEF AgreementInv, AInv, UnloadInv, AppliedAgree
  <2> QED
    BY <2>1, <2>2 DEF Live, Existing
<1>3. AgreementInv /\ [Next]_vars => [A]_vars
  <2> SUFFICES ASSUME AgreementInv, Next PROVE A
    OBVIOUS
  <2> SUFFICES ASSUME job.at = "bill", job'.at = "idle", ~cut', ~mixed
               PROVE  \A i \in WithRow(rows') :
                         /\ items'[i] # None /\ items'[i].st = "COMPLETED"
                         /\ rows'[i].req = rows'[i].act
                         /\ items'[i].co = rows'[i].act \/ i \in revived'
    OBVIOUS
  <2>1. UNCHANGED <<items, rows, revived>>
    BY <1>1
  <2> QED
    BY <1>2, <2>1 DEF WithRow
<1>4. Spec => []AgreementInv
  BY Agreement
<1> QED
  BY <1>3, <1>4, PTL DEF Spec, UnloadingAgrees
================================================================================
