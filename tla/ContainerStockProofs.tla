-------------------------- MODULE ContainerStockProofs --------------------------
(***************************************************************************)
(* The typing of ContainerStock, and that the inventory status is stale    *)
(* only when excused: for any number of requests and items and for all     *)
(* quantities.  The computation of the status is opaque there: what is     *)
(* proved is when it runs and what it has read.  The last part opens it:   *)
(* the containers hidden by a status that is not stale are those with      *)
(* nothing left.                                                           *)
(***************************************************************************)
EXTENDS ContainerStock, FiniteSets, FiniteSetTheorems, WellFoundedInduction, TLAPS

LEMMA StatusType ==
    ASSUME NEW its, NEW tot, NEW copy
    PROVE  StatusOf(its, tot, copy) \in Statuses
<1> DEFINE some == Sold(its, tot, copy).bales > 0 \/ Sold(its, tot, copy).weight > 0
           soldOut == SoldOut(Sold(its, tot, copy), tot, copy)
           Has(S) == \E i \in Live(its) : its[i].status \in S
           onlyReserved == ~Has((SaleStatuses \cup StockStatuses) \ {"RESERVED"})
<1>1. StatusOf(its, tot, copy) =
        CASE ~some -> "AVAILABLE"
          [] some /\ onlyReserved ->
                IF soldOut THEN "RESERVED" ELSE "PARTIALLY_RESERVED"
          [] some /\ ~onlyReserved /\ soldOut ->
                IF Has({"COMPLETED", "INVENTORY_CONSUMPTION"}) /\ ~Has({"SOLD", "RESERVED"})
                THEN "SOLD_OUT" ELSE "SELLING"
          [] OTHER ->
                IF Has({"COMPLETED", "INVENTORY_CONSUMPTION"})
                THEN "PARTIALLY_SOLD_COMPLETED" ELSE "PARTIALLY_SOLD"
  BY DEF StatusOf
<1> HIDE DEF Has, onlyReserved, soldOut, some
<1> QED
  BY <1>1 DEF Statuses

\* The rest of the proofs looks at the computation only through its type.
LEMMA QuietType == \A t \in Totals : Quiet(t) \in Request
  BY DEF Quiet, Request, Stages, Kinds, Statuses

LEMMA BeginType ==
    ASSUME TypeOK, NEW w \in Workers, NEW r \in Request, Begin(w, r)
    PROVE  req' \in [Workers -> Request] /\ excused' \in BOOLEAN
           /\ requests' \in 0 .. MaxRequests
<1>1. \A v \in Workers : [req[v] EXCEPT !.alone = FALSE] \in Request
  BY DEF TypeOK, Request
<1> QED
  BY <1>1, StockAssumption DEF TypeOK, Begin

LEMMA EndType ==
    ASSUME TypeOK, NEW w \in Workers, End(w)
    PROVE  /\ req' \in [Workers -> Request] /\ excused' \in BOOLEAN
           /\ total' \in Totals /\ requests' \in 0 .. MaxRequests
  BY QuietType DEF TypeOK, End

LEMMA SeenType ==
    ASSUME TypeOK, NEW w \in Workers
    PROVE  Seen(w) \in [Items -> Item \cup {None}]
  BY DEF TypeOK, Seen, Request

LEMMA TypeStep == TypeOK /\ [Next]_vars => TypeOK'
<1> SUFFICES ASSUME TypeOK, [Next]_vars PROVE TypeOK'
  OBVIOUS
<1>1. ASSUME NEW w \in Workers, NEW i \in Items, NEW item \in Item \cup {None},
             SaleWrites(w, i, item)
      PROVE  TypeOK'
  <2>1. [Quiet(total) EXCEPT !.at = "written", !.kind = "sale", !.item = i, !.put = item]
          \in Request
    BY QuietType DEF TypeOK, Request, Stages, Kinds
  <2> QED BY <1>1, <2>1, BeginType DEF SaleWrites, TypeOK
<1>15. ASSUME NEW w \in Workers, NEW i \in Items, NEW item \in Item, ConfirmWrites(w, i, item)
      PROVE  TypeOK'
  <2>0. Quiet(total) \in Request /\ item \in Item \cup {None}
    BY QuietType DEF TypeOK
  <2>1. [Quiet(total) EXCEPT !.at = "written", !.kind = "confirm", !.item = i, !.put = item]
          \in Request
    BY <2>0 DEF Request, Stages, Kinds
  <2> QED BY <1>15, <2>1, BeginType DEF ConfirmWrites, TypeOK
<1>16. ASSUME NEW w \in Workers, CommitUncounted(w) PROVE TypeOK'
  BY <1>16, QuietType, SeenType DEF CommitUncounted, TypeOK
<1>2. ASSUME NEW w \in Workers, NEW i \in Items, NEW item \in Item, UnloadWrites(w, i, item)
      PROVE  TypeOK'
  <2>1. [Quiet(total) EXCEPT !.at = "written", !.kind = "unload"] \in Request
    BY QuietType DEF TypeOK, Request, Stages, Kinds
  <2> QED BY <1>2, <2>1, BeginType DEF UnloadWrites, TypeOK
<1>3. ASSUME NEW w \in Workers, NEW i \in Items, NEW item \in Item, AdjustWrites(w, i, item)
      PROVE  TypeOK'
  <2>1. [Quiet(total) EXCEPT !.at = "written", !.kind = "adjust"] \in Request
    BY QuietType DEF TypeOK, Request, Stages, Kinds
  <2> QED BY <1>3, <2>1, BeginType DEF AdjustWrites, TypeOK
<1>4. ASSUME NEW w \in Workers, ReadContainer(w) PROVE TypeOK'
  <2>1. [req[w] EXCEPT !.at = "container", !.total = total, !.alone = OthersIdle(w)] \in Request
    BY DEF TypeOK, Request, Stages, OthersIdle
  <2> QED BY <1>4, <2>1 DEF ReadContainer, TypeOK
<1>5. ASSUME NEW w \in Workers, ReadItems(w) PROVE TypeOK'
  <2>1. \A n \in Statuses : [req[w] EXCEPT !.at = "read", !.next = n] \in Request
    BY DEF TypeOK, Request, Stages
  <2> QED BY <1>5, <2>1, StatusType DEF ReadItems, TypeOK
<1>6. ASSUME NEW w \in Workers, WriteStatusLocking(w) PROVE TypeOK'
  <2>1. [req[w] EXCEPT !.at = "updated"] \in Request
    BY DEF TypeOK, Request, Stages
  <2> QED BY <1>6, <2>1 DEF WriteStatusLocking, TypeOK
<1>7. ASSUME NEW w \in Workers, Commit(w) PROVE TypeOK'
  BY <1>7, EndType, SeenType DEF Commit, CopyOf, Copies, TypeOK, Request
<1>8. ASSUME NEW w \in Workers, WriteStatus(w) PROVE TypeOK'
  BY <1>8, EndType DEF WriteStatus, CopyOf, Copies, TypeOK, Request
<1>9. ASSUME NEW w \in Workers, OrderLoads(w) PROVE TypeOK'
  <2>1. [Quiet(total) EXCEPT !.at = "loaded", !.kind = "order", !.next = status] \in Request
    BY QuietType DEF TypeOK, Request, Stages, Kinds
  <2> QED BY <1>9, <2>1, BeginType DEF OrderLoads, TypeOK
<1>10. ASSUME NEW w \in Workers, NEW tot \in Totals, OrderSaves(w, tot) PROVE TypeOK'
  BY <1>10, QuietType DEF OrderSaves, TypeOK, Request
<1>11. ASSUME NEW w \in Workers, Die(w) PROVE TypeOK'
  BY <1>11, QuietType DEF Die, TypeOK
<1>12. ASSUME NEW w \in Workers, RowLoads(w) PROVE TypeOK'
  <2>1. [Quiet(total) EXCEPT !.at = "loaded", !.kind = "row", !.next = status] \in Request
    BY QuietType DEF TypeOK, Request, Stages, Kinds
  <2> QED BY <1>12, <2>1, BeginType DEF RowLoads, TypeOK
<1>13. ASSUME NEW w \in Workers, RowSaves(w) PROVE TypeOK'
  BY <1>13, QuietType DEF RowSaves, TypeOK, Request
<1>14. CASE UNCHANGED vars
  BY <1>14 DEF vars, TypeOK
<1> QED
  BY <1>1, <1>2, <1>3, <1>4, <1>5, <1>6, <1>7, <1>8, <1>9, <1>10, <1>11, <1>12, <1>13, <1>14,
     <1>15, <1>16
     DEF Next, Step

\* The state is typed: the status is never left at the null it starts from.
THEOREM TypeCorrect == Spec => []TypeOK
<1>1. Init => TypeOK
  <2> SUFFICES ASSUME Init PROVE TypeOK
    OBVIOUS
  <2>1. Quiet(total) \in Request
    BY QuietType DEF Init
  <2>2. req \in [Workers -> Request]
    BY <2>1 DEF Init
  <2>3. status \in Statuses
    BY DEF Init, Statuses
  <2>4. requests \in 0 .. MaxRequests
    BY StockAssumption DEF Init
  <2> QED
    BY <2>2, <2>3, <2>4 DEF Init, Copies, TypeOK
<1> QED
  BY <1>1, TypeStep, PTL DEF Spec

-----------------------------------------------------------------------------
Active(w) == req[w].at # "idle"

\* A lone recount has read the container and the items as they are.
LoneRecount(w) ==
    req[w].alone =>
        /\ OthersIdle(w)
        /\ req[w].at = "container" => req[w].total = total
        /\ req[w].at \in {"read", "updated"} =>
              req[w].next = StatusOf(Seen(w), total, CopyOf(req[w].kind))

\* Requests that do not commit items ahead of their recount.
Harmless == {"sale", "confirm", "order", "row"}

RowAsRead(w) ==
    req[w].at = "loaded" /\ req[w].kind = "row" =>
        req[w].next = status /\ req[w].total = total

\* Without an excuse requests are alone, a container row in memory is the one
\* in the database, and only a request that has committed its items ahead of
\* its recount may find the status behind.
Unexcused ==
    ~excused =>
        /\ \A w \in Workers :
              Active(w) => /\ OthersIdle(w)
                           /\ req[w].at \in {"container", "read", "updated"} => req[w].alone
                           /\ RowAsRead(w)
        /\ (\A w \in Workers : Active(w) => req[w].kind \in Harmless) => Current

StockInv == Unexcused /\ \A w \in Workers : LoneRecount(w)

LEMMA BeginStep ==
    ASSUME TypeOK, StockInv, NEW w \in Workers, NEW r \in Request, Begin(w, r),
           r.at \in {"written", "loaded"}, ~r.alone, total' = total,
           items' = items \/ r.kind \in {"unload", "adjust"}, status' = status,
           counter' = counter,
           r.kind = "row" => r.next = status /\ r.total = total
    PROVE  StockInv'
<1>1. /\ req' \in [Workers -> Request] /\ req'[w] = r
      /\ \A v \in Workers \ {w} : req'[v] = [req[v] EXCEPT !.alone = FALSE]
  BY BeginType DEF Begin
<1>2. \A v \in Workers : ~req'[v].alone
  BY <1>1 DEF TypeOK, Request
<1>3. ASSUME ~excused' PROVE \A v \in Workers : ~Active(v)
  BY <1>3 DEF Begin, OthersIdle, Active
<1>4. ASSUME ~excused' PROVE Current
  BY <1>3, <1>4 DEF StockInv, Unexcused, Begin
<1>5. \A v \in Workers \ {w} : req'[v].at = req[v].at
  BY <1>1 DEF TypeOK, Request
<1>6. ASSUME ~excused', \A v \in Workers : Active(v)' => req'[v].kind \in Harmless
      PROVE  Current'
  <2>1. items' = items
    BY <1>1, <1>6 DEF Active, Harmless
  <2> QED BY <2>1, <1>4, <1>6 DEF Current
<1>7. ASSUME ~excused', NEW v \in Workers, Active(v)'
      PROVE  /\ OthersIdle(v)' /\ req'[v].at \notin {"container", "read", "updated"}
             /\ RowAsRead(v)'
  <2>1. v = w
    BY <1>3, <1>5, <1>7 DEF Active
  <2> QED BY <1>1, <1>3, <1>5, <1>7, <2>1 DEF Active, OthersIdle, RowAsRead
<1> QED
  BY <1>2, <1>6, <1>7 DEF StockInv, Unexcused, LoneRecount

\* A request that ends, ends every excuse if it was alone.
LEMMA EndStep ==
    ASSUME TypeOK, StockInv, NEW w \in Workers, End(w), Active(w),
           req[w].at \in {"read", "updated"}, status' = req[w].next, items' = Seen(w),
           counter' = CopyOf(req[w].kind)
    PROVE  StockInv'
<1>1. /\ \A v \in Workers \ {w} : req'[v] = req[v]
      /\ req'[w].at = "idle" /\ ~req'[w].alone /\ total' = total
  BY DEF End, Quiet, TypeOK
<1>2. \A v \in Workers \ {w} : ~req[v].alone
  BY DEF StockInv, LoneRecount, OthersIdle, Active
<1>3. ASSUME ~excused' PROVE (\A v \in Workers : ~Active(v)') /\ Current'
  <2>1. req[w].alone
    BY <1>3 DEF End, StockInv, Unexcused
  <2>2. OthersIdle(w) /\ req[w].next = StatusOf(Seen(w), total, CopyOf(req[w].kind))
    BY <2>1 DEF StockInv, LoneRecount
  <2> QED BY <1>1, <2>2 DEF OthersIdle, Active, Current
<1> QED
  BY <1>1, <1>2, <1>3 DEF StockInv, Unexcused, LoneRecount

LEMMA StockStep == TypeOK /\ StockInv /\ [Next]_vars => StockInv'
<1> SUFFICES ASSUME TypeOK, StockInv, [Next]_vars PROVE StockInv'
  OBVIOUS
<1>1. ASSUME NEW w \in Workers, NEW i \in Items, NEW item \in Item \cup {None},
             SaleWrites(w, i, item)
      PROVE  StockInv'
  <2> DEFINE r == [Quiet(total) EXCEPT !.at = "written", !.kind = "sale",
                                       !.item = i, !.put = item]
  <2>1. r \in Request /\ r.at = "written" /\ ~r.alone /\ r.kind = "sale"
    BY QuietType DEF TypeOK, Request, Stages, Kinds, Quiet
  <2>2. Begin(w, r) /\ total' = total /\ items' = items /\ status' = status /\ counter' = counter
    BY <1>1 DEF SaleWrites
  <2> HIDE DEF r
  <2> QED BY <2>1, <2>2, BeginStep
<1>13. ASSUME NEW w \in Workers, NEW i \in Items, NEW item \in Item, ConfirmWrites(w, i, item)
      PROVE  StockInv'
  <2> DEFINE r == [Quiet(total) EXCEPT !.at = "written", !.kind = "confirm",
                                       !.item = i, !.put = item]
  <2>0. Quiet(total) \in Request /\ item \in Item \cup {None}
    BY QuietType DEF TypeOK
  <2>1. r \in Request /\ r.at = "written" /\ ~r.alone /\ r.kind = "confirm"
    BY <2>0 DEF Request, Stages, Kinds, Quiet
  <2>2. /\ Begin(w, r) /\ total' = total /\ items' = items /\ status' = status
        /\ counter' = counter
    BY <1>13 DEF ConfirmWrites
  <2> HIDE DEF r
  <2> QED BY <2>1, <2>2, BeginStep
<1>14. ASSUME NEW w \in Workers, CommitUncounted(w) PROVE StockInv'
  <2>1. \A v \in Workers \ {w} : req'[v] = req[v] /\ ~req[v].alone
    BY <1>14 DEF CommitUncounted, TypeOK, StockInv, LoneRecount, OthersIdle
  <2>2. excused' /\ ~req'[w].alone
    BY <1>14 DEF CommitUncounted, Quiet, TypeOK
  <2> QED BY <2>1, <2>2 DEF StockInv, Unexcused, LoneRecount
<1>2. ASSUME NEW w \in Workers, NEW i \in Items, NEW item \in Item, UnloadWrites(w, i, item)
      PROVE  StockInv'
  <2> DEFINE r == [Quiet(total) EXCEPT !.at = "written", !.kind = "unload"]
  <2>1. r \in Request /\ r.at = "written" /\ ~r.alone /\ r.kind = "unload"
    BY QuietType DEF TypeOK, Request, Stages, Kinds, Quiet
  <2>2. Begin(w, r) /\ total' = total /\ status' = status /\ counter' = counter
    BY <1>2 DEF UnloadWrites
  <2> HIDE DEF r
  <2> QED BY <2>1, <2>2, BeginStep
<1>3. ASSUME NEW w \in Workers, NEW i \in Items, NEW item \in Item, AdjustWrites(w, i, item)
      PROVE  StockInv'
  <2> DEFINE r == [Quiet(total) EXCEPT !.at = "written", !.kind = "adjust"]
  <2>1. r \in Request /\ r.at = "written" /\ ~r.alone /\ r.kind = "adjust"
    BY QuietType DEF TypeOK, Request, Stages, Kinds, Quiet
  <2>2. Begin(w, r) /\ total' = total /\ status' = status /\ counter' = counter
    BY <1>3 DEF AdjustWrites
  <2> HIDE DEF r
  <2> QED BY <2>1, <2>2, BeginStep
<1>4. ASSUME NEW w \in Workers, OrderLoads(w) PROVE StockInv'
  <2> DEFINE r == [Quiet(total) EXCEPT !.at = "loaded", !.kind = "order", !.next = status]
  <2>1. r \in Request /\ r.at = "loaded" /\ ~r.alone /\ r.kind = "order"
    BY QuietType DEF TypeOK, Request, Stages, Kinds, Quiet
  <2>2. Begin(w, r) /\ total' = total /\ items' = items /\ status' = status /\ counter' = counter
    BY <1>4 DEF OrderLoads
  <2> HIDE DEF r
  <2> QED BY <2>1, <2>2, BeginStep
<1>5. ASSUME NEW w \in Workers,
             ReadContainer(w) \/ ReadItems(w) \/ WriteStatusLocking(w)
      PROVE  StockInv'
  <2>1. /\ total' = total /\ items' = items /\ status' = status /\ counter' = counter /\ excused' = excused
        /\ \A v \in Workers \ {w} : req'[v] = req[v]
        /\ req[w].at # "idle" /\ req'[w].at \in {"container", "read", "updated"}
        /\ req'[w].kind = req[w].kind
        /\ req'[w].item = req[w].item /\ req'[w].put = req[w].put
    BY <1>5 DEF ReadContainer, ReadItems, WriteStatusLocking, TypeOK, Request
  <2>2. \A v \in Workers : Seen(v)' = Seen(v) /\ (Active(v)' <=> Active(v))
    BY <2>1 DEF Seen, InTransaction, Active
  <2>3. \A v \in Workers : OthersIdle(v)' <=> OthersIdle(v)
    BY <2>2 DEF OthersIdle, Active
  <2>4. \A v \in Workers \ {w} : LoneRecount(v)'
    BY <2>1, <2>2, <2>3 DEF StockInv, LoneRecount
  <2>5. LoneRecount(w)' /\ (~excused => req'[w].alone)
    <3>1. CASE ReadContainer(w)
      <4>1. req'[w].at = "container" /\ req'[w].total = total
            /\ req'[w].alone = OthersIdle(w)
        BY <3>1 DEF ReadContainer, TypeOK, Request
      <4> QED
        BY <2>1, <2>3, <4>1 DEF LoneRecount, StockInv, Unexcused, Active
    <3>2. CASE ReadItems(w)
      <4>1. /\ req[w].at = "container" /\ req'[w].at = "read"
            /\ req'[w].alone = req[w].alone
            /\ req'[w].next = StatusOf(Seen(w), req[w].total, CopyOf(req[w].kind))
        BY <3>2 DEF ReadItems, TypeOK, Request
      <4>3. req[w].alone => req'[w].next = StatusOf(Seen(w), total, CopyOf(req[w].kind))
        BY <4>1 DEF StockInv, LoneRecount
      <4> QED
        BY <2>1, <2>2, <2>3, <4>1, <4>3
           DEF LoneRecount, StockInv, Unexcused, Active
    <3>3. CASE WriteStatusLocking(w)
      <4>1. /\ req[w].at = "read" /\ req'[w].at = "updated"
            /\ req'[w].alone = req[w].alone /\ req'[w].next = req[w].next
        BY <3>3 DEF WriteStatusLocking, TypeOK, Request
      <4> QED
        BY <2>1, <2>2, <2>3, <4>1 DEF LoneRecount, StockInv, Unexcused, Active
    <3> QED BY <1>5, <3>1, <3>2, <3>3
  <2>6. Unexcused'
    <3>1. Current' <=> Current
      BY <2>1 DEF Current
    <3>2. ASSUME ~excused, NEW v \in Workers, Active(v)'
          PROVE  /\ OthersIdle(v)' /\ RowAsRead(v)'
                 /\ req'[v].at \in {"container", "read", "updated"} => req'[v].alone
      <4>1. CASE v = w
        BY <2>1, <2>2, <2>3, <2>5, <3>2, <4>1 DEF StockInv, Unexcused, RowAsRead
      <4>2. CASE v # w
        BY <2>1, <2>2, <2>3, <3>2, <4>2 DEF StockInv, Unexcused, RowAsRead
      <4> QED BY <4>1, <4>2
    <3>3. \A v \in Workers : req'[v].kind = req[v].kind
      BY <2>1
    <3> QED
      BY <2>1, <2>2, <3>1, <3>2, <3>3 DEF StockInv, Unexcused
  <2> QED BY <2>4, <2>5, <2>6 DEF StockInv
<1>6. ASSUME NEW w \in Workers, Commit(w) PROVE StockInv'
  BY <1>6, EndStep DEF Commit, Active
<1>7. ASSUME NEW w \in Workers, WriteStatus(w) PROVE StockInv'
  <2>1. items' = Seen(w)
    BY <1>7 DEF WriteStatus, Seen
  <2> QED BY <1>7, <2>1, EndStep DEF WriteStatus, Active
<1>8. ASSUME NEW w \in Workers, NEW tot \in Totals, OrderSaves(w, tot) PROVE StockInv'
  <2>1. \A v \in Workers \ {w} : req'[v] = req[v] /\ ~req[v].alone
    BY <1>8 DEF OrderSaves, TypeOK, StockInv, LoneRecount, OthersIdle
  <2>2. excused' /\ ~req'[w].alone
    BY <1>8 DEF OrderSaves, Quiet, TypeOK
  <2> QED BY <2>1, <2>2 DEF StockInv, Unexcused, LoneRecount
<1>9. ASSUME NEW w \in Workers, Die(w) PROVE StockInv'
  <2>1. /\ \A v \in Workers \ {w} : req'[v] = req[v] /\ ~req[v].alone
        /\ req'[w].at = "idle" /\ ~req'[w].alone
        /\ total' = total /\ items' = items /\ status' = status /\ counter' = counter
    BY <1>9 DEF Die, Quiet, TypeOK, StockInv, LoneRecount, OthersIdle
  <2>2. ASSUME ~excused'
        PROVE  (\A v \in Workers : ~Active(v)') /\ Current'
    <3>1. ~excused /\ req[w].kind \notin {"unload", "adjust"} /\ Active(w)
      BY <1>9, <2>2 DEF Die, Active
    <3>2. OthersIdle(w)
      BY <3>1 DEF StockInv, Unexcused
    <3>3. req[w].kind \in Harmless
      BY <3>1 DEF TypeOK, Request, Kinds, Harmless
    <3>4. Current
      BY <3>1, <3>2, <3>3 DEF StockInv, Unexcused, OthersIdle, Active
    <3> QED BY <2>1, <3>2, <3>4 DEF OthersIdle, Active, Current
  <2> QED BY <2>1, <2>2 DEF StockInv, Unexcused, LoneRecount
<1>10. CASE UNCHANGED vars
  BY <1>10 DEF vars, StockInv, Unexcused, RowAsRead, LoneRecount, Active, OthersIdle,
               Current, Seen, InTransaction
<1>11. ASSUME NEW w \in Workers, RowLoads(w) PROVE StockInv'
  <2> DEFINE r == [Quiet(total) EXCEPT !.at = "loaded", !.kind = "row", !.next = status]
  <2>1. /\ r \in Request /\ r.at = "loaded" /\ ~r.alone
        /\ r.next = status /\ r.total = total
    BY QuietType DEF TypeOK, Request, Stages, Kinds, Quiet
  <2>2. Begin(w, r) /\ total' = total /\ items' = items /\ status' = status /\ counter' = counter
    BY <1>11 DEF RowLoads
  <2> HIDE DEF r
  <2> QED BY <2>1, <2>2, BeginStep
<1>12. ASSUME NEW w \in Workers, RowSaves(w) PROVE StockInv'
  <2>1. /\ \A v \in Workers \ {w} : req'[v] = req[v] /\ ~req[v].alone
        /\ req'[w].at = "idle" /\ ~req'[w].alone
        /\ items' = items /\ excused' = excused /\ counter' = counter
        /\ Active(w) /\ req[w].kind = "row"
    BY <1>12 DEF RowSaves, Quiet, TypeOK, StockInv, LoneRecount, OthersIdle, Active
  <2>2. ASSUME ~excused PROVE (\A v \in Workers : ~Active(v)') /\ Current'
    <3>1. OthersIdle(w) /\ total' = total /\ status' = status
      BY <1>12, <2>1, <2>2 DEF StockInv, Unexcused, RowAsRead, RowSaves
    <3>2. Current
      BY <2>1, <2>2, <3>1 DEF StockInv, Unexcused, OthersIdle, Active, Harmless
    <3> QED BY <2>1, <3>1, <3>2 DEF OthersIdle, Active, Current
  <2> QED BY <2>1, <2>2 DEF StockInv, Unexcused, LoneRecount
<1> QED
  BY <1>1, <1>2, <1>3, <1>4, <1>5, <1>6, <1>7, <1>8, <1>9, <1>10, <1>11, <1>12,
     <1>13, <1>14
     DEF Next, Step

\* A container without items is available, with whatever quantity.
LEMMA EmptyIsAvailable ==
    ASSUME NEW tot, NEW copy
    PROVE  StatusOf([i \in Items |-> None], tot, copy) = "AVAILABLE"
<1>1. Live([i \in Items |-> None]) = {}
  BY DEF Live
<1>2. Sold([i \in Items |-> None], tot, copy) = [bales |-> 0, weight |-> 0]
  BY <1>1 DEF Sold, SumOfLive
<1>3. ~(0 > 0)
  OBVIOUS
<1> QED
  BY <1>2, <1>3 DEF StatusOf

\* Whenever nothing is under way the status is the one its copy of the function
\* gives to the items, unless requests overlapped, one died before its recount,
\* an order was saved, or a confirmation added an item.
THEOREM StatusCorrect == Spec => []StaleOnlyIfExcused
<1>1. Init => StockInv
  BY EmptyIsAvailable DEF Init, StockInv, Unexcused, LoneRecount, Active, Quiet, Current
<1>2. StockInv => StaleOnlyIfExcused
  BY DEF StockInv, Unexcused, Active, StaleOnlyIfExcused, AllIdle
<1> QED
  BY <1>1, <1>2, TypeCorrect, StockStep, PTL DEF Spec
-----------------------------------------------------------------------------
(* That the quantities of the live items add up to an integer.  The library *)
(* defines a sum by a function on the subsets of its domain that recurs on  *)
(* itself; that there is one is shown by induction over their cardinality.  *)

\* Induction over the numbers, for a set of them.
LEMMA NatSet ==
  ASSUME NEW T, T \subseteq Nat, 0 \in T, \A n \in T : n + 1 \in T
  PROVE  Nat = T
<1> DEFINE Out == Nat \ T
           R == OpToRel(<, Nat)
<1>1. SUFFICES ASSUME Out # {} PROVE FALSE
  OBVIOUS
<1>2. IsWellFoundedOn(R, Nat)
  BY NatLessThanWellFounded
<1> HIDE DEF R
<1>3. PICK m \in Out : \A k \in Out : <<k, m>> \notin R
  BY <1>1, <1>2, WFMin
<1>4. \A k \in Out : ~(k < m)
  BY <1>3 DEF R, OpToRel
<1>5. m # 0 /\ m - 1 \in Nat
  OBVIOUS
<1>6. m - 1 \in T
  BY <1>4, <1>5
<1> QED
  BY <1>5, <1>6

SumOver(f, S) == FoldFunctionOnSet(+, 0, f, S)

\* The sums of f over the subsets of S, by the recursion of the fold.
Any(s) == CHOOSE x \in s : TRUE
SumOn(g, f, S) ==
  g = [s \in SUBSET S |-> IF s = {} THEN 0 ELSE f[Any(s)] + g[s \ {Any(s)}]]

LEMMA SumDef ==
  ASSUME NEW f, NEW S
  PROVE  SumOver(f, S) = (CHOOSE g : SumOn(g, f, S))[S]
  BY DEF SumOver, FoldFunctionOnSet, MapThenFoldSet, SumOn, Any

Small(S, n) == {s \in SUBSET S : Cardinality(s) <= n}

LEMMA SmallLess ==
  ASSUME NEW S, IsFiniteSet(S), NEW n \in Nat, NEW s \in Small(S, n + 1), s # {}
  PROVE  /\ Any(s) \in s /\ Any(s) \in S
         /\ \A x \in s : s \ {x} \in Small(S, n)
<1>1. Any(s) \in s
  BY DEF Any
<1>2. s \in SUBSET S /\ IsFiniteSet(s) /\ Cardinality(s) <= n + 1
  BY FS_Subset DEF Small
<1>3. ASSUME NEW x \in s PROVE s \ {x} \in Small(S, n)
  <2>1. Cardinality(s \ {x}) = Cardinality(s) - 1 /\ Cardinality(s) \in Nat
    BY <1>2, FS_RemoveElement, FS_CardinalityType
  <2> QED
    BY <1>2, <2>1 DEF Small
<1> QED
  BY <1>1, <1>2, <1>3

LEMMA SmallAll ==
  ASSUME NEW S, IsFiniteSet(S)
  PROVE  /\ Cardinality(S) \in Nat /\ Small(S, Cardinality(S)) = SUBSET S
         /\ \A s \in Small(S, 0) : s = {}
  BY FS_CardinalityType, FS_Subset, FS_EmptySet DEF Small

LEMMA SumExists ==
  ASSUME NEW S, IsFiniteSet(S), NEW f
  PROVE  \E g : SumOn(g, f, S)
<1> DEFINE On(g, n) == g = [s \in Small(S, n) |->
                              IF s = {} THEN 0 ELSE f[Any(s)] + g[s \ {Any(s)}]]
           T == {n \in Nat : \E g : On(g, n)}
<1>1. 0 \in T
  <2>1. On([s \in Small(S, 0) |-> 0], 0)
    BY SmallAll
  <2> QED
    BY <2>1
<1>2. ASSUME NEW n \in T PROVE n + 1 \in T
  <2>1. PICK g : On(g, n)
    BY <1>2
  <2> DEFINE h == [s \in Small(S, n + 1) |->
                     IF s = {} THEN 0 ELSE f[Any(s)] + g[s \ {Any(s)}]]
  <2>2. ASSUME NEW s \in Small(S, n) PROVE s \in Small(S, n + 1) /\ h[s] = g[s]
    <3>1. s \in Small(S, n + 1)
      BY FS_Subset, FS_CardinalityType DEF Small
    <3> QED
      BY <2>1, <3>1
  <2>3. ASSUME NEW s \in Small(S, n + 1), s # {}
        PROVE  h[s] = f[Any(s)] + h[s \ {Any(s)}]
    <3>1. s \ {Any(s)} \in Small(S, n)
      BY <2>3, SmallLess
    <3>2. h[s \ {Any(s)}] = g[s \ {Any(s)}]
      BY <2>2, <3>1
    <3> QED
      BY <2>3, <3>2
  <2>4. \A s \in Small(S, n + 1) : h[s] = IF s = {} THEN 0 ELSE f[Any(s)] + h[s \ {Any(s)}]
    <3>1. \A s \in Small(S, n + 1) : s = {} => h[s] = 0
      OBVIOUS
    <3> HIDE DEF h
    <3> QED
      BY <2>3, <3>1
  <2>5. h = [s \in Small(S, n + 1) |-> h[s]]
    OBVIOUS
  <2>6. n + 1 \in Nat
    OBVIOUS
  <2> HIDE DEF h
  <2>7. On(h, n + 1)
    BY <2>4, <2>5
  <2> QED
    BY <2>6, <2>7
<1> HIDE DEF T
<1>3. Cardinality(S) \in T
  <2>1. T \subseteq Nat
    BY DEF T
  <2>2. Nat = T
    BY <1>1, <1>2, <2>1, NatSet
  <2> QED
    BY <2>2, SmallAll
<1>4. PICK g : On(g, Cardinality(S))
  BY <1>3 DEF T
<1> QED
  BY <1>4, SmallAll DEF SumOn

LEMMA SumFix ==
  ASSUME NEW S, IsFiniteSet(S), NEW f
  PROVE  \E g : SumOn(g, f, S) /\ SumOver(f, S) = g[S]
  BY SumExists, SumDef, Zenon

LEMMA SumOnType ==
  ASSUME NEW S, IsFiniteSet(S), NEW f, NEW K, K = Int \/ K = Nat,
         \A x \in S : f[x] \in K, NEW g, SumOn(g, f, S)
  PROVE  \A s \in SUBSET S : g[s] \in K
<1> DEFINE N == {n \in Nat : \A s \in Small(S, n) : g[s] \in K}
<1>0. 0 \in K /\ \A a, b \in K : a + b \in K
  OBVIOUS
<1>1. 0 \in N
  BY <1>0, SmallAll DEF SumOn
<1>2. ASSUME NEW n \in N PROVE n + 1 \in N
  <2>1. SUFFICES ASSUME NEW s \in Small(S, n + 1) PROVE g[s] \in K
    OBVIOUS
  <2>2. CASE s = {}
    BY <1>0, <2>2 DEF SumOn
  <2>3. CASE s # {}
    <3>1. f[Any(s)] \in K /\ g[s \ {Any(s)}] \in K
      BY <2>3, SmallLess
    <3>2. g[s] = f[Any(s)] + g[s \ {Any(s)}]
      BY <2>3 DEF SumOn, Small
    <3> QED
      BY <1>0, <3>1, <3>2
  <2> QED
    BY <2>2, <2>3
<1> HIDE DEF N
<1>3. Cardinality(S) \in N
  <2>1. N \subseteq Nat
    BY DEF N
  <2>2. Nat = N
    BY <1>1, <1>2, <2>1, NatSet
  <2> QED
    BY <2>2, SmallAll
<1> QED
  BY <1>3, SmallAll DEF N

LEMMA SumType ==
  ASSUME NEW S, IsFiniteSet(S), NEW f, NEW K, K = Int \/ K = Nat, \A x \in S : f[x] \in K
  PROVE  SumOver(f, S) \in K
<1>1. PICK g : SumOn(g, f, S) /\ SumOver(f, S) = g[S]
  BY SumFix
<1> QED
  BY <1>1, SumOnType

LEMMA DivType ==
    ASSUME NEW a \in Int, NEW b \in Int, NEW n \in Nat \ {0}
    PROVE  (a * b) \div n \in Int
<1>1. a * b \in Int
  OBVIOUS
<1> QED
  BY <1>1

LEMMA TakenType ==
    ASSUME NEW item \in Item, NEW tot \in Totals, NEW copy
    PROVE  Taken(item, tot, copy).bales \in Int /\ Taken(item, tot, copy).weight \in Int
<1>1. /\ tot.bales \in Nat \ {0} /\ tot.weight \in Nat \ {0}
      /\ item.bales # None => item.bales \in Int
      /\ item.weight # None => item.weight \in Int
  BY StockAssumption DEF Item
<1> DEFINE whole == copy = "delivery" \/ (item.bales = None /\ item.weight = None)
<1>2. /\ ~whole /\ item.bales = None => (tot.bales * item.weight) \div tot.weight \in Int
      /\ ~whole /\ item.weight = None => (tot.weight * item.bales) \div tot.bales \in Int
  BY <1>1, DivType
<1>3. /\ Taken(item, tot, copy).bales =
           (CASE item.bales # None -> item.bales
              [] item.bales = None /\ whole -> tot.bales
              [] OTHER -> (tot.bales * item.weight) \div tot.weight)
      /\ Taken(item, tot, copy).weight =
           (CASE item.weight # None -> item.weight
              [] item.weight = None /\ whole -> tot.weight
              [] OTHER -> (tot.weight * item.bales) \div tot.bales)
  BY DEF Taken
<1> HIDE DEF whole
<1> QED
  BY <1>1, <1>2, <1>3

LEMMA SumOfLiveType ==
    ASSUME IsFiniteSet(Items), NEW its, NEW f, \A i \in Live(its) : f[i] \in Int
    PROVE  SumOfLive(f, its) \in Int
<1>1. IsFiniteSet(Live(its))
  BY FS_Subset DEF Live
<1>2. SumOver(f, Live(its)) \in Int
  BY <1>1, SumType
<1>3. SumOfLive(f, its) = IF Live(its) = {} THEN 0 ELSE SumOver(f, Live(its))
  BY DEF SumOfLive, SumOver, SumFunctionOnSet
<1> QED
  BY <1>2, <1>3

LEMMA LiveItems ==
    ASSUME TypeOK PROVE \A i \in Live(items) : items[i] \in Item
  BY DEF TypeOK, Live

LEMMA SoldType ==
    ASSUME TypeOK, IsFiniteSet(Items), NEW copy
    PROVE  Sold(items, total, copy).bales \in Int /\ Sold(items, total, copy).weight \in Int
<1>1. total \in Totals
  BY DEF TypeOK
<1>2. \A i \in Live(items) : /\ Taken(items[i], total, copy).bales \in Int
                             /\ Taken(items[i], total, copy).weight \in Int
  BY <1>1, LiveItems, TakenType
<1> DEFINE b == [i \in Live(items) |-> Taken(items[i], total, copy).bales]
           q == [i \in Live(items) |-> Taken(items[i], total, copy).weight]
<1>3. (\A i \in Live(items) : b[i] \in Int) /\ (\A i \in Live(items) : q[i] \in Int)
  BY <1>2
<1>4. Sold(items, total, copy) = [bales |-> SumOfLive(b, items), weight |-> SumOfLive(q, items)]
  BY DEF Sold
<1> HIDE DEF b, q
<1> QED
  BY <1>3, <1>4, SumOfLiveType

\* Where every item states both amounts or neither, the copies count alike.
LEMMA CopiesCountAlike ==
    ASSUME BothOrNeither
    PROVE  Sold(items, total, "delivery") = Sold(items, total, "sales")
<1>1. \A i \in Live(items) :
        Taken(items[i], total, "delivery") = Taken(items[i], total, "sales")
  BY DEF BothOrNeither, Taken
<1> QED
  BY <1>1 DEF Sold

\* The full statuses are those of a container of which something is sold and
\* no more than the tolerance is left.
LEMMA GoneIffSoldOut ==
    ASSUME NEW its, NEW tot, NEW copy
    PROVE  StatusOf(its, tot, copy) \in Gone
             <=> /\ Sold(its, tot, copy).bales > 0 \/ Sold(its, tot, copy).weight > 0
                 /\ AllSold(Sold(its, tot, copy), tot, ToleranceOf(copy))
<1> DEFINE some == Sold(its, tot, copy).bales > 0 \/ Sold(its, tot, copy).weight > 0
           soldOut == SoldOut(Sold(its, tot, copy), tot, copy)
           Has(S) == \E i \in Live(its) : its[i].status \in S
           onlyReserved == ~Has((SaleStatuses \cup StockStatuses) \ {"RESERVED"})
           completed == Has({"COMPLETED", "INVENTORY_CONSUMPTION"})
           inProgress == Has({"SOLD", "RESERVED"})
<1>1. StatusOf(its, tot, copy) =
        CASE ~some -> "AVAILABLE"
          [] some /\ onlyReserved ->
                IF soldOut THEN "RESERVED" ELSE "PARTIALLY_RESERVED"
          [] some /\ ~onlyReserved /\ soldOut ->
                IF completed /\ ~inProgress THEN "SOLD_OUT" ELSE "SELLING"
          [] OTHER ->
                IF completed THEN "PARTIALLY_SOLD_COMPLETED" ELSE "PARTIALLY_SOLD"
  BY DEF StatusOf
<1>2. soldOut <=> AllSold(Sold(its, tot, copy), tot, ToleranceOf(copy))
  BY DEF SoldOut
<1> HIDE DEF Has, onlyReserved, soldOut, completed, inProgress
<1>3. StatusOf(its, tot, copy) \in Gone <=> some /\ soldOut
  <2> HIDE DEF some
  <2> QED
    BY <1>1 DEF Gone
<1> QED
  BY <1>2, <1>3

\* When the status is not stale, the containers hidden from the inventory lists
\* are those with nothing left, for any items and quantities: whichever copy of
\* the computation wrote the status, for items that state both amounts or
\* neither, and for all items if the sales or the trade service wrote it.
THEOREM HiddenWhenGone ==
    IsFiniteSet(Items) => (Spec => []HiddenIffGone)
<1> SUFFICES ASSUME IsFiniteSet(Items) PROVE Spec => []HiddenIffGone
  OBVIOUS
<1>1. TypeOK /\ StaleOnlyIfExcused => HiddenIffGone
  <2> DEFINE sold == Sold(items, total, "sales")
  <2> SUFFICES ASSUME TypeOK, StaleOnlyIfExcused, AllIdle, ~excused,
                      total.bales > Tolerance, total.weight > Tolerance,
                      counter = "delivery" => BothOrNeither
               PROVE  /\ status \in Gone => AllSold(sold, total, Tolerance)
                      /\ AllSold(sold, total, 0) => status \in Gone
    BY DEF HiddenIffGone
  <2>1. sold.bales \in Int /\ sold.weight \in Int
    BY SoldType
  <2>2. /\ total.bales \in Nat \ {0} /\ total.weight \in Nat \ {0} /\ Tolerance \in Nat
        /\ counter \in Copies
    BY StockAssumption DEF TypeOK
  <2>3. status = StatusOf(items, total, counter) /\ Sold(items, total, counter) = sold
    BY <2>2, CopiesCountAlike DEF StaleOnlyIfExcused, Current, Copies
  <2>4. status \in Gone <=> /\ sold.bales > 0 \/ sold.weight > 0
                            /\ AllSold(sold, total, ToleranceOf(counter))
    BY <2>3, GoneIffSoldOut
  <2>5. ToleranceOf(counter) \in 0 .. Tolerance
    BY <2>2 DEF ToleranceOf
  <2> HIDE DEF sold
  <2> QED
    BY <2>1, <2>2, <2>4, <2>5 DEF AllSold
<1>2. Spec => []StaleOnlyIfExcused
  BY StatusCorrect
<1>3. Spec => []TypeOK
  BY TypeCorrect
<1> QED
  BY <1>1, <1>2, <1>3, PTL
=================================================================================
