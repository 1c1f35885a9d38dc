---------------------------- MODULE PrepaymentProofs ----------------------------
(***************************************************************************)
(* Proofs about Prepayment.  A request saves a row as it read or made it,  *)
(* however old, so what holds of every row must hold of every row that a   *)
(* request still has to save; of a row that two saves have torn neither    *)
(* holds any more.  While requests come one at a time nothing is torn, and *)
(* more holds: what the request will leave behind can be said at every     *)
(* point of it, because nothing changes the rows meanwhile.                *)
(***************************************************************************)
EXTENDS Prepayment, TLAPS

Agrees(r) ==
    /\ r.status = "CONFIRMED" => r.actual # None /\ r.diff = r.actual - r.amount
    /\ r.status \in {"AVAILABLE", "REFUNDED"} => r.actual # None
    /\ r.status = "REQUESTED" => r.actual = None

GoodRow == {r \in Row : Agrees(r)}
Stored == GoodRow \cup {None}
Entry == GoodRow \cup {None, Same}

Sound ==
    \A i \in Ids \ torn :
        /\ rows[i] \in Stored
        /\ \A w \in Workers : req[w].want[i] \in Entry /\ req[w].wrote[i] \in Entry

\* What a look has found to write: something, and all of it to remove a row.
Looked(r) ==
    /\ r.at \in {"idle", "ask"} => r.cols = None
    /\ r.cols # None =>
          \A i \in Ids : r.cols[i] # {} =>
              r.want[i] # Same /\ (r.want[i] = None => "id" \in r.cols[i])

IInv == TypeOK /\ Sound /\ \A w \in Workers : Looked(req[w])

-----------------------------------------------------------------------------
(* Rows. *)

LEMMA GoodRows == /\ GoodRow \subseteq Row
                  /\ None \notin GoodRow /\ Same \notin GoodRow
                  /\ Stored \subseteq Entry
  BY RowAssumption DEF GoodRow, Stored, Entry

LEMMA RequestedGood ==
  ASSUME NEW amount \in Amounts
  PROVE  Requested(amount) \in GoodRow
<1>1. Requested(amount) \in Row
  BY DEF Requested, Row, Statuses
<1>2. Agrees(Requested(amount))
  BY DEF Requested, Agrees
<1> QED
  BY <1>1, <1>2 DEF GoodRow

LEMMA PaidGood ==
  ASSUME NEW r \in Row, NEW actual \in Amounts
  PROVE  Paid(r, actual, "CONFIRMED") \in GoodRow
<1>0. \A a \in Amounts : a \in Int
  BY PrepaymentAssumption
<1>a. r.amount \in Amounts
  BY DEF Row
<1>1. r.amount \in Int /\ actual \in Int /\ actual - r.amount \in Int
  BY <1>0, <1>a
<1>2. Paid(r, actual, "CONFIRMED") \in Row
  BY <1>1 DEF Paid, Row, Statuses
<1>3. actual # None
  BY <1>1, PrepaymentAssumption
<1>4. Agrees(Paid(r, actual, "CONFIRMED"))
  BY <1>3 DEF Paid, Agrees, Row
<1> QED
  BY <1>2, <1>4 DEF GoodRow

\* What leaves the payment alone keeps a row good.
LEMMA RestatusGood ==
  ASSUME NEW r \in GoodRow, NEW st \in {"CANCELLED", "AVAILABLE", "REFUNDED"},
         st # "CANCELLED" => r.status \in {"CONFIRMED", "AVAILABLE"}
  PROVE  [r EXCEPT !.status = st] \in GoodRow
<1>1. r \in Row /\ Agrees(r)
  BY DEF GoodRow
<1>2. [r EXCEPT !.status = st] \in Row
  BY <1>1 DEF Row, Statuses
<1>3. Agrees([r EXCEPT !.status = st])
  BY <1>1 DEF Agrees, Row
<1> QED
  BY <1>2, <1>3 DEF GoodRow

LEMMA ReaskedGood ==
  ASSUME NEW r \in GoodRow, NEW amount \in Amounts,
         r.status \in {"REQUESTED", "AVAILABLE"}
  PROVE  [r EXCEPT !.amount = amount] \in GoodRow
<1>1. r \in Row /\ Agrees(r)
  BY DEF GoodRow
<1>2. [r EXCEPT !.amount = amount] \in Row
  BY <1>1 DEF Row
<1>3. Agrees([r EXCEPT !.amount = amount])
  BY <1>1 DEF Agrees, Row
<1> QED
  BY <1>2, <1>3 DEF GoodRow

LEMMA AskedType ==
  ASSUME NEW b \in Bases, NEW its, NEW amount \in Asked(b, its)
  PROVE  amount \in Amounts \cup {0}
  BY DEF Asked

\* Step 6 writes a good row, or removes one.
LEMMA AmendedGood ==
  ASSUME NEW r \in Stored, NEW amount \in Amounts \cup {0}, NEW b
  PROVE  Amended(r, amount, b) \in Entry
<1> DEFINE A == amount > 0 /\ r = None
           B == amount > 0 /\ r # None /\ r.status \in {"REQUESTED", "AVAILABLE"}
           C == amount = 0 /\ b = None /\ r # None /\ r.status = "REQUESTED"
<1>0. amount \in Nat /\ (amount > 0 => amount \in Amounts)
  BY PrepaymentAssumption
<1>1. CASE A
  <2>1. Amended(r, amount, b) = Requested(amount)
    BY <1>1 DEF Amended
  <2> QED
    BY <2>1, <1>0, <1>1, RequestedGood DEF Entry
<1>2. CASE B
  <2>1. Amended(r, amount, b) = [r EXCEPT !.amount = amount]
    BY <1>2 DEF Amended
  <2>2. r \in GoodRow
    BY <1>2 DEF Stored
  <2> QED
    BY <2>1, <2>2, <1>0, <1>2, ReaskedGood DEF Entry
<1>3. CASE C
  <2>1. Amended(r, amount, b) = None
    BY <1>3, <1>0 DEF Amended
  <2> QED
    BY <2>1 DEF Entry
<1>4. CASE ~A /\ ~B /\ ~C
  <2>1. Amended(r, amount, b) = Same
    BY <1>4 DEF Amended
  <2> QED
    BY <2>1 DEF Entry
<1> QED
  BY <1>1, <1>2, <1>3, <1>4

\* Whatever the row, torn or not, step 6 makes a row of it.
LEMMA AmendedRow ==
  ASSUME NEW r \in Row \cup {None}, NEW amount \in Amounts \cup {0}, NEW b
  PROVE  Amended(r, amount, b) \in Row \cup {None, Same}
<1> DEFINE A == amount > 0 /\ r = None
           B == amount > 0 /\ r # None /\ r.status \in {"REQUESTED", "AVAILABLE"}
           C == amount = 0 /\ b = None /\ r # None /\ r.status = "REQUESTED"
<1>0. amount \in Nat /\ (amount > 0 => amount \in Amounts)
  BY PrepaymentAssumption
<1>1. CASE A
  <2>1. Amended(r, amount, b) = Requested(amount)
    BY <1>1 DEF Amended
  <2> QED
    BY <2>1, <1>0, <1>1, RequestedGood, GoodRows
<1>2. CASE B
  <2>1. Amended(r, amount, b) = [r EXCEPT !.amount = amount]
    BY <1>2 DEF Amended
  <2> QED
    BY <2>1, <1>0, <1>2 DEF Row
<1>3. CASE C
  <2>1. Amended(r, amount, b) = None
    BY <1>3, <1>0 DEF Amended
  <2> QED
    BY <2>1
<1>4. CASE ~A /\ ~B /\ ~C
  <2>1. Amended(r, amount, b) = Same
    BY <1>4 DEF Amended
  <2> QED
    BY <2>1
<1> QED
  BY <1>1, <1>2, <1>3, <1>4

LEMMA SettledRow ==
  ASSUME NEW r \in Row, NEW refund \in BOOLEAN
  PROVE  Settled(r, refund) \in Row \cup {Same}
<1>1. \A st \in Statuses : [r EXCEPT !.status = st] \in Row
  BY DEF Row
<1>2. \/ Settled(r, refund) = Same
      \/ \E st \in {"CANCELLED", "REFUNDED", "AVAILABLE"} :
            Settled(r, refund) = [r EXCEPT !.status = st]
  BY DEF Settled
<1> QED
  BY <1>1, <1>2 DEF Statuses

\* Step 7 writes a good row.
LEMMA SettledGood ==
  ASSUME NEW r \in GoodRow, NEW refund \in BOOLEAN
  PROVE  Settled(r, refund) \in Entry
<1> DEFINE A == r.status = "REQUESTED"
           B == r.status \in {"CONFIRMED", "AVAILABLE"} /\ refund
           C == r.status = "CONFIRMED" /\ ~refund
<1>1. CASE A
  <2>1. Settled(r, refund) = [r EXCEPT !.status = "CANCELLED"]
    BY <1>1 DEF Settled
  <2> QED
    BY <2>1, RestatusGood DEF Entry
<1>2. CASE B
  <2>1. Settled(r, refund) = [r EXCEPT !.status = "REFUNDED"]
    BY <1>2 DEF Settled
  <2> QED
    BY <2>1, <1>2, RestatusGood DEF Entry
<1>3. CASE C
  <2>1. Settled(r, refund) = [r EXCEPT !.status = "AVAILABLE"]
    BY <1>3 DEF Settled
  <2> QED
    BY <2>1, <1>3, RestatusGood DEF Entry
<1>4. CASE ~A /\ ~B /\ ~C
  <2>1. Settled(r, refund) = Same
    BY <1>4 DEF Settled
  <2> QED
    BY <2>1 DEF Entry
<1> QED
  BY <1>1, <1>2, <1>3, <1>4

-----------------------------------------------------------------------------
(* Writes. *)

LEMMA OnlyType ==
  ASSUME NEW i \in Ids, NEW e \in Entry
  PROVE  Only(i, e) \in [Ids -> Entry]
  BY DEF Only, Nothing, Entry

LEMMA NothingType == Nothing \in [Ids -> Entry]
  BY DEF Nothing, Entry

LEMMA OverStored ==
  ASSUME NEW f \in [Ids -> Stored], NEW g \in [Ids -> Entry]
  PROVE  Over(f, g) \in [Ids -> Stored]
  BY DEF Over, Stored, Entry

LEMMA IdleType == Idle \in Request /\ Looked(Idle)
                  /\ \A i \in Ids : Idle.want[i] = Same /\ Idle.wrote[i] = Same
  BY DEF Idle, Request, Nothing, Bases, ItemKinds, Looked

-----------------------------------------------------------------------------
(* A save. *)

LEMMA MergedType ==
  ASSUME NEW row \in Row \cup {None}, NEW stored \in Row \cup {None}, NEW cols,
         row = None => "id" \in cols
  PROVE  Merged(row, stored, cols) \in Row \cup {None}
<1>1. CASE "id" \in cols \/ stored = None
  BY <1>1 DEF Merged
<1>2. CASE "id" \notin cols /\ stored # None
  <2>1. row \in Row /\ stored \in Row
    BY <1>2
  <2>2. Merged(row, stored, cols) =
           [c \in DOMAIN stored |-> IF c \in cols THEN row[c] ELSE stored[c]]
    BY <1>2 DEF Merged
  <2>3. DOMAIN stored = {"amount", "actual", "diff", "status"}
    BY <2>1 DEF Row
  <2>4. Merged(row, stored, cols) =
           [amount |-> IF "amount" \in cols THEN row.amount ELSE stored.amount,
            actual |-> IF "actual" \in cols THEN row.actual ELSE stored.actual,
            diff |-> IF "diff" \in cols THEN row.diff ELSE stored.diff,
            status |-> IF "status" \in cols THEN row.status ELSE stored.status]
    BY <2>2, <2>3
  <2> QED
    BY <2>1, <2>4 DEF Row
<1> QED
  BY <1>1, <1>2

\* A save leaves a row as it is, or as the request held it, or removes it, or
\* tears it.
LEMMA LeftRows ==
  ASSUME NEW rs \in [Ids -> Row \cup {None}], NEW r \in Request, Looked(r), r.cols # None
  PROVE  /\ Left(rs, r) \in [Ids -> Row \cup {None}]
         /\ \A i \in Ids \ Tears(rs, r) :
               \/ Left(rs, r)[i] \in {rs[i], None}
               \/ Left(rs, r)[i] = r.want[i] /\ r.want[i] # Same
         /\ Tears(rs, r) \subseteq Ids
<1>1. ASSUME NEW i \in Ids
      PROVE  Left(rs, r)[i] \in Row \cup {None}
  <2>1. Left(rs, r)[i] = IF r.cols[i] = {} THEN rs[i] ELSE Merged(r.want[i], rs[i], r.cols[i])
    BY DEF Left
  <2>2. CASE r.cols[i] # {}
    <3>1. r.want[i] \in Row \cup {None, Same}
      BY DEF Request
    <3>2. r.want[i] \in Row \cup {None} /\ (r.want[i] = None => "id" \in r.cols[i])
      BY <2>2, <3>1 DEF Looked
    <3> QED
      BY <2>1, <2>2, <3>2, MergedType
  <2> QED
    BY <2>1, <2>2
<1>2. Left(rs, r) \in [Ids -> Row \cup {None}]
  <2>1. Left(rs, r) = [i \in Ids |-> Left(rs, r)[i]]
    BY DEF Left
  <2> QED
    BY <1>1, <2>1
<1>3. ASSUME NEW i \in Ids \ Tears(rs, r)
      PROVE  \/ Left(rs, r)[i] \in {rs[i], None}
             \/ Left(rs, r)[i] = r.want[i] /\ r.want[i] # Same
  <2>1. CASE r.cols[i] = {}
    BY <2>1 DEF Left
  <2>2. CASE r.cols[i] # {}
    BY <2>2 DEF Tears, Looked
  <2> QED
    BY <2>1, <2>2
<1> QED
  BY <1>2, <1>3 DEF Tears

-----------------------------------------------------------------------------
(* A step of one request. *)

LEMMA Step ==
  ASSUME IInv, NEW w \in Workers, NEW r \in Request, Looked(r),
         req' = [req EXCEPT ![w] = r],
         rows' \in [Ids -> Row \cup {None}], torn' \in SUBSET Ids, torn \subseteq torn',
         basis' \in Bases, items' \in SUBSET ItemKinds, cancelled' \in BOOLEAN,
         last' \in Nat, requests' \in 0 .. MaxRequests, orderly' \in BOOLEAN,
         \A i \in Ids \ torn' :
             rows'[i] \in Stored /\ r.want[i] \in Entry /\ r.wrote[i] \in Entry
  PROVE  IInv'
<1>1. TypeOK'
  BY DEF IInv, TypeOK
<1>2. \A v \in Workers : req'[v] = IF v = w THEN r ELSE req[v]
  BY DEF IInv, TypeOK
<1>3. Sound'
  BY <1>2 DEF IInv, Sound
<1>4. \A v \in Workers : Looked(req'[v])
  BY <1>2 DEF IInv
<1>5. (\A v \in Workers : Looked(req[v]))'
  BY <1>4
<1> QED
  BY <1>1, <1>3, <1>5 DEF IInv

\* A request that neither writes nor begins.
LEMMA StepAside ==
  ASSUME IInv, NEW w \in Workers, NEW r \in Request, Looked(r), Advance(w, r),
         rows' = rows, torn' = torn, last' \in Nat,
         \A i \in Ids \ torn : r.want[i] \in Entry /\ r.wrote[i] \in Entry
  PROVE  IInv'
<1>1. req' = [req EXCEPT ![w] = r] /\ UNCHANGED <<basis, items, cancelled, requests, orderly>>
  BY DEF Advance, saleVars
<1>2. \A i \in Ids \ torn' :
         rows'[i] \in Stored /\ r.want[i] \in Entry /\ r.wrote[i] \in Entry
  BY DEF IInv, Sound
<1>3. /\ rows' \in [Ids -> Row \cup {None}] /\ torn' \in SUBSET Ids /\ torn \subseteq torn'
      /\ basis' \in Bases /\ items' \in SUBSET ItemKinds /\ cancelled' \in BOOLEAN
      /\ requests' \in 0 .. MaxRequests /\ orderly' \in BOOLEAN
  BY <1>1 DEF IInv, TypeOK
<1> QED
  BY <1>1, <1>2, <1>3, Step

LEMMA BeginKeeps ==
  ASSUME IInv, NEW w \in Workers, NEW r \in Request, Looked(r), Begin(w, r),
         \A i \in Ids \ torn : r.want[i] \in Entry /\ r.wrote[i] \in Entry
  PROVE  IInv'
<1>1. req' = [req EXCEPT ![w] = r] /\ requests' = requests + 1 /\ requests < MaxRequests
      /\ UNCHANGED <<rows, basis, items, cancelled, last, orderly, torn>>
  BY DEF Begin, saleVars
<1>2. requests' \in 0 .. MaxRequests
  BY <1>1, PrepaymentAssumption DEF IInv, TypeOK
<1>3. \A i \in Ids \ torn' :
         rows'[i] \in Stored /\ r.want[i] \in Entry /\ r.wrote[i] \in Entry
  BY <1>1 DEF IInv, Sound
<1>4. /\ rows' \in [Ids -> Row \cup {None}] /\ torn' \in SUBSET Ids /\ torn \subseteq torn'
      /\ basis' \in Bases /\ items' \in SUBSET ItemKinds /\ cancelled' \in BOOLEAN
      /\ last' \in Nat /\ orderly' \in BOOLEAN
  BY <1>1 DEF IInv, TypeOK
<1> QED
  BY <1>1, <1>2, <1>3, <1>4, Step

\* A request of the prepayments service begins.
LEMMA ReadsKeeps ==
  ASSUME IInv, NEW w \in Workers, NEW i \in Ids, NEW e \in Row,
         i \in torn \/ e \in Entry, Reads(w, i, e)
  PROVE  IInv'
<1> DEFINE r == [Idle EXCEPT !.at = "save", !.want = Only(i, e)]
<1>1. Only(i, e) = [j \in Ids |-> IF j = i THEN e ELSE Same]
  BY DEF Only, Nothing
<1>2. Only(i, e) \in [Ids -> Row \cup {None, Same}]
  BY <1>1
<1>3. r \in Request
  BY <1>2, IdleType DEF Request
<1>4. r.want = Only(i, e) /\ r.wrote = Nothing /\ r.cols = None
  BY DEF Idle
<1> HIDE DEF r
<1>5. Looked(r)
  BY <1>4 DEF Looked
<1>6. \A j \in Ids \ torn : r.want[j] \in Entry /\ r.wrote[j] \in Entry
  BY <1>1, <1>4 DEF Entry, Nothing
<1>7. Begin(w, r)
  BY DEF Reads, r
<1> QED
  BY <1>3, <1>5, <1>6, <1>7, BeginKeeps

LEMMA UpdateSaleKeeps ==
  ASSUME IInv, NEW w \in Workers, NEW new \in SUBSET ItemKinds, NEW b \in Bases,
         NEW cancelling \in BOOLEAN, NEW refund \in BOOLEAN,
         UpdateSale(w, new, b, cancelling, refund)
  PROVE  IInv'
<1> DEFINE c == cancelled \/ new = {"cancelled"} \/ (cancelling /\ new = {})
           s == "cancelled" \in new \/ (new = {} /\ items # {} /\ cancelling)
           r == [Idle EXCEPT !.at = "ask", !.basis = b, !.items = new, !.refund = refund,
                             !.cancelled = c, !.settle = s]
<1>0. c \in BOOLEAN /\ s \in BOOLEAN
  OBVIOUS
<1>1. r \in Request
  <2> HIDE DEF c, s
  <2> QED
    BY <1>0, IdleType DEF Request
<1>2. r.want = Nothing /\ r.wrote = Nothing /\ r.cols = None
  BY DEF Idle
<1>3. Begin(w, r)
  BY DEF UpdateSale
<1> HIDE DEF r
<1>4. Looked(r)
  BY <1>2 DEF Looked
<1>5. \A i \in Ids \ torn : r.want[i] \in Entry /\ r.wrote[i] \in Entry
  BY <1>2 DEF Entry, Nothing
<1> QED
  BY <1>1, <1>3, <1>4, <1>5, BeginKeeps

-----------------------------------------------------------------------------
LEMMA Initial == Init => IInv
<1> SUFFICES ASSUME Init PROVE IInv
  OBVIOUS
<1>1. items \in SUBSET ItemKinds /\ cancelled \in BOOLEAN /\ basis \in Bases
      /\ orderly \in BOOLEAN /\ torn \in SUBSET Ids
  BY DEF Init, ItemKinds
<1>2. PICK amount \in Asked(basis, items) :
        /\ rows = [i \in Ids |-> IF i = 1 /\ amount > 0 THEN Requested(amount) ELSE None]
        /\ last = IF amount > 0 THEN 1 ELSE 0
  BY DEF Init
<1>3. amount \in Amounts \cup {0}
  BY <1>1, AskedType
<1>4. amount > 0 => Requested(amount) \in Stored
  BY <1>3, RequestedGood DEF Stored
<1>5. rows \in [Ids -> Stored]
  <2> DEFINE q == Requested(amount)
  <2>1. rows = [i \in Ids |-> IF i = 1 /\ amount > 0 THEN q ELSE None]
    BY <1>2
  <2>2. amount > 0 => q \in Stored
    BY <1>4
  <2> HIDE DEF q
  <2> QED
    BY <2>1, <2>2 DEF Stored
<1>6. req \in [Workers -> Request]
  BY IdleType DEF Init
<1>7. requests \in 0 .. MaxRequests /\ last \in Nat
  BY <1>2, PrepaymentAssumption DEF Init
<1>8. Stored \subseteq Row \cup {None}
  BY GoodRows DEF Stored
<1>9. rows \in [Ids -> Row \cup {None}]
  BY <1>5, <1>8
<1>10. TypeOK
  BY <1>1, <1>6, <1>7, <1>9 DEF TypeOK
<1>11. \A w \in Workers : req[w] = Idle
  BY DEF Init
<1>12. Sound
  BY <1>5, <1>11, IdleType DEF Sound, Entry
<1> QED
  BY <1>10, <1>11, <1>12, IdleType DEF IInv

\* The look writes nothing, and remembers what differs.
LEMMA LookKeeps ==
  ASSUME IInv, NEW w \in Workers, Look(w)
  PROVE  IInv'
<1> DEFINE seen == Over(rows, req[w].wrote)
           at == req[w].at
           cols == [i \in Ids |-> Differing(at, req[w].want[i], seen[i])]
           r == [req[w] EXCEPT !.cols = cols]
<1>0. req[w] \in Request /\ rows \in [Ids -> Row \cup {None}]
  BY DEF IInv, TypeOK
<1>1. ASSUME NEW i \in Ids
      PROVE  /\ cols[i] \in SUBSET Columns
             /\ cols[i] # {} => req[w].want[i] # Same /\ (req[w].want[i] = None => "id" \in cols[i])
  <2> DEFINE row == req[w].want[i]
             st == seen[i]
  <2>1. row \in Row \cup {None, Same}
    BY <1>0 DEF Request
  <2>2. cols[i] = Differing(at, row, st)
    OBVIOUS
  <2> HIDE DEF cols, row, st, seen, at
  <2>3. CASE row = Same
    BY <2>2, <2>3 DEF Differing, row
  <2>4. CASE row # Same /\ (row = None \/ st = None)
    BY <2>2, <2>4 DEF Differing, Columns, row
  <2>5. CASE row # Same /\ row # None /\ st # None
    <3>1. row \in Row
      BY <2>1, <2>5
    <3>2. cols[i] = Assigned(at, row) \cup {c \in DOMAIN row : row[c] # st[c]}
      BY <2>2, <2>5 DEF Differing
    <3>3. DOMAIN row = {"amount", "actual", "diff", "status"}
      BY <3>1 DEF Row
    <3>4. Assigned(at, row) \subseteq {"amount", "actual", "diff"}
      BY DEF Assigned
    <3> QED
      BY <2>5, <3>2, <3>3, <3>4 DEF Columns, row
  <2> QED
    BY <2>3, <2>4, <2>5
<1>2. cols \in [Ids -> SUBSET Columns]
  <2>1. cols = [i \in Ids |-> cols[i]]
    OBVIOUS
  <2> HIDE DEF cols
  <2> QED
    BY <1>1, <2>1
<1>3. Advance(w, r) /\ UNCHANGED <<rows, last, torn>>
  BY DEF Look
<1> HIDE DEF cols
<1>4. r \in Request
  BY <1>0, <1>2 DEF Request
<1>5. r.want = req[w].want /\ r.wrote = req[w].wrote /\ r.cols = cols /\ r.at \notin {"idle", "ask"}
  BY <1>0 DEF Request, Look
<1> HIDE DEF r
<1>6. Looked(r)
  BY <1>1, <1>5 DEF Looked
<1>7. \A i \in Ids \ torn : r.want[i] \in Entry /\ r.wrote[i] \in Entry
  BY <1>5 DEF IInv, Sound
<1> QED
  BY <1>3, <1>4, <1>6, <1>7, StepAside DEF IInv, TypeOK

LEMMA SaveSound ==
  ASSUME IInv, NEW w \in Workers, Save(w)
  PROVE  IInv'
<1>0. req[w] \in Request /\ Looked(req[w]) /\ req[w].cols # None
      /\ rows \in [Ids -> Row \cup {None}]
  BY DEF IInv, TypeOK, Save, Writable
<1>1. /\ rows' = Left(rows, req[w]) /\ torn' = torn \cup Tears(rows, req[w])
      /\ req' = [req EXCEPT ![w] = Idle]
      /\ UNCHANGED <<basis, items, cancelled, last, requests, orderly>>
  BY DEF Save, Advance, saleVars
<1>2. /\ rows' \in [Ids -> Row \cup {None}] /\ torn' \in SUBSET Ids /\ torn \subseteq torn'
  BY <1>0, <1>1, LeftRows DEF IInv, TypeOK
<1>3. ASSUME NEW i \in Ids \ torn'
      PROVE  rows'[i] \in Stored /\ Idle.want[i] \in Entry /\ Idle.wrote[i] \in Entry
  <2>1. rows[i] \in Stored /\ req[w].want[i] \in Entry
    BY <1>1 DEF IInv, Sound
  <2>2. rows'[i] \in {rows[i], None} \/ (rows'[i] = req[w].want[i] /\ req[w].want[i] # Same)
    BY <1>0, <1>1, LeftRows
  <2> QED
    BY <2>1, <2>2, IdleType DEF Stored, Entry
<1>4. /\ basis' \in Bases /\ items' \in SUBSET ItemKinds /\ cancelled' \in BOOLEAN
      /\ last' \in Nat /\ requests' \in 0 .. MaxRequests /\ orderly' \in BOOLEAN
  BY <1>1 DEF IInv, TypeOK
<1> QED
  BY <1>1, <1>2, <1>3, <1>4, IdleType, Step

LEMMA FindAskedKeeps ==
  ASSUME IInv, NEW w \in Workers, FindAsked(w)
  PROVE  IInv'
<1>1. req[w] \in Request /\ req[w].basis \in Bases
  BY DEF IInv, TypeOK, Request
<1>2. PICK i \in Ids, amount \in Asked(req[w].basis, req[w].items) :
        /\ last' = IF Found(rows) = {} THEN i ELSE last
        /\ Advance(w, [req[w] EXCEPT
               !.at = "write", !.want = Only(i, Amended(rows[i], amount, req[w].basis))])
        /\ UNCHANGED <<rows, torn>>
  BY DEF FindAsked
<1> DEFINE e == Amended(rows[i], amount, req[w].basis)
           r == [req[w] EXCEPT !.at = "write", !.want = Only(i, e)]
<1>3. amount \in Amounts \cup {0}
  BY <1>1, AskedType
<1>4. e \in Row \cup {None, Same} /\ (i \notin torn => e \in Entry)
  BY <1>3, AmendedRow, AmendedGood DEF IInv, TypeOK, Sound
<1>5. Advance(w, r)
  BY <1>2
<1> HIDE DEF e
<1>6. Only(i, e) = [j \in Ids |-> IF j = i THEN e ELSE Same]
  BY DEF Only, Nothing
<1>7. Only(i, e) \in [Ids -> Row \cup {None, Same}]
  BY <1>4, <1>6
<1>8. r \in Request
  BY <1>1, <1>7 DEF Request
<1>a. req[w].cols = None
  BY DEF FindAsked, IInv, Looked
<1>9. r.want = Only(i, e) /\ r.wrote = req[w].wrote /\ r.cols = None
  BY <1>1, <1>a DEF Request
<1> HIDE DEF r
<1>10. Looked(r)
  BY <1>9 DEF Looked
<1>11. \A j \in Ids \ torn : r.want[j] \in Entry /\ r.wrote[j] \in Entry
  BY <1>4, <1>6, <1>9 DEF IInv, Sound, Entry
<1>12. last' \in Nat
  BY <1>2 DEF Ids, IInv, TypeOK
<1> QED
  BY <1>2, <1>5, <1>8, <1>10, <1>11, <1>12, StepAside

LEMMA WriteAskedKeeps ==
  ASSUME IInv, NEW w \in Workers, WriteAsked(w)
  PROVE  IInv'
<1> DEFINE seen == Left(rows, req[w])
           wrote == [i \in Ids |-> IF req[w].cols[i] = {} THEN Same ELSE seen[i]]
           ToSettle == {Only(i, Settled(seen[i], req[w].refund)) : i \in Found(seen)}
<1>0. req[w] \in Request /\ Looked(req[w]) /\ req[w].cols # None
      /\ rows \in [Ids -> Row \cup {None}]
  BY DEF IInv, TypeOK, WriteAsked, Writable
<1>1. PICK want \in ToSettle \cup {Nothing} :
        Advance(w, [req[w] EXCEPT !.at = "commit", !.wrote = wrote, !.want = want,
                                  !.cols = None])
  BY DEF WriteAsked
<1>2. torn' = torn \cup Tears(rows, req[w]) /\ UNCHANGED <<rows, last>>
  BY DEF WriteAsked
<1>3. seen \in [Ids -> Row \cup {None}]
  BY <1>0, LeftRows
<1>4. \A i \in Ids \ torn' : seen[i] \in Stored
  <2>1. SUFFICES ASSUME NEW i \in Ids \ torn' PROVE seen[i] \in Stored
    OBVIOUS
  <2>2. rows[i] \in Stored /\ req[w].want[i] \in Entry
    BY <1>2 DEF IInv, Sound
  <2>3. seen[i] \in {rows[i], None} \/ (seen[i] = req[w].want[i] /\ req[w].want[i] # Same)
    BY <1>0, <1>2, LeftRows
  <2> QED
    BY <2>2, <2>3 DEF Stored, Entry
<1> HIDE DEF seen
<1>5. /\ want \in [Ids -> Row \cup {None, Same}]
      /\ \A i \in Ids \ torn' : want[i] \in Entry
  <2>1. CASE want = Nothing
    BY <2>1 DEF Nothing, Entry
  <2>2. CASE want \in ToSettle
    <3>1. PICK i \in Found(seen) : want = Only(i, Settled(seen[i], req[w].refund))
      BY <2>2
    <3> DEFINE e == Settled(seen[i], req[w].refund)
    <3>2. i \in Ids /\ seen[i] \in Row /\ req[w].refund \in BOOLEAN
      BY <1>0, <1>3 DEF Found, Request
    <3>3. e \in Row \cup {Same}
      BY <3>2, SettledRow
    <3>4. i \notin torn' => e \in Entry
      <4>1. i \notin torn' => seen[i] \in GoodRow
        BY <1>4, <3>2, RowAssumption DEF Stored
      <4> QED
        BY <3>2, <4>1, SettledGood
    <3>5. want = Only(i, e)
      BY <3>1
    <3> HIDE DEF e
    <3>6. want = [j \in Ids |-> IF j = i THEN e ELSE Same]
      BY <3>5 DEF Only, Nothing
    <3> QED
      BY <3>3, <3>4, <3>6 DEF Entry
  <2> QED
    BY <1>1, <2>1, <2>2
<1>6. wrote \in [Ids -> Row \cup {None, Same}]
  BY <1>3
<1>7. \A i \in Ids \ torn' : wrote[i] \in Entry
  BY <1>4 DEF Stored, Entry
<1> HIDE DEF wrote
<1> DEFINE r == [req[w] EXCEPT !.at = "commit", !.wrote = wrote, !.want = want, !.cols = None]
<1>8. r \in Request
  BY <1>0, <1>5, <1>6 DEF Request
<1>9. r.want = want /\ r.wrote = wrote /\ r.cols = None
  BY <1>0 DEF Request
<1>10. req' = [req EXCEPT ![w] = r] /\ UNCHANGED <<basis, items, cancelled, requests, orderly>>
  BY <1>1 DEF Advance, saleVars
<1> HIDE DEF r
<1>11. Looked(r)
  BY <1>9 DEF Looked
<1>12. \A i \in Ids \ torn' :
         rows'[i] \in Stored /\ r.want[i] \in Entry /\ r.wrote[i] \in Entry
  BY <1>2, <1>5, <1>7, <1>9 DEF IInv, Sound
<1>13. /\ rows' \in [Ids -> Row \cup {None}] /\ torn' \in SUBSET Ids /\ torn \subseteq torn'
  BY <1>0, <1>2, LeftRows DEF IInv, TypeOK
<1>14. /\ basis' \in Bases /\ items' \in SUBSET ItemKinds /\ cancelled' \in BOOLEAN
       /\ last' \in Nat /\ requests' \in 0 .. MaxRequests /\ orderly' \in BOOLEAN
  BY <1>2, <1>10 DEF IInv, TypeOK
<1> QED
  BY <1>8, <1>10, <1>11, <1>12, <1>13, <1>14, Step

LEMMA CommitSound ==
  ASSUME IInv, NEW w \in Workers, CommitSale(w)
  PROVE  IInv'
<1> DEFINE seen == Over(rows, req[w].wrote)
<1>0. req[w] \in Request /\ Looked(req[w]) /\ req[w].cols # None
      /\ rows \in [Ids -> Row \cup {None}] /\ req[w].wrote \in [Ids -> Row \cup {None, Same}]
  BY DEF IInv, TypeOK, CommitSale, Writable, Request
<1>1. /\ rows' = Left(seen, req[w]) /\ torn' = torn \cup Tears(seen, req[w])
      /\ req' = [req EXCEPT ![w] = Idle]
      /\ basis' = req[w].basis /\ items' = req[w].items /\ cancelled' = req[w].cancelled
      /\ UNCHANGED <<last, requests, orderly>>
  BY DEF CommitSale
<1>2. \A i \in Ids : seen[i] = IF req[w].wrote[i] = Same THEN rows[i] ELSE req[w].wrote[i]
  BY DEF Over
<1>3. seen \in [Ids -> Row \cup {None}]
  BY <1>0 DEF Over
<1>4. \A i \in Ids \ torn : seen[i] \in Stored
  BY <1>2 DEF IInv, Sound, Stored, Entry
<1> HIDE DEF seen
<1>5. /\ rows' \in [Ids -> Row \cup {None}] /\ torn' \in SUBSET Ids /\ torn \subseteq torn'
  BY <1>0, <1>1, <1>3, LeftRows DEF IInv, TypeOK
<1>6. ASSUME NEW i \in Ids \ torn'
      PROVE  rows'[i] \in Stored /\ Idle.want[i] \in Entry /\ Idle.wrote[i] \in Entry
  <2>1. seen[i] \in Stored /\ req[w].want[i] \in Entry
    BY <1>1, <1>4 DEF IInv, Sound
  <2>2. rows'[i] \in {seen[i], None} \/ (rows'[i] = req[w].want[i] /\ req[w].want[i] # Same)
    BY <1>0, <1>1, <1>3, LeftRows
  <2> QED
    BY <2>1, <2>2, IdleType DEF Stored, Entry
<1>7. /\ basis' \in Bases /\ items' \in SUBSET ItemKinds /\ cancelled' \in BOOLEAN
  BY <1>0, <1>1 DEF Request
<1>8. last' \in Nat /\ requests' \in 0 .. MaxRequests /\ orderly' \in BOOLEAN
  BY <1>1 DEF IInv, TypeOK
<1> QED
  BY <1>1, <1>5, <1>6, <1>7, <1>8, IdleType, Step

LEMMA Inductive == IInv /\ [Next]_vars => IInv'
<1> SUFFICES ASSUME IInv, [Next]_vars PROVE IInv'
  OBVIOUS
<1>a. CASE UNCHANGED vars
  BY <1>a DEF vars, saleVars, IInv, TypeOK, Sound
<1>b. ASSUME NEW w \in Workers, NEW i \in Ids, NEW actual \in Amounts,
             Confirm(w, i, actual) \/ Update(w, i, actual)
      PROVE  IInv'
  <2>1. rows[i] \in Row
    BY <1>b DEF IInv, TypeOK, Confirm, Update
  <2>2. Paid(rows[i], actual, "CONFIRMED") \in GoodRow
    BY <2>1, PaidGood
  <2>3. Reads(w, i, Paid(rows[i], actual, "CONFIRMED"))
    BY <1>b DEF Confirm, Update
  <2> QED
    BY <2>2, <2>3, GoodRows, ReadsKeeps DEF Entry
<1>c. ASSUME NEW w \in Workers, NEW i \in Ids, Cancel(w, i)
      PROVE  IInv'
  <2> DEFINE e == [rows[i] EXCEPT !.status = "CANCELLED"]
  <2>1. rows[i] \in Row /\ (i \notin torn => rows[i] \in GoodRow)
    BY <1>c DEF IInv, TypeOK, Sound, Stored, Cancel
  <2>2. e \in Row
    BY <2>1 DEF Row, Statuses
  <2>3. i \in torn \/ e \in Entry
    BY <2>1, RestatusGood DEF Entry
  <2>4. Reads(w, i, e)
    BY <1>c DEF Cancel
  <2> HIDE DEF e
  <2> QED
    BY <2>2, <2>3, <2>4, ReadsKeeps
<1>d. ASSUME NEW w \in Workers, Fail(w)
      PROVE  IInv'
  <2>1. \A i \in Ids \ torn : Idle.want[i] \in Entry /\ Idle.wrote[i] \in Entry
    BY IdleType DEF Entry
  <2> QED
    BY <1>d, <2>1, IdleType, StepAside DEF Fail, IInv, TypeOK
<1>e. ASSUME NEW w \in Workers, NEW new \in SUBSET ItemKinds, NEW b \in Bases, EditSale(w, new, b)
      PROVE  IInv'
  BY <1>e, UpdateSaleKeeps DEF EditSale
<1>f. ASSUME NEW w \in Workers, NEW refund \in BOOLEAN, CancelSale(w, refund)
      PROVE  IInv'
  <2> DEFINE new == IF "live" \in items THEN {"cancelled"} ELSE {}
  <2>1. new \in SUBSET ItemKinds /\ basis \in Bases
    BY DEF ItemKinds, IInv, TypeOK
  <2>2. UpdateSale(w, new, basis, TRUE, refund)
    BY <1>f DEF CancelSale
  <2> HIDE DEF new
  <2> QED
    BY <2>1, <2>2, UpdateSaleKeeps
<1> QED
  BY <1>a, <1>b, <1>c, <1>d, <1>e, <1>f, LookKeeps, SaveSound, FindAskedKeeps,
     WriteAskedKeeps, CommitSound DEF Next

-----------------------------------------------------------------------------
\* Every reachable state satisfies the invariant.
THEOREM Invariance == Spec => []IInv
  BY Initial, Inductive, PTL DEF Spec

\* Rows and requests are well typed, whatever number of requests overlap.
THEOREM TypeCorrect == Spec => []TypeOK
<1>1. IInv => TypeOK
  BY DEF IInv
<1> QED
  BY <1>1, Invariance, PTL

\* However requests overlap, and whatever an old row overwrites, the amounts of
\* a prepayment agree with its status, unless two of them wrote some columns each.
THEOREM AmountsAgree == Spec => []DifferenceAgrees
<1>1. IInv => DifferenceAgrees
  BY DEF IInv, Sound, Stored, GoodRow, Agrees, DifferenceAgrees, Present
<1> QED
  BY <1>1, Invariance, PTL

-----------------------------------------------------------------------------
(* One request at a time.  The rows as the request will leave them, seen   *)
(* from every point of it: one row at most, no receipt forgotten, and, once *)
(* the request has looked for a row to settle, none left unsettled.        *)

OneRow(rs) == \A i, j \in Found(rs) : i = j

Kept(from, to) ==
    \A i \in Found(from) : from[i].actual # None => to[i] # None /\ to[i].actual # None

Unsettled == {"REQUESTED", "CONFIRMED"}
NothingOpen(rs) == \A i \in Found(rs) : rs[i].status \notin Unsettled

\* What a save does to the row it read.
SavesWhatItRead(rs, r) ==
    \E i \in Found(rs) :
        /\ r.want = Only(i, r.want[i]) /\ r.want[i] \in GoodRow
        /\ rs[i].actual # None => r.want[i].actual # None
        /\ r.want[i].status \in Unsettled => rs[i].status \in Unsettled

OnItsOwn(rs, r) ==
    /\ r.at \in {"save", "ask", "write"} => r.wrote = Nothing
    /\ r.cols # None =>
          r.cols = [i \in Ids |-> Differing(r.at, r.want[i], Over(rs, r.wrote)[i])]
    /\ r.at = "save" => SavesWhatItRead(rs, r)
    /\ r.at \in {"ask", "write", "commit"} => ("cancelled" \in r.items => r.settle)
    /\ r.at = "write" => LET seen == Over(rs, r.want) IN OneRow(seen) /\ Kept(rs, seen)
    /\ r.at = "commit" =>
          LET after == Over(rs, Over(r.wrote, r.want))
          IN  OneRow(after) /\ Kept(rs, after) /\ (r.settle => NothingOpen(after))

OrderlyInv ==
    orderly =>
        /\ torn = {} /\ OneRow(rows)
        /\ cancelled /\ "cancelled" \in items => NothingOpen(rows)
        /\ \A v, w \in Workers : req[v].at # "idle" /\ req[w].at # "idle" => v = w
        /\ \A w \in Workers : OnItsOwn(rows, req[w])

\* Nothing is torn: what was proved of the rows that are not holds of all.
GoodRequest == {r \in Request : r.want \in [Ids -> Entry] /\ r.wrote \in [Ids -> Entry]}

LEMMA NothingTorn ==
  ASSUME IInv, torn = {}
  PROVE  rows \in [Ids -> Stored] /\ req \in [Workers -> GoodRequest]
<1>1. rows \in [Ids -> Stored]
  BY DEF IInv, TypeOK, Sound
<1>2. ASSUME NEW w \in Workers PROVE req[w] \in GoodRequest
  <2>1. /\ req[w] \in Request
        /\ req[w].want \in [Ids -> Row \cup {None, Same}]
        /\ req[w].wrote \in [Ids -> Row \cup {None, Same}]
    BY DEF IInv, TypeOK, Request
  <2>2. \A i \in Ids : req[w].want[i] \in Entry /\ req[w].wrote[i] \in Entry
    BY DEF IInv, Sound
  <2>3. req[w].want \in [Ids -> Entry] /\ req[w].wrote \in [Ids -> Entry]
    BY <2>1, <2>2
  <2> QED
    BY <2>1, <2>3 DEF GoodRequest
<1>3. req \in [Workers -> Request]
  BY DEF IInv, TypeOK
<1> QED
  BY <1>1, <1>2, <1>3

LEMMA OverOnly ==
  ASSUME NEW f \in [Ids -> Stored], NEW i \in Ids, NEW e \in Entry
  PROVE  Over(f, Only(i, e)) = [j \in Ids |-> IF j = i /\ e # Same THEN e ELSE f[j]]
  BY DEF Over, Only, Nothing

LEMMA OverNothing ==
  ASSUME NEW f \in [Ids -> Stored]
  PROVE  Over(f, Nothing) = f
  BY DEF Over, Nothing

\* Two writes over the rows are one after the other.
LEMMA OverTwice ==
  ASSUME NEW f \in [Ids -> Stored], NEW g \in [Ids -> Entry], NEW h \in [Ids -> Entry]
  PROVE  Over(f, Over(g, h)) = Over(Over(f, g), h)
  BY GoodRows DEF Over, Stored, Entry

\* A save of what was looked at, and has not changed since, leaves the row held.
LEMMA LeftWhole ==
  ASSUME NEW rs \in [Ids -> Stored], NEW r, r.want \in [Ids -> Entry],
         r.cols = [i \in Ids |-> Differing(r.at, r.want[i], rs[i])]
  PROVE  Left(rs, r) = Over(rs, r.want) /\ Tears(rs, r) = {}
<1>1. ASSUME NEW i \in Ids
      PROVE  /\ Left(rs, r)[i] = Over(rs, r.want)[i]
             /\ r.cols[i] # {} => Left(rs, r)[i] = r.want[i]
  <2> DEFINE e == r.want[i]
             st == rs[i]
             cs == Differing(r.at, e, st)
  <2>1. e \in Entry /\ st \in Stored /\ r.cols[i] = cs
    OBVIOUS
  <2>2. Left(rs, r)[i] = IF cs = {} THEN st ELSE Merged(e, st, cs)
    BY DEF Left
  <2>3. Over(rs, r.want)[i] = IF e = Same THEN st ELSE e
    BY DEF Over
  <2> HIDE DEF e, st
  <2>4. CASE e = Same
    BY <2>1, <2>2, <2>3, <2>4 DEF Differing
  <2>5. CASE e # Same /\ (e = None \/ st = None)
    <3>1. cs = Columns
      BY <2>5 DEF Differing
    <3>2. Merged(e, st, Columns) = e
      BY DEF Merged, Columns
    <3> QED
      BY <2>1, <2>2, <2>3, <2>5, <3>1, <3>2 DEF Columns, e
  <2>6. CASE e # Same /\ e # None /\ st # None
    <3>1. e \in Row /\ st \in Row
      BY <2>1, <2>6, GoodRows DEF Stored, Entry
    <3>2. DOMAIN e = {"amount", "actual", "diff", "status"}
          /\ DOMAIN st = {"amount", "actual", "diff", "status"}
      BY <3>1 DEF Row
    <3>3. cs = Assigned(r.at, e) \cup {c \in DOMAIN e : e[c] # st[c]}
      BY <2>6 DEF Differing
    <3>a. Assigned(r.at, e) \subseteq {"amount", "actual", "diff"}
      BY DEF Assigned
    <3>4. "id" \notin cs
      BY <3>2, <3>3, <3>a
    <3>5. Merged(e, st, cs) = [c \in DOMAIN st |-> IF c \in cs THEN e[c] ELSE st[c]]
      BY <2>6, <3>4 DEF Merged
    <3>6. [c \in DOMAIN st |-> IF c \in cs THEN e[c] ELSE st[c]] = [c \in DOMAIN e |-> e[c]]
      BY <3>2, <3>3, <3>a
    <3>7. e = [c \in DOMAIN e |-> e[c]] /\ st = [c \in DOMAIN st |-> st[c]]
      BY <3>1 DEF Row
    <3>8. Merged(e, st, cs) = e
      BY <3>5, <3>6, <3>7
    <3>9. cs = {} => e = st
      BY <3>2, <3>3, <3>7
    <3> HIDE DEF cs
    <3> QED
      BY <2>1, <2>2, <2>3, <2>6, <3>8, <3>9 DEF e
  <2> QED
    BY <2>4, <2>5, <2>6
<1>2. Left(rs, r) = Over(rs, r.want)
  <2>1. Left(rs, r) = [i \in Ids |-> Left(rs, r)[i]]
        /\ Over(rs, r.want) = [i \in Ids |-> Over(rs, r.want)[i]]
    BY DEF Left, Over
  <2> QED
    BY <1>1, <2>1
<1>3. Tears(rs, r) = {}
  BY <1>1 DEF Tears
<1> QED
  BY <1>2, <1>3

\* Step 6 changes no receipt, and removes only a row that has none.
LEMMA AmendedKeeps ==
  ASSUME NEW r \in GoodRow, NEW amount \in Amounts \cup {0}, NEW b
  PROVE  /\ Amended(r, amount, b) = None => r.actual = None
         /\ Amended(r, amount, b) \in GoodRow => Amended(r, amount, b).actual = r.actual
<1> DEFINE B == amount > 0 /\ r.status \in {"REQUESTED", "AVAILABLE"}
           C == amount = 0 /\ b = None /\ r.status = "REQUESTED"
<1>0. r \in Row /\ r # None /\ Agrees(r) /\ amount \in Nat
  BY GoodRows, PrepaymentAssumption DEF GoodRow
<1>1. CASE B
  <2>1. Amended(r, amount, b) = [r EXCEPT !.amount = amount]
    BY <1>0, <1>1 DEF Amended
  <2>2. [r EXCEPT !.amount = amount] \in GoodRow
    BY <1>0, <1>1, ReaskedGood
  <2>3. [r EXCEPT !.amount = amount].actual = r.actual
    BY <1>0 DEF Row
  <2> QED
    BY <2>1, <2>2, <2>3, GoodRows
<1>2. CASE C
  <2>1. Amended(r, amount, b) = None
    BY <1>0, <1>2 DEF Amended
  <2> QED
    BY <2>1, <1>0, <1>2, GoodRows DEF Agrees
<1>3. CASE ~B /\ ~C
  <2>1. Amended(r, amount, b) = Same
    BY <1>0, <1>3 DEF Amended
  <2> QED
    BY <2>1, GoodRows, RowAssumption, PrepaymentAssumption
<1> QED
  BY <1>1, <1>2, <1>3

\* Step 7 leaves the row it found settled, its receipt as it was.
LEMMA SettledSettles ==
  ASSUME NEW r \in GoodRow, NEW refund \in BOOLEAN
  PROVE  \/ Settled(r, refund) = Same /\ r.status \notin Unsettled
         \/ /\ Settled(r, refund) \in GoodRow
            /\ Settled(r, refund).actual = r.actual
            /\ Settled(r, refund).status \notin Unsettled
<1> DEFINE A == r.status = "REQUESTED"
           B == r.status \in {"CONFIRMED", "AVAILABLE"} /\ refund
           C == r.status = "CONFIRMED" /\ ~refund
<1>0. r \in Row
  BY DEF GoodRow
<1>1. CASE A
  <2>1. Settled(r, refund) = [r EXCEPT !.status = "CANCELLED"]
    BY <1>1 DEF Settled
  <2> QED
    BY <2>1, <1>0, RestatusGood DEF Row, Unsettled
<1>2. CASE B
  <2>1. Settled(r, refund) = [r EXCEPT !.status = "REFUNDED"]
    BY <1>2 DEF Settled
  <2> QED
    BY <2>1, <1>0, <1>2, RestatusGood DEF Row, Unsettled
<1>3. CASE C
  <2>1. Settled(r, refund) = [r EXCEPT !.status = "AVAILABLE"]
    BY <1>3 DEF Settled
  <2> QED
    BY <2>1, <1>0, <1>3, RestatusGood DEF Row, Unsettled
<1>4. CASE ~A /\ ~B /\ ~C
  <2>1. Settled(r, refund) = Same
    BY <1>4 DEF Settled
  <2> QED
    BY <2>1, <1>4 DEF Unsettled
<1> QED
  BY <1>1, <1>2, <1>3, <1>4

LEMMA OrderlyInitial == Init => OrderlyInv
<1> SUFFICES ASSUME Init, orderly PROVE OrderlyInv
  BY DEF OrderlyInv
<1>1. PICK amount \in Asked(basis, items) :
        rows = [i \in Ids |-> IF i = 1 /\ amount > 0 THEN Requested(amount) ELSE None]
  BY DEF Init
<1>2. OneRow(rows)
  BY <1>1 DEF OneRow, Found
<1>3. \A w \in Workers : req[w] = Idle
  BY DEF Init
<1>4. OnItsOwn(rows, Idle)
  BY DEF OnItsOwn, Idle
<1>5. torn = {} /\ ~cancelled
  BY DEF Init
<1>6. Idle.at = "idle"
  BY DEF Idle
<1> QED
  BY <1>2, <1>3, <1>4, <1>5, <1>6 DEF OrderlyInv

\* A request begins: the rows stay as they are, and it is the only one.
LEMMA BeginOrderly ==
  ASSUME IInv, OrderlyInv, NEW w \in Workers, NEW r, Begin(w, r), orderly => OnItsOwn(rows, r)
  PROVE  OrderlyInv'
<1> SUFFICES ASSUME orderly PROVE OrderlyInv'
  BY DEF Begin, OrderlyInv
<1>1. req' = [req EXCEPT ![w] = r] /\ UNCHANGED <<rows, basis, items, cancelled, orderly, torn>>
  BY DEF Begin, saleVars
<1>2. \A v \in Workers : req[v].at = "idle"
  BY DEF Begin
<1>3. \A v \in Workers : OnItsOwn(rows, req'[v])
  BY <1>1 DEF IInv, TypeOK, OrderlyInv
<1>4. \A v \in Workers : OnItsOwn(rows', req'[v])
  BY <1>1, <1>3
<1> QED
  BY <1>1, <1>2, <1>4 DEF OrderlyInv, IInv, TypeOK

\* A request of the prepayments service begins.
LEMMA ReadsOrderly ==
  ASSUME IInv, OrderlyInv, NEW w \in Workers, NEW i \in Found(rows), NEW row \in GoodRow,
         Reads(w, i, row), rows[i].actual # None => row.actual # None,
         row.status \in Unsettled => rows[i].status \in Unsettled
  PROVE  OrderlyInv'
<1> DEFINE r == [Idle EXCEPT !.at = "save", !.want = Only(i, row)]
<1>1. i \in Ids
  BY DEF Found
<1>2. r.at = "save" /\ r.want = Only(i, row) /\ r.wrote = Nothing /\ r.cols = None
  BY DEF Idle
<1>3. Only(i, row)[i] = row
  BY <1>1 DEF Only, Nothing
<1> HIDE DEF r
<1>4. OnItsOwn(rows, r)
  BY <1>2, <1>3 DEF OnItsOwn, SavesWhatItRead
<1>5. Begin(w, r)
  BY DEF Reads, r
<1> QED
  BY <1>4, <1>5, BeginOrderly

LEMMA UpdateSaleOrderly ==
  ASSUME IInv, OrderlyInv, NEW w \in Workers, NEW new, NEW b, NEW cancelling, NEW refund,
         UpdateSale(w, new, b, cancelling, refund)
  PROVE  OrderlyInv'
<1> DEFINE c == cancelled \/ new = {"cancelled"} \/ (cancelling /\ new = {})
           s == "cancelled" \in new \/ (new = {} /\ items # {} /\ cancelling)
           r == [Idle EXCEPT !.at = "ask", !.basis = b, !.items = new, !.refund = refund,
                             !.cancelled = c, !.settle = s]
<1>1. r.at = "ask" /\ r.items = new /\ r.settle = s /\ r.wrote = Nothing /\ r.cols = None
  BY DEF Idle
<1>2. Begin(w, r)
  BY DEF UpdateSale
<1> HIDE DEF r
<1>3. OnItsOwn(rows, r)
  BY <1>1 DEF OnItsOwn
<1> QED
  BY <1>2, <1>3, BeginOrderly

\* The request that is under way takes a step, or ends: no other is.
LEMMA StepOrderly ==
  ASSUME IInv, OrderlyInv, NEW w \in Workers, req[w].at # "idle", NEW r,
         req' = [req EXCEPT ![w] = r], orderly' = orderly,
         orderly => torn' = {} /\ OnItsOwn(rows', r) /\ OneRow(rows')
                    /\ (cancelled /\ "cancelled" \in items => NothingOpen(rows))'
  PROVE  OrderlyInv'
<1> SUFFICES ASSUME orderly PROVE OrderlyInv'
  BY DEF OrderlyInv
<1>1. \A v \in Workers \ {w} : req'[v] = req[v] /\ req[v].at = "idle"
  BY DEF OrderlyInv, IInv, TypeOK
<1>2. \A v \in Workers \ {w} : OnItsOwn(rows', req'[v])
  <2>1. \A v \in Workers \ {w} : req[v].cols = None
    BY <1>1 DEF IInv, Looked
  <2> QED
    BY <1>1, <2>1 DEF OnItsOwn
<1>3. req'[w] = r
  BY DEF IInv, TypeOK
<1>4. OnItsOwn(rows', req'[w])
  BY <1>3
<1> QED
  BY <1>1, <1>2, <1>3, <1>4 DEF OrderlyInv

\* A save or a commit writes rows that forget no receipt.
LEMMA SaveKeeps ==
  ASSUME IInv, OrderlyInv, orderly, NEW w \in Workers, Save(w)
  PROVE  /\ Kept(rows, rows') /\ OneRow(rows')
         /\ NothingOpen(rows) => NothingOpen(rows')
         /\ torn' = {}
<1>1. SavesWhatItRead(rows, req[w])
  BY DEF Save, OrderlyInv, OnItsOwn
<1>a. torn = {} /\ rows \in [Ids -> Stored] /\ req[w] \in GoodRequest
  BY NothingTorn DEF OrderlyInv
<1>b. /\ req[w].wrote = Nothing
      /\ req[w].cols = [i \in Ids |-> Differing(req[w].at, req[w].want[i],
                                                Over(rows, req[w].wrote)[i])]
  BY DEF Save, Writable, OrderlyInv, OnItsOwn
<1>c. Left(rows, req[w]) = Over(rows, req[w].want) /\ Tears(rows, req[w]) = {}
  BY <1>a, <1>b, OverNothing, LeftWhole DEF GoodRequest
<1>d. rows' = Over(rows, req[w].want) /\ torn' = {}
  BY <1>a, <1>c DEF Save
<1>2. PICK i \in Found(rows) :
        /\ req[w].want = Only(i, req[w].want[i]) /\ req[w].want[i] \in GoodRow
        /\ rows[i].actual # None => req[w].want[i].actual # None
        /\ req[w].want[i].status \in Unsettled => rows[i].status \in Unsettled
  BY <1>1 DEF SavesWhatItRead
<1> DEFINE e == req[w].want[i]
<1>3. rows' = Over(rows, Only(i, e))
  BY <1>2, <1>d
<1>4. e \in Entry /\ e # Same /\ e # None /\ i \in Ids /\ rows \in [Ids -> Stored]
  BY <1>2, <1>a, GoodRows DEF Entry, Found
<1> HIDE DEF e
<1>5. rows' = [j \in Ids |-> IF j = i THEN e ELSE rows[j]]
  BY <1>3, <1>4, OverOnly
<1>6. OneRow(rows)
  BY DEF OrderlyInv
<1>7. rows[i].actual # None => e.actual # None
  BY <1>2 DEF e
<1>8. e.status \in Unsettled => rows[i].status \in Unsettled
  BY <1>2 DEF e
<1>9. Found(rows') = Found(rows)
  BY <1>2, <1>4, <1>5 DEF Found
<1> QED
  BY <1>2, <1>4, <1>5, <1>6, <1>7, <1>8, <1>9, <1>d DEF Kept, OneRow, NothingOpen, Found

LEMMA CommitKeeps ==
  ASSUME IInv, OrderlyInv, orderly, NEW w \in Workers, CommitSale(w)
  PROVE  /\ Kept(rows, rows') /\ OneRow(rows')
         /\ req[w].settle => NothingOpen(rows')
         /\ torn' = {}
<1> DEFINE seen == Over(rows, req[w].wrote)
<1>1. torn = {} /\ rows \in [Ids -> Stored] /\ req[w] \in GoodRequest
  BY NothingTorn DEF OrderlyInv
<1>2. req[w].want \in [Ids -> Entry] /\ req[w].wrote \in [Ids -> Entry]
  BY <1>1 DEF GoodRequest
<1>3. req[w].cols = [i \in Ids |-> Differing(req[w].at, req[w].want[i], seen[i])]
  BY DEF CommitSale, Writable, OrderlyInv, OnItsOwn
<1>4. rows' = Left(seen, req[w]) /\ torn' = torn \cup Tears(seen, req[w])
  BY DEF CommitSale
<1>5. seen \in [Ids -> Stored]
  BY <1>1, <1>2, OverStored
<1>6. Over(seen, req[w].want) = Over(rows, Over(req[w].wrote, req[w].want))
  BY <1>1, <1>2, OverTwice
<1> HIDE DEF seen
<1>7. rows' = Over(seen, req[w].want) /\ torn' = {}
  BY <1>1, <1>2, <1>3, <1>4, <1>5, LeftWhole
<1>8. req[w].at = "commit"
  BY DEF CommitSale
<1> QED
  BY <1>6, <1>7, <1>8 DEF OrderlyInv, OnItsOwn

\* The look itself changes nothing of what the request will leave behind.
LEMMA LookOrderly ==
  ASSUME IInv, OrderlyInv, NEW w \in Workers, Look(w)
  PROVE  OrderlyInv'
<1> DEFINE cols == [i \in Ids |-> Differing(req[w].at, req[w].want[i],
                                           Over(rows, req[w].wrote)[i])]
           r == [req[w] EXCEPT !.cols = cols]
<1>1. req[w] \in Request /\ req[w].at # "idle"
  BY DEF IInv, TypeOK, Look
<1>2. req' = [req EXCEPT ![w] = r]
      /\ UNCHANGED <<rows, basis, items, cancelled, orderly, torn>>
  BY DEF Look, Advance, saleVars
<1> HIDE DEF cols
<1>3. /\ r.at = req[w].at /\ r.want = req[w].want /\ r.wrote = req[w].wrote
      /\ r.items = req[w].items /\ r.settle = req[w].settle /\ r.cols = cols
  BY <1>1 DEF Request
<1> HIDE DEF r
<1>4. orderly => OnItsOwn(rows, r)
  <2>1. SUFFICES ASSUME orderly PROVE OnItsOwn(rows, r)
    OBVIOUS
  <2>2. OnItsOwn(rows, req[w])
    BY <2>1 DEF OrderlyInv
  <2>3. req[w].at = "save" => SavesWhatItRead(rows, r)
    BY <1>3, <2>2 DEF OnItsOwn, SavesWhatItRead
  <2> QED
    BY <1>3, <2>2, <2>3 DEF OnItsOwn, cols
<1>5. orderly => torn' = {} /\ OnItsOwn(rows', r) /\ OneRow(rows')
                 /\ (cancelled /\ "cancelled" \in items => NothingOpen(rows))'
  BY <1>2, <1>4 DEF OrderlyInv
<1> QED
  BY <1>1, <1>2, <1>5, StepOrderly

\* Step 6 as the request will leave it.
LEMMA FindAskedOrderly ==
  ASSUME IInv, OrderlyInv, NEW w \in Workers, FindAsked(w)
  PROVE  OrderlyInv'
<1>a. CASE ~orderly
  BY <1>a DEF FindAsked, Advance, OrderlyInv
<1> SUFFICES ASSUME orderly PROVE OrderlyInv'
  BY <1>a
<1>0. /\ req[w] \in Request /\ req[w] \in GoodRequest /\ req[w].at = "ask"
      /\ rows \in [Ids -> Stored] /\ torn = {} /\ req[w].cols = None
  BY NothingTorn DEF OrderlyInv, IInv, TypeOK, FindAsked, Looked
<1>1. PICK i \in Ids, amount \in Asked(req[w].basis, req[w].items) :
        /\ IF Found(rows) = {} THEN i = last + 1 ELSE i \in Found(rows)
        /\ Advance(w, [req[w] EXCEPT
               !.at = "write", !.want = Only(i, Amended(rows[i], amount, req[w].basis))])
        /\ UNCHANGED <<rows, torn>>
  BY DEF FindAsked
<1> DEFINE e == Amended(rows[i], amount, req[w].basis)
           r == [req[w] EXCEPT !.at = "write", !.want = Only(i, e)]
<1>2. amount \in Amounts \cup {0}
  BY <1>0, AskedType DEF Request
<1>3. e \in Entry
  BY <1>0, <1>2, AmendedGood
<1>4. /\ r.at = "write" /\ r.want = Only(i, e) /\ r.wrote = req[w].wrote
      /\ r.items = req[w].items /\ r.settle = req[w].settle /\ r.cols = None
  BY <1>0 DEF Request
<1>5. /\ req' = [req EXCEPT ![w] = r]
      /\ UNCHANGED <<rows, basis, items, cancelled, orderly, torn>>
  BY <1>1 DEF Advance, saleVars
<1>6. rows[i] \in GoodRow => /\ e = None => rows[i].actual = None
                             /\ e \in GoodRow => e.actual = rows[i].actual
  BY <1>2, AmendedKeeps
<1> HIDE DEF e, r
<1>7. Over(rows, Only(i, e)) = [j \in Ids |-> IF j = i /\ e # Same THEN e ELSE rows[j]]
  BY <1>0, <1>3, OverOnly
<1>8. ASSUME orderly PROVE OnItsOwn(rows, r) /\ OneRow(rows)
                           /\ (cancelled /\ "cancelled" \in items => NothingOpen(rows))
  <2>1. OneRow(rows) /\ OnItsOwn(rows, req[w])
        /\ (cancelled /\ "cancelled" \in items => NothingOpen(rows))
    BY <1>8 DEF OrderlyInv
  <2>2. Found(rows) \subseteq {i}
    BY <1>1, <2>1 DEF OneRow
  <2>3. Found(Over(rows, Only(i, e))) \subseteq {i}
    BY <1>7, <2>2 DEF Found
  <2>4. OneRow(Over(rows, Only(i, e)))
    BY <2>3 DEF OneRow
  <2>5. Kept(rows, Over(rows, Only(i, e)))
    <3> DEFINE to == Over(rows, Only(i, e))
    <3>1. ASSUME i \in Found(rows), rows[i].actual # None
          PROVE  to[i] # None /\ to[i].actual # None
      <4>1. rows[i] \in GoodRow
        BY <1>0, <3>1 DEF Found, Stored
      <4>2. e = Same \/ (e \in GoodRow /\ e.actual = rows[i].actual)
        BY <1>3, <1>6, <3>1, <4>1 DEF Entry
      <4>3. to[i] = IF e # Same THEN e ELSE rows[i]
        BY <1>7
      <4> HIDE DEF to
      <4> QED
        BY <3>1, <4>1, <4>2, <4>3, GoodRows
    <3> HIDE DEF to
    <3>2. Kept(rows, to)
      BY <2>2, <3>1 DEF Kept
    <3> QED
      BY <3>2 DEF to
  <2> QED
    BY <1>0, <1>4, <2>1, <2>4, <2>5 DEF OnItsOwn
<1>9. orderly => torn' = {} /\ OnItsOwn(rows', r) /\ OneRow(rows')
                 /\ (cancelled /\ "cancelled" \in items => NothingOpen(rows))'
  BY <1>0, <1>5, <1>8
<1> QED
  BY <1>0, <1>5, <1>9, StepOrderly

\* Step 7 as the request will leave it.
LEMMA WriteAskedOrderly ==
  ASSUME IInv, OrderlyInv, NEW w \in Workers, WriteAsked(w)
  PROVE  OrderlyInv'
<1>a. CASE ~orderly
  BY <1>a DEF WriteAsked, Advance, OrderlyInv
<1> SUFFICES ASSUME orderly PROVE OrderlyInv'
  BY <1>a
<1> DEFINE seen == Left(rows, req[w])
           wrote == [i \in Ids |-> IF req[w].cols[i] = {} THEN Same ELSE seen[i]]
           ToSettle == {Only(i, Settled(seen[i], req[w].refund)) : i \in Found(seen)}
<1>0. /\ req[w] \in Request /\ req[w] \in GoodRequest /\ req[w].at = "write"
      /\ rows \in [Ids -> Stored] /\ torn = {} /\ req[w].want \in [Ids -> Entry]
  BY NothingTorn DEF OrderlyInv, IInv, TypeOK, WriteAsked, GoodRequest
<1>b. /\ req[w].wrote = Nothing
      /\ req[w].cols = [i \in Ids |-> Differing(req[w].at, req[w].want[i],
                                                Over(rows, req[w].wrote)[i])]
  BY DEF WriteAsked, Writable, OrderlyInv, OnItsOwn
<1>c. seen = Over(rows, req[w].want) /\ Tears(rows, req[w]) = {}
  BY <1>0, <1>b, OverNothing, LeftWhole
<1>1. PICK want \in IF req[w].settle /\ ToSettle # {} THEN ToSettle ELSE {Nothing} :
        Advance(w, [req[w] EXCEPT !.at = "commit", !.wrote = wrote, !.want = want,
                                  !.cols = None])
  BY DEF WriteAsked
<1>3. seen \in [Ids -> Stored]
  BY <1>0, <1>c, OverStored
<1>2. wrote \in [Ids -> Entry]
  BY <1>3 DEF Stored, Entry
<1>d. Over(rows, wrote) = seen
  <2>1. ASSUME NEW i \in Ids
        PROVE  Over(rows, wrote)[i] = seen[i]
    <3>1. seen[i] # Same
      BY <1>3, GoodRows, PrepaymentAssumption DEF Stored
    <3>2. req[w].cols[i] = {} => seen[i] = rows[i]
      BY DEF Left
    <3>3. Over(rows, wrote)[i] = IF wrote[i] = Same THEN rows[i] ELSE wrote[i]
      BY DEF Over
    <3> HIDE DEF seen
    <3> QED
      BY <3>1, <3>2, <3>3
  <2>2. Over(rows, wrote) = [i \in Ids |-> Over(rows, wrote)[i]]
    BY DEF Over
  <2> QED
    BY <1>3, <2>1, <2>2
<1>e. torn' = {}
  BY <1>0, <1>c DEF WriteAsked
<1> HIDE DEF wrote, seen
<1> DEFINE r == [req[w] EXCEPT !.at = "commit", !.wrote = wrote, !.want = want, !.cols = None]
<1>4. /\ r.at = "commit" /\ r.want = want /\ r.wrote = wrote
      /\ r.items = req[w].items /\ r.settle = req[w].settle /\ r.cols = None
  BY <1>0 DEF Request
<1>5. /\ req' = [req EXCEPT ![w] = r]
      /\ UNCHANGED <<rows, basis, items, cancelled, orderly>>
  BY <1>1 DEF Advance, saleVars, WriteAsked
<1> HIDE DEF r
<1>6. ASSUME orderly PROVE OnItsOwn(rows, r) /\ OneRow(rows)
                           /\ (cancelled /\ "cancelled" \in items => NothingOpen(rows))
  <2>1. OneRow(rows) /\ OnItsOwn(rows, req[w])
        /\ (cancelled /\ "cancelled" \in items => NothingOpen(rows))
    BY <1>6 DEF OrderlyInv
  <2>3. OneRow(seen) /\ Kept(rows, seen)
    BY <1>0, <1>c, <2>1 DEF OnItsOwn
  <2>4. "cancelled" \in req[w].items => req[w].settle
    BY <1>0, <2>1 DEF OnItsOwn
  <2> DEFINE after == Over(rows, Over(wrote, want))
  <2>5. OneRow(after) /\ Kept(rows, after) /\ (req[w].settle => NothingOpen(after))
    <3>1. CASE req[w].settle /\ ToSettle # {}
      <4>1. PICK i \in Found(seen) : want = Only(i, Settled(seen[i], req[w].refund))
        BY <1>1, <3>1
      <4> DEFINE e == Settled(seen[i], req[w].refund)
      <4>2. i \in Ids /\ seen[i] \in GoodRow /\ req[w].refund \in BOOLEAN
        BY <1>0, <1>3 DEF Found, Stored, Request
      <4>3. \/ e = Same /\ seen[i].status \notin Unsettled
            \/ /\ e \in GoodRow /\ e.actual = seen[i].actual
               /\ e.status \notin Unsettled
        BY <4>2, SettledSettles
      <4>4. e \in Entry
        BY <4>3 DEF Entry
      <4>5. want = Only(i, e)
        BY <4>1
      <4> HIDE DEF e
      <4>6. Only(i, e) \in [Ids -> Entry]
        BY <4>2, <4>4, OnlyType
      <4>7. after = Over(seen, Only(i, e))
        BY <1>0, <1>2, <1>d, <4>5, <4>6, OverTwice
      <4>8. after = [j \in Ids |-> IF j = i /\ e # Same THEN e ELSE seen[j]]
        BY <1>3, <4>2, <4>4, <4>7, OverOnly
      <4> HIDE DEF after
      <4>9. Found(after) = Found(seen)
        BY <4>1, <4>2, <4>3, <4>8, GoodRows DEF Found
      <4>10. Found(seen) \subseteq {i}
        BY <2>3, <4>1 DEF OneRow
      <4>11. after[i] = IF e # Same THEN e ELSE seen[i]
        BY <4>2, <4>8
      <4>12. /\ after[i] # None /\ after[i].actual = seen[i].actual
             /\ after[i].status \notin Unsettled
        BY <4>2, <4>3, <4>11, GoodRows
      <4>13. OneRow(after) /\ NothingOpen(after)
        BY <4>9, <4>10, <4>12 DEF OneRow, NothingOpen
      <4>14. Kept(rows, after)
        <5>1. SUFFICES ASSUME NEW j \in Found(rows), rows[j].actual # None
                       PROVE  after[j] # None /\ after[j].actual # None
          BY DEF Kept
        <5>2. seen[j] # None /\ seen[j].actual # None /\ j \in Ids
          BY <2>3, <5>1 DEF Kept, Found
        <5>3. j = i
          BY <4>10, <5>2 DEF Found
        <5> QED
          BY <4>12, <5>2, <5>3
      <4> QED
        BY <4>13, <4>14
    <3>2. CASE ~(req[w].settle /\ ToSettle # {})
      <4>1. want = Nothing
        BY <1>1, <3>2
      <4>2. after = Over(seen, Nothing)
        BY <1>0, <1>2, <1>d, <4>1, NothingType, OverTwice
      <4>3. after = seen
        BY <1>3, <4>2, OverNothing
      <4>4. req[w].settle => Found(seen) = {}
        BY <3>2
      <4> HIDE DEF after
      <4> QED
        BY <2>3, <4>3, <4>4 DEF NothingOpen
    <3> QED
      BY <3>1, <3>2
  <2> HIDE DEF after
  <2>6. OnItsOwn(rows, r)
    BY <1>4, <2>4, <2>5 DEF OnItsOwn, after
  <2> QED
    BY <2>1, <2>6
<1>7. orderly => torn' = {} /\ OnItsOwn(rows', r) /\ OneRow(rows')
                 /\ (cancelled /\ "cancelled" \in items => NothingOpen(rows))'
  BY <1>e, <1>5, <1>6
<1> QED
  BY <1>0, <1>5, <1>7, StepOrderly

LEMMA OrderlyInductive == IInv /\ OrderlyInv /\ [Next]_vars => OrderlyInv'
<1> SUFFICES ASSUME IInv, OrderlyInv, [Next]_vars PROVE OrderlyInv'
  OBVIOUS
<1>a. CASE UNCHANGED vars
  BY <1>a DEF vars, saleVars, OrderlyInv
<1>b. ASSUME NEW w \in Workers, NEW i \in Ids, NEW actual \in Amounts,
             Confirm(w, i, actual) \/ Update(w, i, actual)
      PROVE  OrderlyInv'
  <2>1. i \in Found(rows) /\ rows[i] \in Row /\ rows[i].status \in Unsettled
    BY <1>b DEF IInv, TypeOK, Found, Unsettled, Confirm, Update
  <2> DEFINE e == Paid(rows[i], actual, "CONFIRMED")
  <2>2. e \in GoodRow
    BY <2>1, PaidGood
  <2>3. e.actual = actual /\ actual # None
    BY <2>1, PrepaymentAssumption DEF Paid, Row
  <2>4. Reads(w, i, e)
    BY <1>b DEF Confirm, Update
  <2> HIDE DEF e
  <2> QED
    BY <2>1, <2>2, <2>3, <2>4, ReadsOrderly
<1>c. ASSUME NEW w \in Workers, NEW i \in Ids, Cancel(w, i)
      PROVE  OrderlyInv'
  <2>0. CASE ~orderly
    BY <1>c, <2>0 DEF Cancel, Reads, Begin, OrderlyInv
  <2> SUFFICES ASSUME orderly PROVE OrderlyInv'
    BY <2>0
  <2>1. i \in Found(rows) /\ rows[i] \in GoodRow
    BY <1>c, NothingTorn DEF OrderlyInv, Stored, Found, Cancel
  <2> DEFINE e == [rows[i] EXCEPT !.status = "CANCELLED"]
  <2>2. e \in GoodRow
    BY <2>1, RestatusGood
  <2>3. e.actual = rows[i].actual /\ e.status \notin Unsettled
    BY <2>1 DEF GoodRow, Row, Unsettled
  <2>4. Reads(w, i, e)
    BY <1>c DEF Cancel
  <2> HIDE DEF e
  <2> QED
    BY <2>1, <2>2, <2>3, <2>4, ReadsOrderly
<1>d. ASSUME NEW w \in Workers, Save(w)
      PROVE  OrderlyInv'
  <2>1. req[w].at = "save" /\ req' = [req EXCEPT ![w] = Idle]
        /\ UNCHANGED <<basis, items, cancelled, orderly>>
    BY <1>d DEF Save, Advance, saleVars
  <2>2. OnItsOwn(rows', Idle)
    BY DEF OnItsOwn, Idle
  <2>3. orderly => torn' = {} /\ OneRow(rows')
                   /\ (cancelled /\ "cancelled" \in items => NothingOpen(rows))'
    BY <1>d, <2>1, SaveKeeps DEF OrderlyInv
  <2> QED
    BY <2>1, <2>2, <2>3, StepOrderly
<1>e. ASSUME NEW w \in Workers, NEW new \in SUBSET ItemKinds, NEW b \in Bases, EditSale(w, new, b)
      PROVE  OrderlyInv'
  BY <1>e, UpdateSaleOrderly DEF EditSale
<1>f. ASSUME NEW w \in Workers, NEW refund \in BOOLEAN, CancelSale(w, refund)
      PROVE  OrderlyInv'
  BY <1>f, UpdateSaleOrderly DEF CancelSale
<1>g. ASSUME NEW w \in Workers, CommitSale(w)
      PROVE  OrderlyInv'
  <2>1. /\ req[w].at = "commit" /\ req' = [req EXCEPT ![w] = Idle]
        /\ items' = req[w].items /\ orderly' = orderly
    BY <1>g DEF CommitSale
  <2>2. OnItsOwn(rows', Idle)
    BY DEF OnItsOwn, Idle
  <2>3. orderly => torn' = {} /\ OneRow(rows') /\ (req[w].settle => NothingOpen(rows'))
    BY <1>g, CommitKeeps
  <2>4. orderly => ("cancelled" \in items' => req[w].settle)
    BY <2>1 DEF OrderlyInv, OnItsOwn
  <2> QED
    BY <2>1, <2>2, <2>3, <2>4, StepOrderly
<1>h. ASSUME NEW w \in Workers, Fail(w)
      PROVE  OrderlyInv'
  <2>1. req[w].at # "idle" /\ req' = [req EXCEPT ![w] = Idle]
        /\ UNCHANGED <<rows, basis, items, cancelled, orderly, torn>>
    BY <1>h DEF Fail, Advance, saleVars
  <2>2. OnItsOwn(rows', Idle)
    BY DEF OnItsOwn, Idle
  <2> QED
    BY <2>1, <2>2, StepOrderly DEF OrderlyInv
<1> QED
  BY <1>a, <1>b, <1>c, <1>d, <1>e, <1>f, <1>g, <1>h, LookOrderly, FindAskedOrderly,
     WriteAskedOrderly DEF Next

\* Whatever one request does, until the next begins, it keeps to one row, every
\* receipt, and a settled cancellation.
THEOREM OrderlyInvariance == Spec => [](IInv /\ OrderlyInv)
<1>1. IInv /\ OrderlyInv /\ [Next]_vars => (IInv /\ OrderlyInv)'
  BY Inductive, OrderlyInductive
<1>2. Init => IInv /\ OrderlyInv
  BY Initial, OrderlyInitial
<1> QED
  BY <1>1, <1>2, PTL DEF Spec

\* With requests one at a time, a sale has one prepayment at most.
THEOREM OnePrepaymentEach == Spec => []OneOfEachSale
<1>1. OrderlyInv => OneOfEachSale
  BY DEF OrderlyInv, OneRow, Found, OneOfEachSale, Present
<1> QED
  BY <1>1, OrderlyInvariance, PTL

\* With requests one at a time, a cancelled sale that has its cancelled items
\* leaves no prepayment asked for, or paid and not settled.
THEOREM CancellationSettles == Spec => []CancelledSaleSettled
<1>1. OrderlyInv => CancelledSaleSettled
  BY DEF OrderlyInv, NothingOpen, Unsettled, Found, CancelledSaleSettled, Present
<1> QED
  BY <1>1, OrderlyInvariance, PTL

\* With requests one at a time, no step forgets money that was received.
THEOREM NoReceiptForgotten == Spec => ReceiptsKept
<1> DEFINE K == orderly => \A i \in Present : rows[i].actual # None =>
                  rows'[i] # None /\ rows'[i].actual # None
<1>1. IInv /\ OrderlyInv /\ [Next]_vars => [K]_vars
  <2> SUFFICES ASSUME IInv, OrderlyInv, Next, orderly PROVE K
    OBVIOUS
  <2>1. PICK w \in Workers : Save(w) \/ CommitSale(w) \/ rows' = rows
    BY DEF Next, Confirm, Update, Cancel, Reads, EditSale, CancelSale, UpdateSale, Begin,
           FindAsked, WriteAsked, Look, Fail
  <2>2. Kept(rows, rows')
    <3>1. CASE rows' = rows
      BY <3>1 DEF Kept, Found
    <3> QED
      BY <2>1, <3>1, SaveKeeps, CommitKeeps
  <2> QED
    BY <2>2 DEF Kept, Found, Present
<1> QED
  BY <1>1, OrderlyInvariance, PTL DEF Spec, ReceiptsKept
=================================================================================
