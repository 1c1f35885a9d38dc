------------------------- MODULE PaymentScheduleProofs -------------------------
(***************************************************************************)
(* Facts about due dates for every calendar whose months have 28 to 31     *)
(* days, any issue dates and any terms a form may carry.                   *)
(***************************************************************************)
EXTENDS PaymentSchedule, TLAPS

InMonth(d, m) == MonthStart[m] <= d /\ d < MonthStart[m + 1]

\* The invoice dates and terms stay in the range the calendar covers.
DatedOK == /\ issued \in [InvoiceIds -> IssueDates \cup {None}]
           /\ erased \subseteq IssueDates
           /\ terms \in Terms

-----------------------------------------------------------------------------
(* The calendar.                                                           *)

LEMMA MonthStartNat == ASSUME NEW m \in 0 .. LastMonth + 1 PROVE MonthStart[m] \in Nat
BY CalendarAssumption

\* A day lies in one month only.
LEMMA MonthOfIs ==
    ASSUME NEW d \in Nat, NEW m \in Months, InMonth(d, m)
    PROVE  MonthOf(d) = m
<1>1. ASSUME NEW n \in Months, InMonth(d, n) PROVE n = m
  <2>1. CASE n < m
    <3>1. MonthStart[n + 1] <= MonthStart[m]
      <4>1. n + 1 \in 0 .. LastMonth + 1 /\ m \in 0 .. LastMonth + 1 /\ n + 1 <= m
          BY <2>1, CalendarAssumption DEF Months
      <4>2. CASE n + 1 = m BY <4>1, <4>2, MonthStartNat
      <4>3. CASE n + 1 < m
        <5>1. MonthStart[n + 1] < MonthStart[m] BY <4>1, <4>3, CalendarAssumption
        <5> QED BY <4>1, <5>1, MonthStartNat
      <4> QED BY <4>1, <4>2, <4>3
    <3>2. MonthStart[n + 1] \in Nat /\ MonthStart[m] \in Nat
        BY MonthStartNat, CalendarAssumption DEF Months
    <3> QED BY <3>1, <3>2, <1>1 DEF InMonth
  <2>2. CASE m < n
    <3>1. MonthStart[m + 1] <= MonthStart[n]
      <4>1. m + 1 \in 0 .. LastMonth + 1 /\ n \in 0 .. LastMonth + 1 /\ m + 1 <= n
          BY <2>2, CalendarAssumption DEF Months
      <4>2. CASE m + 1 = n BY <4>1, <4>2, MonthStartNat
      <4>3. CASE m + 1 < n
        <5>1. MonthStart[m + 1] < MonthStart[n] BY <4>1, <4>3, CalendarAssumption
        <5> QED BY <4>1, <5>1, MonthStartNat
      <4> QED BY <4>1, <4>2, <4>3
    <3>2. MonthStart[m + 1] \in Nat /\ MonthStart[n] \in Nat
        BY MonthStartNat, CalendarAssumption DEF Months
    <3> QED BY <3>1, <3>2, <1>1 DEF InMonth
  <2> QED BY <2>1, <2>2, CalendarAssumption DEF Months
<1> QED BY <1>1 DEF MonthOf, InMonth

\* What the proofs need of the months around month m.
LEMMA NearbyMonths ==
    ASSUME NEW m \in 0 .. LastMonth - 4
    PROVE  /\ m \in Months /\ m + 1 \in Months /\ m + 2 \in Months /\ m + 3 \in Months
           /\ MonthStart[m] \in Nat /\ MonthStart[m + 1] \in Nat
           /\ MonthStart[m + 2] \in Nat /\ MonthStart[m + 3] \in Nat
           /\ MonthStart[m] + 28 <= MonthStart[m + 1]
           /\ MonthStart[m + 1] <= MonthStart[m] + 31
           /\ MonthStart[m + 1] + 28 <= MonthStart[m + 2]
           /\ MonthStart[m + 2] + 28 <= MonthStart[m + 3]
<1>1. m \in Months /\ m + 1 \in Months /\ m + 2 \in Months /\ m + 3 \in Months
    BY CalendarAssumption DEF Months
<1>2. /\ MonthStart[m] \in Nat /\ MonthStart[m + 1] \in Nat
      /\ MonthStart[m + 2] \in Nat /\ MonthStart[m + 3] \in Nat
    BY MonthStartNat, CalendarAssumption
<1>3. (m + 1) + 1 = m + 2 /\ (m + 2) + 1 = m + 3 OBVIOUS
<1> QED BY <1>1, <1>2, <1>3, CalendarAssumption

\* setMonth(+1) lands in the next month, or runs over into the one after it.
LEMMA AddMonthLands ==
    ASSUME NEW m \in 0 .. LastMonth - 4, NEW d \in Nat, InMonth(d, m)
    PROVE  /\ AddMonth(d) \in Nat
           /\ AddMonth(d) = MonthStart[m + 1] + (d - MonthStart[m])
           /\ MonthOf(AddMonth(d)) = IF AddMonth(d) < MonthStart[m + 2] THEN m + 1 ELSE m + 2
<1>1. MonthOf(d) = m BY MonthOfIs, NearbyMonths
<1>2. AddMonth(d) = MonthStart[m + 1] + (d - MonthStart[m]) BY <1>1 DEF AddMonth
<1>3. AddMonth(d) \in Nat /\ MonthStart[m + 1] <= AddMonth(d) /\ AddMonth(d) < MonthStart[m + 3]
    BY <1>2, NearbyMonths DEF InMonth
<1>4. (m + 1) + 1 = m + 2 /\ (m + 2) + 1 = m + 3 OBVIOUS
<1>5. CASE AddMonth(d) < MonthStart[m + 2]
  <2>1. InMonth(AddMonth(d), m + 1) BY <1>3, <1>4, <1>5 DEF InMonth
  <2> QED BY <2>1, <1>2, <1>3, <1>5, MonthOfIs, NearbyMonths
<1>6. CASE ~(AddMonth(d) < MonthStart[m + 2])
  <2>1. InMonth(AddMonth(d), m + 2) BY <1>3, <1>4, <1>6, NearbyMonths DEF InMonth
  <2> QED BY <2>1, <1>2, <1>3, <1>6, MonthOfIs, NearbyMonths
<1> QED BY <1>5, <1>6

\* Each kind of terms written out with the starts of the months around d.
LEMMA DueDateIs ==
    ASSUME NEW m \in 0 .. LastMonth - 4, NEW d \in Nat, InMonth(d, m), NEW n \in 1 .. 31
    PROVE  /\ ThisMonthDay(d, n) = IF MonthStart[m] + n - 1 < d THEN MonthStart[m + 1] + n - 1
                                   ELSE MonthStart[m] + n - 1
           /\ MonthDay(AddMonth(d), n) =
                IF MonthStart[m + 1] + (d - MonthStart[m]) < MonthStart[m + 2]
                THEN MonthStart[m + 1] + n - 1 ELSE MonthStart[m + 2] + n - 1
           /\ MonthEnd(d) = MonthStart[m + 1] - 1
           /\ MonthEnd(AddMonth(d)) =
                IF MonthStart[m + 1] + (d - MonthStart[m]) < MonthStart[m + 2]
                THEN MonthStart[m + 2] - 1 ELSE MonthStart[m + 3] - 1
<1>1. MonthOf(d) = m BY MonthOfIs, NearbyMonths
<1> DEFINE x == MonthDay(d, n)
<1>2. x = MonthStart[m] + n - 1 BY <1>1 DEF MonthDay
<1>3. ThisMonthDay(d, n) = IF MonthStart[m] + n - 1 < d THEN MonthStart[m + 1] + n - 1
                           ELSE MonthStart[m] + n - 1
  <2>1. CASE x < d
    <3>1. x \in Nat /\ InMonth(x, m) BY <1>2, <2>1, NearbyMonths DEF InMonth
    <3>2. AddMonth(x) = MonthStart[m + 1] + (x - MonthStart[m]) BY <3>1, AddMonthLands
    <3>3. AddMonth(x) = MonthStart[m + 1] + n - 1 BY <3>2, <1>2, NearbyMonths
    <3> QED BY <3>3, <2>1, <1>2 DEF ThisMonthDay
  <2>2. CASE ~(x < d) BY <2>2, <1>2 DEF ThisMonthDay
  <2> QED BY <2>1, <2>2
<1>4. MonthDay(AddMonth(d), n) =
        IF MonthStart[m + 1] + (d - MonthStart[m]) < MonthStart[m + 2]
        THEN MonthStart[m + 1] + n - 1 ELSE MonthStart[m + 2] + n - 1
    BY AddMonthLands DEF MonthDay
<1>5. MonthEnd(d) = MonthStart[m + 1] - 1 BY <1>1 DEF MonthEnd
<1>6. (m + 1) + 1 = m + 2 /\ (m + 2) + 1 = m + 3 OBVIOUS
<1>7. MonthEnd(AddMonth(d)) =
        IF MonthStart[m + 1] + (d - MonthStart[m]) < MonthStart[m + 2]
        THEN MonthStart[m + 2] - 1 ELSE MonthStart[m + 3] - 1
    BY <1>6, AddMonthLands DEF MonthEnd
<1> QED BY <1>3, <1>4, <1>5, <1>7

LEMMA IssueMonth ==
    ASSUME NEW d \in IssueDates
    PROVE  d \in Nat /\ \E m \in 0 .. LastMonth - 4 : InMonth(d, m)
BY CalendarAssumption DEF InMonth

LEMMA TermsValue ==
    ASSUME NEW t \in Terms
    PROVE  /\ t.type \in TermsTypes
           /\ t.type = "DAYS" => DayCount(t.value) \in Nat
           /\ t.type # "DAYS" => DayOr1(t.value) \in 1 .. 31
<1>1. /\ t.type \in TermsTypes
      /\ t.type = "DAYS" => t.value \in DayCounts \cup {None}
      /\ t.type # "DAYS" => t.value \in MonthDays \cup {None}
    BY DEF Terms, TermsTypes
<1>2. ASSUME t.type = "DAYS" PROVE DayCount(t.value) \in Nat
  <2>1. CASE t.value = None BY <2>1 DEF DayCount
  <2>2. CASE t.value # None
    <3>1. t.value \in Int BY <1>1, <1>2, <2>2, CalendarAssumption
    <3> QED BY <3>1, <2>2 DEF DayCount
  <2> QED BY <2>1, <2>2
<1>3. ASSUME t.type # "DAYS" PROVE DayOr1(t.value) \in 1 .. 31
  <2>1. CASE t.value = None BY <2>1 DEF DayOr1
  <2>2. CASE t.value # None
    <3>1. t.value \in 1 .. 31 BY <1>1, <1>3, <2>2, CalendarAssumption
    <3> QED BY <3>1, <2>2 DEF DayOr1
  <2> QED BY <2>1, <2>2
<1> QED BY <1>1, <1>2, <1>3

-----------------------------------------------------------------------------
(* What a due date is, whatever the terms.                                 *)

LEMMA DueDateNotBefore ==
    ASSUME NEW d \in IssueDates, NEW t \in Terms
    PROVE  DueDate(d, t) \in Nat /\ DueDate(d, t) >= d
<1>1. PICK m \in 0 .. LastMonth - 4 : InMonth(d, m) BY IssueMonth
<1> DEFINE n == DayOr1(t.value)
           k == DayCount(t.value)
<1>2. d \in Nat /\ (t.type # "DAYS" => n \in 1 .. 31) /\ (t.type = "DAYS" => k \in Nat)
    BY IssueMonth, TermsValue
<1> HIDE DEF n, k
<1>3. MonthStart[m] <= d /\ d < MonthStart[m + 1] BY <1>1 DEF InMonth
<1>4. CASE t.type = "DAYS"
  <2>1. DueDate(d, t) = d + k BY <1>4 DEF DueDate, k
  <2> QED BY <2>1, <1>2, <1>4
<1>5. CASE t.type = "THIS_MONTH_DAY"
  <2>0. n \in 1 .. 31 BY <1>2, <1>5
  <2>1. DueDate(d, t) = ThisMonthDay(d, n) BY <1>5 DEF DueDate, n
  <2> QED BY <2>1, <1>1, <1>2, <2>0, <1>3, DueDateIs, NearbyMonths
<1>6. CASE t.type = "NEXT_MONTH_DAY"
  <2>0. n \in 1 .. 31 BY <1>2, <1>6
  <2>1. DueDate(d, t) = MonthDay(AddMonth(d), n) BY <1>6 DEF DueDate, n
  <2> QED BY <2>1, <1>1, <1>2, <2>0, <1>3, DueDateIs, NearbyMonths
<1>7. CASE t.type = "THIS_MONTH_END"
  <2>0. n \in 1 .. 31 BY <1>2, <1>7
  <2>1. DueDate(d, t) = MonthEnd(d) BY <1>7 DEF DueDate
  <2> QED BY <2>1, <1>1, <1>2, <2>0, <1>3, DueDateIs, NearbyMonths
<1>8. CASE t.type = "NEXT_MONTH_END"
  <2>0. n \in 1 .. 31 BY <1>2, <1>8
  <2>1. DueDate(d, t) = MonthEnd(AddMonth(d)) BY <1>8 DEF DueDate
  <2> QED BY <2>1, <1>1, <1>2, <2>0, <1>3, DueDateIs, NearbyMonths
<1> QED BY <1>4, <1>5, <1>6, <1>7, <1>8, TermsValue DEF TermsTypes

\* Of two months, the earlier one ends before the later one starts.
LEMMA MonthOrder ==
    ASSUME NEW m \in 0 .. LastMonth - 4, NEW q \in 0 .. LastMonth - 4, m < q
    PROVE  MonthStart[m + 1] <= MonthStart[q] /\ MonthStart[m + 2] <= MonthStart[q + 1]
           /\ MonthStart[m + 3] <= MonthStart[q + 2]
<1>1. ASSUME NEW k \in 1 .. 3 PROVE MonthStart[m + k] <= MonthStart[q + k - 1]
  <2>1. m + k \in 0 .. LastMonth + 1 /\ q + k - 1 \in 0 .. LastMonth + 1 /\ m + k <= q + k - 1
      BY CalendarAssumption
  <2>2. CASE m + k = q + k - 1
    <3>1. MonthStart[m + k] = MonthStart[q + k - 1] BY <2>2
    <3> QED BY <3>1, <2>1, MonthStartNat
  <2>3. CASE m + k < q + k - 1
    <3>1. MonthStart[m + k] < MonthStart[q + k - 1] BY <2>1, <2>3, CalendarAssumption
    <3> QED BY <3>1, <2>1, MonthStartNat
  <2> QED BY <2>1, <2>2, <2>3
<1>2. q + 1 - 1 = q /\ q + 2 - 1 = q + 1 /\ q + 3 - 1 = q + 2 OBVIOUS
<1>3. /\ MonthStart[m + 1] <= MonthStart[q + 1 - 1] /\ MonthStart[m + 2] <= MonthStart[q + 2 - 1]
      /\ MonthStart[m + 3] <= MonthStart[q + 3 - 1]
    BY <1>1
<1> QED BY <1>2, <1>3

\* An invoice in a later month is issued later.
LEMMA LaterMonthLaterDay ==
    ASSUME NEW d \in Nat, NEW e \in Nat, d <= e,
           NEW m \in 0 .. LastMonth - 4, InMonth(d, m),
           NEW q \in 0 .. LastMonth - 4, InMonth(e, q)
    PROVE  m = q \/ m < q
<1>1. CASE q < m
  <2>1. MonthStart[q + 1] <= MonthStart[m] BY <1>1, MonthOrder
  <2> QED BY <2>1, NearbyMonths DEF InMonth
<1> QED BY <1>1

LEMMA DueDateMonotone ==
    ASSUME NEW d \in IssueDates, NEW e \in IssueDates, d <= e, NEW t \in Terms
    PROVE  DueDate(d, t) <= DueDate(e, t)
<1>1. PICK m \in 0 .. LastMonth - 4 : InMonth(d, m) BY IssueMonth
<1>2. PICK q \in 0 .. LastMonth - 4 : InMonth(e, q) BY IssueMonth
<1> DEFINE n == DayOr1(t.value)
           k == DayCount(t.value)
<1>3. /\ d \in Nat /\ e \in Nat
      /\ t.type # "DAYS" => n \in 1 .. 31
      /\ t.type = "DAYS" => k \in Nat
    BY IssueMonth, TermsValue
<1> HIDE DEF n, k
<1>4. m = q \/ m < q BY <1>1, <1>2, <1>3, LaterMonthLaterDay
<1>5. /\ MonthStart[m] <= d /\ d < MonthStart[m + 1]
      /\ MonthStart[q] <= e /\ e < MonthStart[q + 1]
    BY <1>1, <1>2 DEF InMonth
<1>6. m < q => /\ MonthStart[m + 1] <= MonthStart[q] /\ MonthStart[m + 2] <= MonthStart[q + 1]
               /\ MonthStart[m + 3] <= MonthStart[q + 2]
    BY MonthOrder
<1>a. /\ MonthStart[m] \in Nat /\ MonthStart[m + 1] \in Nat
      /\ MonthStart[m + 2] \in Nat /\ MonthStart[m + 3] \in Nat
      /\ MonthStart[q] \in Nat /\ MonthStart[q + 1] \in Nat
      /\ MonthStart[q + 2] \in Nat /\ MonthStart[q + 3] \in Nat
      /\ MonthStart[q] + 28 <= MonthStart[q + 1] /\ MonthStart[q + 1] + 28 <= MonthStart[q + 2]
      /\ MonthStart[q + 2] + 28 <= MonthStart[q + 3]
    BY NearbyMonths
<1>7. CASE t.type = "DAYS"
  <2>1. DueDate(d, t) = d + k /\ DueDate(e, t) = e + k BY <1>7 DEF DueDate, k
  <2> QED BY <2>1, <1>3, <1>7
<1>8. CASE t.type = "THIS_MONTH_DAY"
  <2>0. n \in 1 .. 31 BY <1>3, <1>8
  <2>1. DueDate(d, t) = ThisMonthDay(d, n) /\ DueDate(e, t) = ThisMonthDay(e, n)
      BY <1>8 DEF DueDate, n
  <2>2. CASE m = q BY <2>1, <2>2, <1>1, <1>2, <1>3, <2>0, <1>5, DueDateIs, NearbyMonths
  <2>4. /\ ThisMonthDay(d, n) \in {MonthStart[m] + n - 1, MonthStart[m + 1] + n - 1}
        /\ ThisMonthDay(e, n) \in {MonthStart[q] + n - 1, MonthStart[q + 1] + n - 1}
      BY <1>1, <1>2, <1>3, <2>0, DueDateIs
  <2>3. CASE m < q
    <3>1. MonthStart[m] <= MonthStart[q] /\ MonthStart[m + 1] <= MonthStart[q]
          /\ MonthStart[q] <= MonthStart[q + 1]
        BY <2>3, <1>5, <1>6, <1>3, <2>0, <1>a
    <3> QED BY <2>1, <2>4, <3>1, <1>3, <2>0, <1>a
  <2> QED BY <1>4, <2>2, <2>3
<1>9. CASE t.type = "NEXT_MONTH_DAY"
  <2>0. n \in 1 .. 31 BY <1>3, <1>9
  <2>1. DueDate(d, t) = MonthDay(AddMonth(d), n) /\ DueDate(e, t) = MonthDay(AddMonth(e), n)
      BY <1>9 DEF DueDate, n
  <2>2. CASE m = q BY <2>1, <2>2, <1>1, <1>2, <1>3, <2>0, <1>5, DueDateIs, NearbyMonths
  <2>4. /\ MonthDay(AddMonth(d), n) \in {MonthStart[m + 1] + n - 1, MonthStart[m + 2] + n - 1}
        /\ MonthDay(AddMonth(e), n) \in {MonthStart[q + 1] + n - 1, MonthStart[q + 2] + n - 1}
      BY <1>1, <1>2, <1>3, <2>0, DueDateIs
  <2>3. CASE m < q
    <3>1. MonthStart[m + 1] <= MonthStart[q + 1] /\ MonthStart[m + 2] <= MonthStart[q + 1]
        BY <2>3, <1>6, <1>a
    <3> QED BY <2>1, <2>4, <3>1, <1>3, <2>0, <1>a
  <2> QED BY <1>4, <2>2, <2>3
<1>10. CASE t.type = "THIS_MONTH_END"
  <2>0. n \in 1 .. 31 BY <1>3, <1>10
  <2>1. DueDate(d, t) = MonthEnd(d) /\ DueDate(e, t) = MonthEnd(e) BY <1>10 DEF DueDate
  <2>2. CASE m = q BY <2>1, <2>2, <1>1, <1>2, <1>3, <2>0, <1>5, DueDateIs, NearbyMonths
  <2>4. MonthEnd(d) = MonthStart[m + 1] - 1 /\ MonthEnd(e) = MonthStart[q + 1] - 1
      BY <1>1, <1>2, <1>3, <2>0, DueDateIs
  <2>3. CASE m < q BY <2>1, <2>3, <2>4, <1>6, <1>a
  <2> QED BY <1>4, <2>2, <2>3
<1>11. CASE t.type = "NEXT_MONTH_END"
  <2>0. n \in 1 .. 31 BY <1>3, <1>11
  <2>1. DueDate(d, t) = MonthEnd(AddMonth(d)) /\ DueDate(e, t) = MonthEnd(AddMonth(e))
      BY <1>11 DEF DueDate
  <2>2. CASE m = q BY <2>1, <2>2, <1>1, <1>2, <1>3, <2>0, <1>5, DueDateIs, NearbyMonths
  <2>4. /\ MonthEnd(AddMonth(d)) \in {MonthStart[m + 2] - 1, MonthStart[m + 3] - 1}
        /\ MonthEnd(AddMonth(e)) \in {MonthStart[q + 2] - 1, MonthStart[q + 3] - 1}
      BY <1>1, <1>2, <1>3, <2>0, DueDateIs
  <2>3. CASE m < q BY <2>1, <2>3, <2>4, <1>6, <1>a
  <2> QED BY <1>4, <2>2, <2>3
<1> QED BY <1>7, <1>8, <1>9, <1>10, <1>11, TermsValue DEF TermsTypes

-----------------------------------------------------------------------------
LEMMA DatedInv == Spec => []DatedOK
<1>1. Init => DatedOK BY DEF Init, DatedOK, Terms, TermsTypes, DefaultTerms
<1>2. DatedOK /\ [Next]_vars => DatedOK'
  <2> SUFFICES ASSUME DatedOK, [Next]_vars PROVE DatedOK' OBVIOUS
  <2>1. ASSUME NEW i \in InvoiceIds, DeleteInvoice(i) PROVE DatedOK'
      BY <2>1 DEF DatedOK, DeleteInvoice
  <2>2. ASSUME NEW i \in InvoiceIds, NEW d \in IssueDates, CreateInvoice(i, d) PROVE DatedOK'
      BY <2>2 DEF DatedOK, CreateInvoice
  <2>3. ASSUME NEW i \in InvoiceIds, NEW d \in IssueDates, UpdateIssuedAt(i, d) PROVE DatedOK'
      BY <2>3 DEF DatedOK, UpdateIssuedAt
  <2>4. ASSUME NEW e \in IssueDates, NEW d \in IssueDates, RedateDeleted(e, d) PROVE DatedOK'
      BY <2>4 DEF DatedOK, RedateDeleted
  <2>5. ASSUME NEW t \in Terms, UpdatePaymentTerms(t) PROVE DatedOK'
      BY <2>5 DEF DatedOK, UpdatePaymentTerms
  <2>6. CASE UNCHANGED vars BY <2>6 DEF DatedOK, vars
  <2> QED BY <2>1, <2>2, <2>3, <2>4, <2>5, <2>6 DEF Next
<1> QED BY <1>1, <1>2, PTL DEF Spec

\* On any calendar, no invoice is ever due before its issue date.
THEOREM NeverDueBeforeIssue == Spec => []DueNotBeforeIssue
<1>1. DatedOK => DueNotBeforeIssue
    BY DueDateNotBefore DEF DatedOK, DueNotBeforeIssue, Live
<1> QED BY <1>1, DatedInv, PTL

\* On any calendar, of two live invoices the one issued later is never due
\* earlier, so that the latest due date is that of the latest invoice.
THEOREM LaterIssueNeverDueEarlier == Spec => []LaterIssueLaterDue
<1>1. DatedOK => LaterIssueLaterDue
    BY DueDateMonotone DEF DatedOK, LaterIssueLaterDue, Live
<1> QED BY <1>1, DatedInv, PTL
-----------------------------------------------------------------------------
(* The receivable's due date.                                              *)

\* The due dates of a set of issue dates, and their latest.
LEMMA LatestIs ==
    ASSUME NEW dates \in SUBSET IssueDates, NEW t \in Terms,
           NEW u, IsLatest(u, DueDates(dates, t))
    PROVE  u \in Nat /\ \A d \in dates : u >= DueDate(d, t)
<1>1. \A d \in dates : DueDate(d, t) \in Nat BY DueDateNotBefore
<1>2. u \in DueDates(dates, t) /\ \A e \in DueDates(dates, t) : e <= u BY DEF IsLatest
<1>3. u \in Nat BY <1>1, <1>2 DEF DueDates
<1>4. ASSUME NEW d \in dates PROVE u >= DueDate(d, t)
  <2>1. DueDate(d, t) <= u BY <1>2 DEF DueDates
  <2> QED BY <2>1, <1>1, <1>3
<1> QED BY <1>3, <1>4

Covered == DatedOK /\ due \in Nat \cup {None} /\ DueCoversInvoices

\* A step that dates the receivable by dates among which the live ones are.
LEMMA LatestCovers ==
    ASSUME DatedOK', NEW dates \in SUBSET IssueDates,
           \A i \in Live' : issued'[i] \in dates,
           IsLatest(due', DueDates(dates, terms'))
    PROVE  Covered'
<1>1. terms' \in Terms BY DEF DatedOK
<1>2. due' \in Nat /\ \A d \in dates : due' >= DueDate(d, terms') BY <1>1, LatestIs
<1>3. due' # None BY <1>2, CalendarAssumption
<1>4. DueCoversInvoices' BY <1>2, <1>3 DEF DueCoversInvoices
<1> QED BY <1>2, <1>4 DEF Covered

LEMMA NoneLive == ASSUME DatedOK', due' \in Nat \cup {None}, Live' = {} PROVE Covered'
BY DEF Covered, DueCoversInvoices

LEMMA CoveredInv == Spec => []Covered
<1>1. Init => Covered
  <2> SUFFICES ASSUME Init PROVE Covered OBVIOUS
  <2>1. DatedOK BY DEF Init, DatedOK, Terms, TermsTypes, DefaultTerms
  <2>2. Live = {} BY DEF Init, Live
  <2> QED BY <2>1, <2>2 DEF Init, Covered, DueCoversInvoices
<1>2. Covered /\ DatedOK' /\ [Next]_vars => Covered'
  <2> SUFFICES ASSUME Covered, DatedOK', [Next]_vars PROVE Covered' OBVIOUS
  <2>0. /\ issued \in [InvoiceIds -> IssueDates \cup {None}] /\ erased \subseteq IssueDates
        /\ issued' \in [InvoiceIds -> IssueDates \cup {None}]
      BY DEF Covered, DatedOK
  <2>1. ASSUME NEW i \in InvoiceIds, DeleteInvoice(i) PROVE Covered'
    <3>1. /\ issued' = [issued EXCEPT ![i] = None] /\ due' = due /\ terms' = terms
        BY <2>1 DEF DeleteInvoice
    <3>2. \A j \in Live' : j \in Live /\ issued'[j] = issued[j] BY <3>1, <2>0 DEF Live
    <3> QED BY <3>1, <3>2 DEF Covered, DueCoversInvoices
  <2>2. ASSUME NEW i \in InvoiceIds, NEW d \in IssueDates, CreateInvoice(i, d) PROVE Covered'
    <3> DEFINE dates == DatesOf(Live) \cup erased \cup {d}
    <3>1. dates \in SUBSET IssueDates BY <2>0 DEF DatesOf, Live
    <3>2. issued' = [issued EXCEPT ![i] = d] BY <2>2 DEF CreateInvoice
    <3>3. \A j \in Live' : issued'[j] \in dates BY <3>2, <2>0 DEF Live, DatesOf
    <3>4. IsLatest(due', DueDates(dates, terms')) BY <2>2 DEF CreateInvoice
    <3> HIDE DEF dates
    <3> QED BY <3>1, <3>3, <3>4, LatestCovers
  <2>3. ASSUME NEW i \in InvoiceIds, NEW d \in IssueDates, UpdateIssuedAt(i, d) PROVE Covered'
    <3> DEFINE dates == DatesOf(Live \ {i}) \cup {d}
    <3>1. dates \in SUBSET IssueDates BY <2>0 DEF DatesOf, Live
    <3>2. issued' = [issued EXCEPT ![i] = d] BY <2>3 DEF UpdateIssuedAt
    <3>3. \A j \in Live' : issued'[j] \in dates BY <3>2, <2>0 DEF Live, DatesOf
    <3>4. IsLatest(due', DueDates(dates, terms')) BY <2>3 DEF UpdateIssuedAt
    <3> HIDE DEF dates
    <3> QED BY <3>1, <3>3, <3>4, LatestCovers
  <2> DEFINE dates == DatesOf(Live)
  <2>d. dates \in SUBSET IssueDates /\ \A j \in Live : issued[j] \in dates
      BY <2>0 DEF DatesOf, Live
  <2>e. ASSUME NEW t, DueDates(dates, t) = {} PROVE Live = {}
      BY <2>d, <2>e DEF DueDates
  <2>4. ASSUME NEW e \in IssueDates, NEW d \in IssueDates, RedateDeleted(e, d) PROVE Covered'
    <3>1. issued' = issued /\ terms' = terms /\ Live' = Live BY <2>4 DEF RedateDeleted, Live
    <3>2. CASE DueDates(dates, terms) = {}
      <4>1. due' = due BY <2>4, <3>2 DEF RedateDeleted
      <4> QED BY <4>1, <3>1, <3>2, <2>e, NoneLive DEF Covered
    <3>3. CASE DueDates(dates, terms) # {}
      <4>1. IsLatest(due', DueDates(dates, terms')) BY <2>4, <3>1, <3>3 DEF RedateDeleted
      <4> HIDE DEF dates
      <4> QED BY <4>1, <3>1, <2>d, LatestCovers
    <3> QED BY <3>2, <3>3
  <2>5. ASSUME NEW t \in Terms, UpdatePaymentTerms(t) PROVE Covered'
    <3>1. issued' = issued /\ terms' = t /\ Live' = Live BY <2>5 DEF UpdatePaymentTerms, Live
    <3>2. CASE DueDates(dates, t) = {}
      <4>1. due' = None BY <2>5, <3>2 DEF UpdatePaymentTerms
      <4> QED BY <4>1, <3>1, <3>2, <2>e, NoneLive
    <3>3. CASE DueDates(dates, t) # {}
      <4>1. IsLatest(due', DueDates(dates, terms')) BY <2>5, <3>1, <3>3 DEF UpdatePaymentTerms
      <4> HIDE DEF dates
      <4> QED BY <4>1, <3>1, <2>d, LatestCovers
    <3> QED BY <3>2, <3>3
  <2>6. CASE UNCHANGED vars BY <2>6 DEF vars, Covered, DueCoversInvoices, Live
  <2> QED BY <2>1, <2>2, <2>3, <2>4, <2>5, <2>6 DEF Next
<1> QED BY <1>1, <1>2, DatedInv, PTL DEF Spec

\* The due date is None or a day, the terms are among those the form offers.
THEOREM TypeCorrect == Spec => []TypeOK
<1>1. Covered => TypeOK BY DEF Covered, DatedOK, TypeOK
<1> QED BY <1>1, CoveredInv, PTL

\* On any calendar and under any terms, the due date the warnings count from
\* is never earlier than that of a live invoice.
THEOREM DueAlwaysCovers == Spec => []DueCoversInvoices
<1>1. Covered => DueCoversInvoices BY DEF Covered
<1> QED BY <1>1, CoveredInv, PTL
=============================================================================
