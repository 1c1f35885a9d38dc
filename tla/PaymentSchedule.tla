---------------------------- MODULE PaymentSchedule ----------------------------
(***************************************************************************)
(* The payment terms of one customer and the last due date of its          *)
(* receivable, on a real calendar: what calculatePaymentDueDate makes of   *)
(* months of different lengths, and when the handlers recompute the date.  *)
(* ReceivableLedger has the same handlers with their interleavings and     *)
(* their money, and terms that are a plain number of days.                 *)
(*                                                                         *)
(* A date is a day number.  MonthStart[m] is the first day of month m of   *)
(* the calendar, so that a JavaScript Date built from a month and a day    *)
(* beyond its end runs over into the following months, as it does there.   *)
(***************************************************************************)
EXTENDS Integers, FiniteSets

CONSTANTS
    LastMonth, MonthStart,  \* the calendar: months 0 .. LastMonth
    InvoiceIds,
    IssueDates,             \* dates an invoice may carry
    DayCounts,              \* numbers of days, and days of the month, that terms
    MonthDays,              \* may carry, besides None
    MaxErased,              \* bound on the dates of deleted invoices
    None

Months == 0 .. LastMonth

TermsTypes == {"DAYS", "THIS_MONTH_DAY", "NEXT_MONTH_DAY", "THIS_MONTH_END", "NEXT_MONTH_END"}
Terms == [type: {"DAYS"}, value: DayCounts \cup {None}]
         \cup [type: TermsTypes \ {"DAYS"}, value: MonthDays \cup {None}]

\* Months have 28 to 31 days; due dates need the four months that follow.  The
\* form offers 1 to 31 for a day of the month.
ASSUME CalendarAssumption ==
    /\ LastMonth \in Nat
    /\ MonthStart \in [0 .. LastMonth + 1 -> Nat]
    /\ \A m \in Months : /\ MonthStart[m] + 28 <= MonthStart[m + 1]
                         /\ MonthStart[m + 1] <= MonthStart[m] + 31
    /\ \A m, n \in 0 .. LastMonth + 1 : m < n => MonthStart[m] < MonthStart[n]
    /\ IssueDates \subseteq Nat
    /\ \A d \in IssueDates : \E m \in 0 .. LastMonth - 4 :
          MonthStart[m] <= d /\ d < MonthStart[m + 1]
    /\ DayCounts \subseteq Int /\ MonthDays \subseteq 1 .. 31 /\ MaxErased \in Nat
    /\ None \notin Int

VARIABLES
    issued,  \* the issue date of each live invoice, None for the others
    erased,  \* the issue dates of the deleted ones, which stay in the table
    terms, due

vars == <<issued, erased, terms, due>>

-----------------------------------------------------------------------------
(* payment-due-date-calculator.ts                                          *)

MonthOf(d) == CHOOSE m \in Months : MonthStart[m] <= d /\ d < MonthStart[m + 1]

\* The day of the month is kept, and runs over the end of a shorter month.
AddMonth(d) == MonthStart[MonthOf(d) + 1] + (d - MonthStart[MonthOf(d)])

MonthDay(d, n) == MonthStart[MonthOf(d)] + n - 1
MonthEnd(d) == MonthStart[MonthOf(d) + 1] - 1

\* Mutated: only a missing number of days stands for 7.
DayCountAsIs(value) == IF value = None THEN 7 ELSE value

\* A number of days that is missing, 0 or negative stands for 7.
DayCount(value) == IF value = None \/ value <= 0 THEN 7 ELSE value
DayOr1(value) == IF value = None THEN 1 ELSE value

\* Mutated: a day that has passed stays in this month, or a month is added to
\* the issue date instead.
ThisMonthDayPassed(d, n) == MonthDay(d, n)
MonthAfterIssue(d, n) == IF MonthDay(d, n) < d THEN AddMonth(d) ELSE MonthDay(d, n)

ThisMonthDay(d, n) ==
    IF MonthDay(d, n) < d THEN AddMonth(MonthDay(d, n)) ELSE MonthDay(d, n)

DueDate(d, t) ==
    CASE t.type = "DAYS"           -> d + DayCount(t.value)
      [] t.type = "THIS_MONTH_DAY" -> ThisMonthDay(d, DayOr1(t.value))
      [] t.type = "NEXT_MONTH_DAY" -> MonthDay(AddMonth(d), DayOr1(t.value))
      [] t.type = "THIS_MONTH_END" -> MonthEnd(d)
      [] t.type = "NEXT_MONTH_END" -> MonthEnd(AddMonth(d))

-----------------------------------------------------------------------------
Live == {i \in InvoiceIds : issued[i] # None}
DatesOf(is) == {issued[i] : i \in is}

\* Mutated: the earliest date.
IsEarliest(d, ds) == d \in ds /\ \A e \in ds : d <= e
IsLatest(d, ds) == d \in ds /\ \A e \in ds : e <= d

DueDates(dates, t) == {DueDate(d, t) : d \in dates}

DefaultTerms == [type |-> "DAYS", value |-> None]

Init ==
    /\ issued = [i \in InvoiceIds |-> None]
    /\ erased = {}
    /\ terms = DefaultTerms
    /\ due = None

\* createInvoice counts the deleted invoices as well.
CreateInvoice(i, d) ==
    LET dues == DueDates(DatesOf(Live) \cup erased \cup {d}, terms) IN
    /\ issued[i] = None
    /\ issued' = [issued EXCEPT ![i] = d]
    /\ \E e \in dues : IsLatest(e, dues) /\ due' = e
    /\ UNCHANGED <<erased, terms>>

\* deleteInvoice leaves the due date as it was.
DeleteInvoice(i) ==
    /\ issued[i] # None /\ Cardinality(erased) < MaxErased
    /\ issued' = [issued EXCEPT ![i] = None]
    /\ erased' = erased \cup {issued[i]}
    /\ UNCHANGED <<terms, due>>

UpdateIssuedAt(i, d) ==
    LET dues == DueDates(DatesOf(Live \ {i}) \cup {d}, terms) IN
    /\ issued[i] # None
    /\ issued' = [issued EXCEPT ![i] = d]
    /\ \E e \in dues : IsLatest(e, dues) /\ due' = e
    /\ UNCHANGED <<erased, terms>>

\* updateIssuedAt finds deleted invoices too and dates them, then the live ones
\* alone decide.
RedateDeleted(e, d) ==
    LET dues == DueDates(DatesOf(Live), terms) IN
    /\ e \in erased
    /\ \E rest \in {erased, erased \ {e}} : erased' = rest \cup {d}
    /\ IF dues = {} THEN UNCHANGED due ELSE \E u \in dues : IsLatest(u, dues) /\ due' = u
    /\ UNCHANGED <<issued, terms>>

\* The receivable exists from the first invoice on.
UpdatePaymentTerms(t) ==
    LET dues == DueDates(DatesOf(Live), t) IN
    /\ Live # {} \/ erased # {}
    /\ terms' = t
    /\ IF dues = {} THEN due' = None ELSE \E e \in dues : IsLatest(e, dues) /\ due' = e
    /\ UNCHANGED <<issued, erased>>

Next ==
    \/ \E i \in InvoiceIds :
          \/ DeleteInvoice(i)
          \/ \E d \in IssueDates : CreateInvoice(i, d) \/ UpdateIssuedAt(i, d)
    \/ \E e, d \in IssueDates : RedateDeleted(e, d)
    \/ \E t \in Terms : UpdatePaymentTerms(t)

Spec == Init /\ [][Next]_vars
-----------------------------------------------------------------------------
TypeOK ==
    /\ issued \in [InvoiceIds -> IssueDates \cup {None}]
    /\ erased \subseteq IssueDates
    /\ terms \in Terms
    /\ due \in Nat \cup {None}

\* No invoice is due before it is issued, whichever month lengths the day of
\* the terms runs over, so that no warning starts before the invoice exists.
DueNotBeforeIssue ==
    \A i \in Live : DueDate(issued[i], terms) >= issued[i]

\* Of two invoices the one issued later is not due earlier, also when one of
\* the two due dates runs over the end of a short month and the other does not.
LaterIssueLaterDue ==
    \A i, j \in Live : issued[i] <= issued[j] =>
        DueDate(issued[i], terms) <= DueDate(issued[j], terms)

\* The receivable's due date is never earlier than that of a live invoice,
\* though deleteInvoice does not recompute it and the terms may shrink.
DueCoversInvoices ==
    \A i \in Live : due # None /\ due >= DueDate(issued[i], terms)

\* The calculator says NEXT_MONTH_END is the last day of the next month.
NextMonthEndIsNextMonth ==
    \A i \in Live : terms.type = "NEXT_MONTH_END" =>
        MonthOf(DueDate(issued[i], terms)) = MonthOf(issued[i]) + 1
=============================================================================
