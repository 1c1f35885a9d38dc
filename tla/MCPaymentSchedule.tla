--------------------------- MODULE MCPaymentSchedule ---------------------------
(***************************************************************************)
(* PaymentSchedule on January to July of a common year, with the issue     *)
(* dates on which the length of a month matters.                           *)
(***************************************************************************)
EXTENDS PaymentSchedule, TLC

\* Days before January, February, ... August of a common year.
CommonYear == [m \in 0 .. 7 |-> <<0, 31, 59, 90, 120, 151, 181, 212>>[m + 1]]

\* January 1st, 29th and 31st, February 1st and 28th, March 31st.
EdgeDates == {0, 28, 30, 31, 58, 89}

\* A configuration file cannot write a negative number.
OddCounts == {-8, 60}

Interchangeable == Permutations(InvoiceIds)
=============================================================================
