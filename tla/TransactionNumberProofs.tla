------------------------ MODULE TransactionNumberProofs ------------------------
(***************************************************************************)
(* What the numbering guarantees for any workers, rows, days and numbers.  *)
(***************************************************************************)
EXTENDS TransactionNumber, TLAPS

PCs == {"idle", "check", "readInvoices", "readCollections", "insert"}

\* What a worker at step p with job j may count on.  Only an invoice's number
\* can have been asked for, and only such a number can be other than numeric.
JobOK(p, j) ==
    /\ p # "idle" => j # None
    /\ p \in {"check", "insert"} => j.number # None
    /\ j # None /\ j.row \in CollectionIds =>
          p # "check" /\ (j.number # None => j.number.seq \in Nat)

RowsOK ==
    /\ present \subseteq Rows /\ cancelled \subseteq present \cap InvoiceIds
    /\ numberOf \in [Rows -> Number \cup {None}]
    /\ \A r \in Rows \ present : numberOf[r] = None
    /\ \A k \in CollectionIds : numberOf[k] # None => numberOf[k].seq \in Nat
    /\ loose \subseteq Days

JobsOK ==
    /\ pc \in [Workers -> PCs]
    /\ job \in [Workers -> Job \cup {None}]
    /\ \A w \in Workers : JobOK(pc[w], job[w])

TypeInv == RowsOK /\ JobsOK

-----------------------------------------------------------------------------
LEMMA MoveKeeps ==
    ASSUME JobsOK, NEW w \in Workers, NEW p \in PCs, NEW j \in Job \cup {None}, JobOK(p, j),
           pc' = [pc EXCEPT ![w] = p], job' = [job EXCEPT ![w] = j]
    PROVE  JobsOK'
<1>1. pc' \in [Workers -> PCs] /\ job' \in [Workers -> Job \cup {None}] BY DEF JobsOK
<1>2. ASSUME NEW v \in Workers PROVE JobOK(pc'[v], job'[v])
  <2>1. CASE v = w BY <2>1 DEF JobsOK
  <2>2. CASE v # w
    <3>1. pc'[v] = pc[v] /\ job'[v] = job[v] BY <2>2 DEF JobsOK
    <3> QED BY <3>1 DEF JobsOK
  <2> QED BY <2>1, <2>2
<1> QED BY <1>1, <1>2 DEF JobsOK, JobOK

LEMMA FinishKeepsJobs ==
    ASSUME JobsOK, NEW w \in Workers, Finish(w) PROVE JobsOK'
<1>1. JobOK("idle", None) /\ "idle" \in PCs BY DEF JobOK, PCs
<1> QED BY <1>1, MoveKeeps DEF Finish

LEMMA StartKeeps ==
    ASSUME TypeInv, NEW w \in Workers, NEW p \in {"check", "readInvoices"}, NEW r \in Rows,
           NEW d \in Days, NEW n \in Number \cup {None}, Start(w, p, r, d, n),
           p = "check" => n # None /\ r \in InvoiceIds,
           p = "readInvoices" => n = None
    PROVE  TypeInv'
<1> DEFINE j == [row |-> r, day |-> d, number |-> n, highest |-> 0]
<1>1. j \in Job /\ j # None BY NumberAssumption DEF Job
<1>2. JobOK(p, j) BY <1>1, NumberAssumption DEF JobOK
<1>3. p \in PCs BY DEF PCs
<1>4. pc' = [pc EXCEPT ![w] = p] /\ job' = [job EXCEPT ![w] = j] BY DEF Start
<1> HIDE DEF j
<1>5. JobsOK' BY <1>1, <1>2, <1>3, <1>4, MoveKeeps DEF TypeInv
<1>6. loose' \subseteq Days
  <2>1. \A v \in Workers : pc[v] # "idle" => job[v].day \in Days
      BY DEF TypeInv, JobsOK, JobOK, Job
  <2>2. n # None => n.day \in Days BY DEF Number
  <2> QED BY <2>1, <2>2 DEF Start, TypeInv, RowsOK
<1>7. RowsOK' BY <1>6 DEF Start, TypeInv, RowsOK
<1> QED BY <1>5, <1>7 DEF TypeInv

LEMMA AdvanceKeeps ==
    ASSUME TypeInv, NEW w \in Workers, NEW from, NEW p \in PCs, NEW j \in Job,
           Advance(w, from, p, j), JobOK(p, j)
    PROVE  TypeInv'
<1>1. JobsOK' BY MoveKeeps DEF Advance, TypeInv
<1>2. RowsOK' BY DEF Advance, TypeInv, RowsOK
<1> QED BY <1>1, <1>2 DEF TypeInv

\* The sequence numbers the generator reads are natural numbers: those of the
\* collections always are, those of the invoices when the cast succeeds.
LEMMA InvoiceSeqsNat ==
    ASSUME TypeInv, NEW d \in Days, Castable(InvoiceIds, d)
    PROVE  Seqs(InvoiceIds, d) \subseteq Nat
<1> SUFFICES ASSUME NEW r \in Numbered(InvoiceIds, d) PROVE numberOf[r].seq \in Nat
    BY DEF Seqs
<1> QED BY DEF Numbered, TypeInv, RowsOK, Castable, Number

LEMMA CollectionSeqsNat ==
    ASSUME TypeInv, NEW d \in Days PROVE Seqs(CollectionIds, d) \subseteq Nat
<1> SUFFICES ASSUME NEW r \in Numbered(CollectionIds, d) PROVE numberOf[r].seq \in Nat
    BY DEF Seqs
<1> QED BY DEF Numbered, TypeInv, RowsOK

LEMMA RequestKeepsType ==
    ASSUME TypeInv, NEW w \in Workers, Request(w) PROVE TypeInv'
<1>1. ASSUME NEW d \in Days, NEW i \in InvoiceIds, CreateInvoice(w, i, d) PROVE TypeInv'
  <2>1. CASE Start(w, "readInvoices", i, d, None) BY <2>1, StartKeeps DEF Rows
  <2>2. ASSUME NEW n \in RequestedNumbers, Start(w, "check", i, d, n) PROVE TypeInv'
    <3>1. n \in Number /\ n # None BY NumberAssumption
    <3> QED BY <2>2, <3>1, StartKeeps DEF Rows
  <2> QED BY <1>1, <2>1, <2>2 DEF CreateInvoice
<1>2. ASSUME NEW d \in Days, NEW k \in CollectionIds, CollectByCustomer(w, k, d) PROVE TypeInv'
    BY <1>2, StartKeeps DEF CollectByCustomer, Rows
<1> QED BY <1>1, <1>2 DEF Request

LEMMA ProceedKeepsType ==
    ASSUME TypeInv, NEW w \in Workers, Proceed(w) PROVE TypeInv'
<1>j. pc[w] # "idle" => job[w] \in Job /\ JobOK(pc[w], job[w]) BY DEF TypeInv, JobsOK, JobOK
<1>f. ASSUME Finish(w), UNCHANGED <<present, cancelled, numberOf>> PROVE TypeInv'
    BY <1>f, FinishKeepsJobs DEF TypeInv, RowsOK, Finish
<1>1. CASE KeepRequested(w)
  <2>1. job[w] \in Job /\ JobOK("insert", job[w]) BY <1>1, <1>j DEF KeepRequested, JobOK
  <2> QED BY <1>1, <2>1, AdvanceKeeps DEF KeepRequested, PCs
<1>2. CASE ReplaceRequested(w)
  <2> DEFINE j == [job[w] EXCEPT !.number = None]
  <2>0. pc[w] = "check" /\ Advance(w, "check", "readInvoices", j) BY <1>2 DEF ReplaceRequested
  <2>1. j \in Job /\ j.number = None BY <1>j, <2>0 DEF Job
  <2> HIDE DEF j
  <2>2. JobOK("readInvoices", j) BY <2>1, NumberAssumption DEF JobOK
  <2> QED BY <2>0, <2>1, <2>2, AdvanceKeeps DEF PCs
<1>3. CASE ReadInvoices(w)
  <2>1. PICK h \in Seqs(InvoiceIds, job[w].day) :
          Advance(w, "readInvoices", "readCollections", [job[w] EXCEPT !.highest = h])
      BY <1>3 DEF ReadInvoices
  <2> DEFINE j == [job[w] EXCEPT !.highest = h]
  <2>2. job[w] \in Job /\ JobOK("readInvoices", job[w])
      BY <1>3, <1>j DEF ReadInvoices
  <2>3. h \in Nat BY <1>3, <2>2, InvoiceSeqsNat DEF ReadInvoices, Job
  <2>4. j \in Job /\ j.number = job[w].number /\ j.row = job[w].row BY <2>2, <2>3 DEF Job
  <2>5. Advance(w, "readInvoices", "readCollections", j) BY <2>1
  <2> HIDE DEF j
  <2>6. JobOK("readCollections", j) BY <2>2, <2>4, NumberAssumption DEF JobOK
  <2> QED BY <2>4, <2>5, <2>6, AdvanceKeeps DEF PCs
<1>4. CASE ReadCollections(w)
  <2>1. PICK h \in Seqs(CollectionIds, job[w].day) :
          Advance(w, "readCollections", "insert",
                  [job[w] EXCEPT !.number =
                      [day |-> job[w].day,
                       seq |-> (IF h > job[w].highest THEN h ELSE job[w].highest) + 1]])
      BY <1>4 DEF ReadCollections
  <2> DEFINE top == IF h > job[w].highest THEN h ELSE job[w].highest
             n == [day |-> job[w].day, seq |-> top + 1]
             j == [job[w] EXCEPT !.number = n]
  <2>2. job[w] \in Job BY <1>4, <1>j DEF ReadCollections
  <2>3. h \in Nat /\ job[w].highest \in Nat /\ job[w].day \in Days
      BY <2>2, CollectionSeqsNat DEF Job
  <2>4. top + 1 \in Nat BY <2>3
  <2>5. n \in Number /\ n # None /\ n.seq \in Nat BY <2>3, <2>4, NumberAssumption DEF Number
  <2>6. j \in Job /\ j.number = n BY <2>2, <2>5 DEF Job
  <2>7. Advance(w, "readCollections", "insert", j) BY <2>1
  <2> HIDE DEF j, n
  <2>8. JobOK("insert", j) BY <2>5, <2>6, NumberAssumption DEF JobOK
  <2> QED BY <2>6, <2>7, <2>8, AdvanceKeeps DEF PCs
<1>5. CASE GenerationFails(w) BY <1>5, <1>f DEF GenerationFails
<1>6. CASE InsertRefused(w) BY <1>6, <1>f DEF InsertRefused
<1>7. CASE Insert(w)
  <2> DEFINE r == job[w].row
             n == job[w].number
  <2>a. pc[w] = "insert" BY <1>7 DEF Insert
  <2>b. job[w] \in Job /\ JobOK("insert", job[w]) BY <2>a, <1>j
  <2>0. job[w] \in Job /\ job[w] # None /\ JobOK("insert", job[w])
      BY <2>b, NumberAssumption
  <2>1. r \in Rows /\ n \in Number /\ (r \in CollectionIds => n.seq \in Nat)
      BY <2>0 DEF Job, JobOK
  <2>2. /\ present' = present \cup {r} /\ numberOf' = [numberOf EXCEPT ![r] = n]
        /\ UNCHANGED cancelled /\ Finish(w)
      BY <1>7 DEF Insert
  <2> HIDE DEF r, n
  <2>3. RowsOK' BY <2>1, <2>2 DEF TypeInv, RowsOK, Finish
  <2> QED BY <2>2, <2>3, FinishKeepsJobs DEF TypeInv
<1> QED BY <1>1, <1>2, <1>3, <1>4, <1>5, <1>6, <1>7 DEF Proceed

LEMMA RowActionsKeepType ==
    ASSUME TypeInv, UNCHANGED <<pc, job>>, RowsOK' PROVE TypeInv'
BY DEF TypeInv, JobsOK, JobOK

LEMMA TypeInvHolds == Spec => []TypeInv
<1>1. Init => TypeInv
  <2> SUFFICES ASSUME Init PROVE TypeInv OBVIOUS
  <2>1. RowsOK BY DEF Init, RowsOK, Rows
  <2>2. JobOK("idle", None) BY DEF JobOK
  <2>3. JobsOK BY <2>2 DEF Init, JobsOK, PCs
  <2> QED BY <2>1, <2>3 DEF TypeInv
<1>2. TypeInv /\ [Next]_vars => TypeInv'
  <2> SUFFICES ASSUME TypeInv, [Next]_vars PROVE TypeInv' OBVIOUS
  <2>1. ASSUME NEW w \in Workers, Request(w) \/ Proceed(w) PROVE TypeInv'
      BY <2>1, RequestKeepsType, ProceedKeepsType
  <2>2. ASSUME NEW i \in InvoiceIds, DeleteInvoice(i) PROVE TypeInv'
    <3>1. RowsOK' BY <2>2 DEF DeleteInvoice, TypeInv, RowsOK
    <3> QED BY <2>2, <3>1, RowActionsKeepType DEF DeleteInvoice
  <2>3. ASSUME NEW i \in InvoiceIds, NEW n \in RequestedNumbers \cup {None}, UpdateInvoice(i, n)
        PROVE  TypeInv'
    <3>1. n \in Number \cup {None} /\ i \in Rows /\ i \notin CollectionIds
        BY NumberAssumption DEF Rows
    <3>2. loose' \subseteq Days BY <2>3, <3>1 DEF UpdateInvoice, TypeInv, RowsOK, Number
    <3>3. RowsOK' BY <2>3, <3>1, <3>2 DEF UpdateInvoice, TypeInv, RowsOK
    <3> QED BY <2>3, <3>3, RowActionsKeepType DEF UpdateInvoice
  <2>4. ASSUME NEW k \in CollectionIds, DeleteCollection(k) PROVE TypeInv'
    <3>1. k \in Rows /\ k \notin InvoiceIds BY NumberAssumption DEF Rows
    <3>2. RowsOK' BY <2>4, <3>1 DEF DeleteCollection, TypeInv, RowsOK
    <3> QED BY <2>4, <3>2, RowActionsKeepType DEF DeleteCollection
  <2>5. CASE UNCHANGED vars
    <3>1. RowsOK' BY <2>5 DEF vars, TypeInv, RowsOK
    <3> QED BY <2>5, <3>1, RowActionsKeepType DEF vars
  <2> QED BY <2>1, <2>2, <2>3, <2>4, <2>5 DEF Next
<1> QED BY <1>1, <1>2, PTL DEF Spec

\* A worker about to insert has a number, and only rows that exist have one.
THEOREM TypeCorrect == Spec => []TypeOK
<1>1. TypeInv => TypeOK BY DEF TypeInv, RowsOK, JobsOK, JobOK, PCs, TypeOK
<1> QED BY <1>1, TypeInvHolds, PTL

-----------------------------------------------------------------------------
(* A day on which no two requests overlapped and no number was asked for.   *)
(* The number a request holds is above all others of the day when it is      *)
(* inserted, because only that request can have added one since it read      *)
(* them: deletions and cancellations add none, and other days do not count.  *)

AtOrBelow(S, day, h) ==
    \A r \in S : numberOf[r] # None /\ numberOf[r].day = day => numberOf[r].seq <= h

JobsApart ==
    \A v, w \in Workers : v # w /\ pc[v] # "idle" /\ pc[w] # "idle" /\ job[v].day = job[w].day
        => job[w].day \in loose

RowsNumeric ==
    \A r \in present : numberOf[r] # None /\ numberOf[r].day \notin loose => numberOf[r].seq \in Nat

\* What a worker at step p with job j has read of the rows it needs.
HasRead(p, j) ==
    /\ p = "check" => j.number.day \in loose
    /\ p = "readCollections" /\ j.day \notin loose =>
           AtOrBelow(present \cap InvoiceIds, j.day, j.highest)
    /\ p = "insert" /\ j.number.day \notin loose =>
           /\ j.number.day = j.day /\ j.number.seq \in Nat \ {0}
           /\ AtOrBelow(present, j.day, j.number.seq - 1)

DayInv ==
    /\ JobsApart /\ RowsNumeric /\ NoDuplicateNumbers
    /\ \A w \in Workers : HasRead(pc[w], job[w])

\* Rows that are removed, cancelled or lose their number change nothing, and
\* neither does a day that becomes loose.
LEMMA ReadKept ==
    ASSUME NEW p, NEW j, HasRead(p, j), loose \subseteq loose', present' \subseteq present,
           \A r \in present' : numberOf'[r] # None =>
               numberOf'[r] = numberOf[r] \/ numberOf'[r].day \in loose',
           p = "insert" => j.number # None
    PROVE  HasRead(p, j)'
BY DEF HasRead, AtOrBelow

LEMMA RowsKept ==
    ASSUME RowsNumeric, NoDuplicateNumbers, loose \subseteq loose', present' \subseteq present,
           \A r \in present' : numberOf'[r] # None =>
               numberOf'[r] = numberOf[r] \/ numberOf'[r].day \in loose'
    PROVE  RowsNumeric' /\ NoDuplicateNumbers'
<1>1. RowsNumeric' BY DEF RowsNumeric
<1>2. NoDuplicateNumbers'
  <2> SUFFICES ASSUME NEW r \in present', NEW s \in present', r # s, numberOf'[r] # None,
                      numberOf'[r] = numberOf'[s], numberOf'[r].day \notin loose'
               PROVE  FALSE
      BY DEF NoDuplicateNumbers
  <2>1. numberOf'[r] = numberOf[r] /\ numberOf'[s] = numberOf[s] OBVIOUS
  <2> QED BY <2>1 DEF NoDuplicateNumbers
<1> QED BY <1>1, <1>2

LEMMA RowStep ==
    ASSUME TypeInv, DayInv, UNCHANGED <<pc, job>>, loose \subseteq loose',
           present' \subseteq present,
           \A r \in present' : numberOf'[r] # None =>
               numberOf'[r] = numberOf[r] \/ numberOf'[r].day \in loose'
    PROVE  DayInv'
<1>1. JobsApart' BY DEF DayInv, JobsApart
<1>2. RowsNumeric' /\ NoDuplicateNumbers' BY RowsKept DEF DayInv
<1>3. ASSUME NEW w \in Workers PROVE HasRead(pc[w], job[w])'
  <2>1. pc[w] = "insert" => job[w].number # None BY DEF TypeInv, JobsOK, JobOK
  <2>2. HasRead(pc[w], job[w]) BY DEF DayInv
  <2> QED BY <2>1, <2>2 DEF HasRead, AtOrBelow
<1> QED BY <1>1, <1>2, <1>3 DEF DayInv

\* The worker that moves keeps its day, or starts on a day that is marked loose
\* when another has it; what the others have read still holds.
LEMMA WorkerStep ==
    ASSUME TypeInv, DayInv, NEW w \in Workers, NEW p \in PCs, NEW j \in Job \cup {None},
           pc' = [pc EXCEPT ![w] = p], job' = [job EXCEPT ![w] = j],
           loose \subseteq loose', UNCHANGED <<present, numberOf>>,
           \A v \in Workers : v # w /\ p # "idle" /\ pc[v] # "idle" /\ job[v].day = j.day
               => j.day \in loose',
           HasRead(p, j)'
    PROVE  DayInv'
<1>1. /\ pc'[w] = p /\ job'[w] = j
      /\ \A v \in Workers : v # w => pc'[v] = pc[v] /\ job'[v] = job[v]
    BY DEF TypeInv, JobsOK
<1>2. JobsApart'
  <2> SUFFICES ASSUME NEW v \in Workers, NEW u \in Workers, v # u, pc'[v] # "idle",
                      pc'[u] # "idle", job'[v].day = job'[u].day
               PROVE  job'[u].day \in loose'
      BY DEF JobsApart
  <2>1. CASE v = w BY <1>1, <2>1
  <2>2. CASE u = w BY <1>1, <2>2
  <2>3. CASE v # w /\ u # w BY <1>1, <2>3 DEF DayInv, JobsApart
  <2> QED BY <2>1, <2>2, <2>3
<1>3. RowsNumeric' /\ NoDuplicateNumbers' BY RowsKept DEF DayInv
<1>4. ASSUME NEW v \in Workers PROVE HasRead(pc[v], job[v])'
  <2>1. CASE v = w BY <1>1, <2>1 DEF HasRead, AtOrBelow
  <2>2. CASE v # w
    <3>1. pc[v] = "insert" => job[v].number # None BY DEF TypeInv, JobsOK, JobOK
    <3>2. HasRead(pc[v], job[v]) BY DEF DayInv
    <3> QED BY <1>1, <2>2, <3>1, <3>2 DEF HasRead, AtOrBelow
  <2> QED BY <2>1, <2>2
<1> QED BY <1>2, <1>3, <1>4 DEF DayInv

LEMMA StartStep ==
    ASSUME TypeInv, DayInv, NEW w \in Workers, NEW r \in Rows, NEW d \in Days,
           NEW n \in Number \cup {None}, NEW p \in {"check", "readInvoices"},
           Start(w, p, r, d, n), p = "check" => n # None
    PROVE  DayInv'
<1> DEFINE j == [row |-> r, day |-> d, number |-> n, highest |-> 0]
<1>1. j \in Job /\ j.day = d /\ j.number = n BY DEF Job
<1>2. /\ pc' = [pc EXCEPT ![w] = p] /\ job' = [job EXCEPT ![w] = j] /\ pc[w] = "idle"
      /\ UNCHANGED <<present, numberOf>> /\ loose \subseteq loose'
      /\ n # None => n.day \in loose'
      /\ \A v \in Workers : pc[v] # "idle" /\ job[v].day = d => d \in loose'
    BY DEF Start
<1> HIDE DEF j
<1>3. HasRead(p, j)' BY <1>1, <1>2 DEF HasRead
<1>4. p \in PCs BY DEF PCs
<1> QED BY <1>1, <1>2, <1>3, <1>4, WorkerStep

LEMMA AdvanceStep ==
    ASSUME TypeInv, DayInv, NEW w \in Workers, NEW from, from # "idle", NEW p \in PCs,
           NEW j \in Job, Advance(w, from, p, j), j.day = job[w].day, HasRead(p, j)
    PROVE  DayInv'
<1>1. /\ pc' = [pc EXCEPT ![w] = p] /\ job' = [job EXCEPT ![w] = j] /\ pc[w] # "idle"
      /\ UNCHANGED <<present, numberOf, loose>>
    BY DEF Advance
<1>2. HasRead(p, j)' BY <1>1 DEF HasRead, AtOrBelow
<1>3. \A v \in Workers : v # w /\ pc[v] # "idle" /\ job[v].day = j.day => j.day \in loose'
    BY <1>1 DEF DayInv, JobsApart
<1> QED BY <1>1, <1>2, <1>3, WorkerStep

LEMMA FinishStep ==
    ASSUME TypeInv, DayInv, NEW w \in Workers, Finish(w), UNCHANGED <<present, numberOf>>
    PROVE  DayInv'
<1>1. HasRead("idle", None)' /\ "idle" \in PCs BY DEF HasRead, PCs
<1> QED BY <1>1, WorkerStep DEF Finish

LEMMA InsertStep ==
    ASSUME TypeInv, DayInv, NEW w \in Workers, Insert(w) PROVE DayInv'
<1> DEFINE r == job[w].row
           n == job[w].number
<1>1. pc[w] = "insert" /\ job[w] \in Job /\ n # None
    BY DEF Insert, TypeInv, JobsOK, JobOK
<1>2. r \in Rows BY <1>1 DEF Job
<1>3. n.day \notin loose =>
        n.day = job[w].day /\ n.seq \in Nat \ {0} /\ AtOrBelow(present, n.day, n.seq - 1)
    BY <1>1 DEF DayInv, HasRead
<1>4. /\ present' = present \cup {r} /\ numberOf' = [numberOf EXCEPT ![r] = n]
      /\ UNCHANGED loose
    BY DEF Insert, Finish
<1>5. /\ pc'[w] = "idle"
      /\ \A v \in Workers : v # w => pc'[v] = pc[v] /\ job'[v] = job[v]
    BY DEF Insert, Finish, TypeInv, JobsOK
<1>6. n.day \notin loose =>
        \A v \in Workers : v # w /\ pc[v] # "idle" => job[v].day # n.day
    BY <1>1, <1>3 DEF DayInv, JobsApart
<1> HIDE DEF r, n
<1>7. numberOf'[r] = n /\ \A s \in present : s # r => numberOf'[s] = numberOf[s]
    BY <1>2, <1>4 DEF TypeInv, RowsOK
<1>8. JobsApart'
    BY <1>4, <1>5 DEF DayInv, JobsApart
<1>9. RowsNumeric'
    BY <1>3, <1>4, <1>7 DEF DayInv, RowsNumeric
<1>10. NoDuplicateNumbers'
  <2>1. ASSUME NEW s \in present, s # r, numberOf[s] = n, n.day \notin loose PROVE FALSE
    <3>1. n.seq <= n.seq - 1 BY <1>1, <1>3, <2>1 DEF AtOrBelow, n
    <3> QED BY <1>3, <2>1, <3>1
  <2> SUFFICES ASSUME NEW s \in present', NEW t \in present', s # t, numberOf'[s] # None,
                      numberOf'[s] = numberOf'[t], numberOf'[s].day \notin loose
               PROVE  FALSE
      BY <1>4 DEF NoDuplicateNumbers
  <2>2. CASE s = r BY <1>4, <1>7, <2>1, <2>2
  <2>3. CASE t = r BY <1>4, <1>7, <2>1, <2>3
  <2>4. CASE s # r /\ t # r BY <1>4, <1>7, <2>4 DEF DayInv, NoDuplicateNumbers
  <2> QED BY <2>2, <2>3, <2>4
<1>11. ASSUME NEW v \in Workers PROVE HasRead(pc[v], job[v])'
  <2>1. CASE v = w BY <1>5, <2>1 DEF HasRead
  <2>2. CASE v # w
    <3>1. HasRead(pc[v], job[v]) /\ pc'[v] = pc[v] /\ job'[v] = job[v] /\ loose' = loose
        BY <1>4, <1>5, <2>2 DEF DayInv
    <3>2. CASE pc[v] = "readCollections" /\ job[v].day \notin loose
      <4>1. n.day # job[v].day BY <1>6, <2>2, <3>2
      <4>2. AtOrBelow(present \cap InvoiceIds, job[v].day, job[v].highest)
          BY <3>1, <3>2 DEF HasRead
      <4>3. AtOrBelow(present \cap InvoiceIds, job[v].day, job[v].highest)'
          BY <1>4, <1>7, <3>1, <4>1, <4>2 DEF AtOrBelow
      <4> QED BY <3>1, <3>2, <4>3 DEF HasRead
    <3>3. CASE pc[v] = "insert" /\ job[v].number.day \notin loose
      <4>0. /\ job[v].number.day = job[v].day /\ job[v].number.seq \in Nat \ {0}
            /\ AtOrBelow(present, job[v].day, job[v].number.seq - 1)
          BY <3>1, <3>3 DEF HasRead
      <4>1. n.day # job[v].day BY <1>6, <2>2, <3>3, <4>0
      <4>2. AtOrBelow(present, job[v].day, job[v].number.seq - 1)'
          BY <1>4, <1>7, <3>1, <4>1, <4>0 DEF AtOrBelow
      <4> QED BY <3>1, <3>3, <4>0, <4>2 DEF HasRead
    <3>4. CASE /\ ~(pc[v] = "readCollections" /\ job[v].day \notin loose)
               /\ ~(pc[v] = "insert" /\ job[v].number.day \notin loose)
        BY <3>1, <3>4 DEF HasRead
    <3> QED BY <3>2, <3>3, <3>4
  <2> QED BY <2>1, <2>2
<1> QED BY <1>8, <1>9, <1>10, <1>11 DEF DayInv

LEMMA ProceedStep ==
    ASSUME TypeInv, DayInv, NEW w \in Workers, Proceed(w) PROVE DayInv'
<1>0. pc[w] # "idle" => job[w] \in Job
    BY DEF TypeInv, JobsOK, JobOK
<1>h. HasRead(pc[w], job[w]) BY DEF DayInv
<1>1. CASE KeepRequested(w)
  <2>1. pc[w] = "check" /\ Advance(w, "check", "insert", job[w]) BY <1>1 DEF KeepRequested
  <2>2. HasRead("insert", job[w]) BY <1>h, <2>1 DEF HasRead
  <2> QED BY <1>0, <2>1, <2>2, AdvanceStep DEF PCs
<1>2. CASE ReplaceRequested(w)
  <2> DEFINE j == [job[w] EXCEPT !.number = None]
  <2>1. pc[w] = "check" /\ Advance(w, "check", "readInvoices", j) BY <1>2 DEF ReplaceRequested
  <2>2. j \in Job /\ j.day = job[w].day BY <1>0, <2>1 DEF Job
  <2> HIDE DEF j
  <2>3. HasRead("readInvoices", j) BY DEF HasRead
  <2> QED BY <2>1, <2>2, <2>3, AdvanceStep DEF PCs
<1>3. CASE ReadInvoices(w)
  <2>1. PICK h \in Seqs(InvoiceIds, job[w].day) :
          /\ IsHighest(h, Seqs(InvoiceIds, job[w].day))
          /\ Advance(w, "readInvoices", "readCollections", [job[w] EXCEPT !.highest = h])
      BY <1>3 DEF ReadInvoices
  <2> DEFINE j == [job[w] EXCEPT !.highest = h]
  <2>2. pc[w] = "readInvoices" /\ job[w] \in Job BY <1>0, <1>3 DEF ReadInvoices
  <2>3. h \in Nat BY <1>3, <2>2, InvoiceSeqsNat DEF ReadInvoices, Job
  <2>4. j \in Job /\ j.day = job[w].day /\ j.highest = h BY <2>2, <2>3 DEF Job
  <2>5. Advance(w, "readInvoices", "readCollections", j) BY <2>1
  <2>6. \A r \in present \cap InvoiceIds :
          numberOf[r] # None /\ numberOf[r].day = job[w].day => numberOf[r].seq <= h
      BY <2>1 DEF IsHighest, Seqs, Numbered
  <2> HIDE DEF j
  <2>7. HasRead("readCollections", j) BY <2>4, <2>6 DEF HasRead, AtOrBelow
  <2> QED BY <2>4, <2>5, <2>7, AdvanceStep DEF PCs
<1>4. CASE ReadCollections(w)
  <2>1. PICK h \in Seqs(CollectionIds, job[w].day) :
          /\ IsHighest(h, Seqs(CollectionIds, job[w].day))
          /\ Advance(w, "readCollections", "insert",
                  [job[w] EXCEPT !.number =
                      [day |-> job[w].day,
                       seq |-> (IF h > job[w].highest THEN h ELSE job[w].highest) + 1]])
      BY <1>4 DEF ReadCollections
  <2> DEFINE top == IF h > job[w].highest THEN h ELSE job[w].highest
             n == [day |-> job[w].day, seq |-> top + 1]
             j == [job[w] EXCEPT !.number = n]
  <2>2. pc[w] = "readCollections" /\ job[w] \in Job BY <1>0, <1>4 DEF ReadCollections
  <2>3. h \in Nat /\ job[w].highest \in Nat /\ job[w].day \in Days
      BY <2>2, CollectionSeqsNat DEF Job
  <2>4. top \in Nat /\ h <= top /\ job[w].highest <= top BY <2>3
  <2> HIDE DEF top
  <2>5. n \in Number /\ n.day = job[w].day /\ n.seq \in Nat \ {0} /\ n.seq - 1 = top
      BY <2>3, <2>4 DEF Number
  <2>6. j \in Job /\ j.number = n /\ j.day = job[w].day BY <2>2, <2>5 DEF Job
  <2>7. Advance(w, "readCollections", "insert", j) BY <2>1 DEF top
  <2>8. ASSUME job[w].day \notin loose, NEW r \in present, numberOf[r] # None,
               numberOf[r].day = job[w].day
        PROVE  numberOf[r].seq <= top
    <3>0. numberOf[r].seq \in Nat BY <2>8 DEF DayInv, RowsNumeric
    <3>1. CASE r \in InvoiceIds
      <4>1. numberOf[r].seq <= job[w].highest BY <1>h, <2>2, <2>8, <3>1 DEF HasRead, AtOrBelow
      <4> QED BY <2>3, <2>4, <3>0, <4>1
    <3>2. CASE r \in CollectionIds
      <4>1. numberOf[r].seq <= h BY <2>1, <2>8, <3>2 DEF IsHighest, Seqs, Numbered
      <4> QED BY <2>3, <2>4, <3>0, <4>1
    <3> QED BY <3>1, <3>2 DEF TypeInv, RowsOK, Rows
  <2> HIDE DEF j, n
  <2>9. HasRead("insert", j) BY <2>5, <2>6, <2>8 DEF HasRead, AtOrBelow
  <2> QED BY <2>6, <2>7, <2>9, AdvanceStep DEF PCs
<1>5. CASE GenerationFails(w) \/ InsertRefused(w)
    BY <1>5, FinishStep DEF GenerationFails, InsertRefused
<1>6. CASE Insert(w) BY <1>6, InsertStep
<1> QED BY <1>1, <1>2, <1>3, <1>4, <1>5, <1>6 DEF Proceed

LEMMA DayStep == TypeInv /\ DayInv /\ [Next]_vars => DayInv'
<1> SUFFICES ASSUME TypeInv, DayInv, [Next]_vars PROVE DayInv' OBVIOUS
<1>1. ASSUME NEW w \in Workers, Request(w) PROVE DayInv'
  <2>1. ASSUME NEW d \in Days, NEW i \in InvoiceIds, CreateInvoice(w, i, d) PROVE DayInv'
    <3>1. CASE Start(w, "readInvoices", i, d, None) BY <3>1, StartStep DEF Rows
    <3>2. ASSUME NEW n \in RequestedNumbers, Start(w, "check", i, d, n) PROVE DayInv'
      <4>1. n \in Number /\ n # None BY NumberAssumption
      <4> QED BY <3>2, <4>1, StartStep DEF Rows
    <3> QED BY <2>1, <3>1, <3>2 DEF CreateInvoice
  <2>2. ASSUME NEW d \in Days, NEW k \in CollectionIds, CollectByCustomer(w, k, d) PROVE DayInv'
      BY <2>2, StartStep DEF CollectByCustomer, Rows
  <2> QED BY <1>1, <2>1, <2>2 DEF Request
<1>2. ASSUME NEW w \in Workers, Proceed(w) PROVE DayInv' BY <1>2, ProceedStep
<1>3. ASSUME NEW i \in InvoiceIds, DeleteInvoice(i) PROVE DayInv'
    BY <1>3, RowStep DEF DeleteInvoice
<1>4. ASSUME NEW i \in InvoiceIds, NEW n \in RequestedNumbers \cup {None}, UpdateInvoice(i, n)
      PROVE  DayInv'
  <2>0. /\ numberOf' = [numberOf EXCEPT ![i] = n] /\ UNCHANGED <<present, pc, job>>
        /\ loose' = loose \cup {m.day : m \in {n} \ {None}}
      BY <1>4 DEF UpdateInvoice
  <2>1. /\ numberOf' = [numberOf EXCEPT ![i] = n] /\ UNCHANGED <<present, pc, job>>
        /\ loose \subseteq loose'
        /\ n # None => n.day \in loose'
      BY <2>0
  <2>2. i \in Rows /\ present \subseteq Rows /\ numberOf \in [Rows -> Number \cup {None}]
      BY DEF Rows, TypeInv, RowsOK
  <2>3. ASSUME NEW r \in present, numberOf'[r] # None
        PROVE  numberOf'[r] = numberOf[r] \/ numberOf'[r].day \in loose'
    <3>1. CASE r = i
      <4>1. numberOf'[r] = n BY <2>1, <2>2, <3>1
      <4> QED BY <2>1, <2>3, <4>1
    <3>2. CASE r # i BY <2>1, <2>2, <3>2
    <3> QED BY <3>1, <3>2
  <2>4. present' \subseteq present /\ \A r \in present' : numberOf'[r] # None =>
            numberOf'[r] = numberOf[r] \/ numberOf'[r].day \in loose'
      BY <2>1, <2>3
  <2>5. UNCHANGED <<pc, job>> /\ loose \subseteq loose' BY <2>1
  <2> QED BY <2>4, <2>5, RowStep
<1>5. ASSUME NEW k \in CollectionIds, DeleteCollection(k) PROVE DayInv'
  <2>1. \A r \in present : numberOf'[r] # None => numberOf'[r] = numberOf[r]
      BY <1>5 DEF DeleteCollection, TypeInv, RowsOK
  <2> QED BY <1>5, <2>1, RowStep DEF DeleteCollection
<1>6. CASE UNCHANGED vars BY <1>6, RowStep DEF vars
<1> QED BY <1>1, <1>2, <1>3, <1>4, <1>5, <1>6 DEF Next

LEMMA DayInvHolds == Spec => []DayInv
<1>1. Init => DayInv
    BY DEF Init, DayInv, JobsApart, RowsNumeric, NoDuplicateNumbers, HasRead
<1> QED BY <1>1, DayStep, TypeInvHolds, PTL DEF Spec

\* On a day on which requests come one at a time and none asks for a number, no two
\* rows of either table share one, whatever other days see: MAX + 1 over both
\* tables is enough.
THEOREM OrderlyNumbersUnique == Spec => []NoDuplicateNumbers
<1>1. DayInv => NoDuplicateNumbers BY DEF DayInv
<1> QED BY <1>1, DayInvHolds, PTL

\* On such a day no request is refused: the number it generates is free when it is
\* inserted, for it is above those of the cancelled invoices too, and every number
\* read can be cast.
THEOREM OrderlyNeverRefused == Spec => NeverRefused
<1> DEFINE A == \A w \in Workers : /\ InsertRefused(w) => job[w].number.day \in loose
                                   /\ GenerationFails(w) => job[w].day \in loose
<1>1. TypeInv /\ DayInv /\ [Next]_vars => [A]_vars
  <2> SUFFICES ASSUME TypeInv, DayInv, NEW w \in Workers
               PROVE  /\ InsertRefused(w) => job[w].number.day \in loose
                      /\ GenerationFails(w) => job[w].day \in loose
      OBVIOUS
  <2>1. ASSUME InsertRefused(w), job[w].number.day \notin loose PROVE FALSE
    <3>1. PICK r \in present \cap InvoiceIds : job[w].number = numberOf[r]
        BY <2>1 DEF InsertRefused, TakenByInvoice
    <3>2. pc[w] = "insert" /\ job[w].number # None
        BY <2>1 DEF InsertRefused, TypeInv, JobsOK, JobOK
    <3>3. /\ job[w].number.seq \in Nat \ {0}
          /\ AtOrBelow(present, job[w].number.day, job[w].number.seq - 1)
        BY <2>1, <3>2 DEF DayInv, HasRead
    <3>4. numberOf[r].seq <= numberOf[r].seq - 1
        BY <3>1, <3>2, <3>3 DEF AtOrBelow
    <3> QED BY <3>1, <3>3, <3>4
  <2>2. ASSUME GenerationFails(w), job[w].day \notin loose PROVE FALSE
    <3>1. PICK r \in present :
            numberOf[r] # None /\ numberOf[r].day = job[w].day /\ numberOf[r].seq = Text
        BY <2>2 DEF GenerationFails, Castable, Numbered
    <3>2. numberOf[r].seq \in Nat
        BY <2>2, <3>1 DEF DayInv, RowsNumeric
    <3> QED BY <3>1, <3>2, NumberAssumption
  <2> QED BY <2>1, <2>2
<1> QED BY <1>1, DayInvHolds, TypeInvHolds, PTL DEF Spec, NeverRefused

=============================================================================
