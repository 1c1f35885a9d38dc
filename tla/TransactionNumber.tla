--------------------------- MODULE TransactionNumber ---------------------------
(***************************************************************************)
(* The numbers invoices and collections share: <day>-<sequence>, generated *)
(* as one more than the highest of the day.  The generator runs two MAX    *)
(* queries, one per table, on a connection of its own, so it sees only     *)
(* what is committed; the row that carries the number is inserted later,   *)
(* by the transaction that asked for it.  tb_invoice.iv_invoice_number is  *)
(* unique, tb_receivable_collection.rc_collection_number is not.           *)
(***************************************************************************)
EXTENDS Integers

CONSTANTS
    Workers, InvoiceIds, CollectionIds, Days,
    RequestedNumbers,  \* numbers an API client may ask for; the forms ask for none
    Text,              \* a sequence part that is not a number
    MaxSeq,            \* bound: no request starts on a day that has reached it
    None

Rows == InvoiceIds \cup CollectionIds
Number == [day: Days, seq: Nat \cup {Text}]
Job == [row: Rows, day: Days, number: Number \cup {None}, highest: Nat]

ASSUME NumberAssumption ==
    /\ InvoiceIds \cap CollectionIds = {}
    /\ RequestedNumbers \subseteq Number
    /\ Text \notin Int /\ None \notin Number \cup Job
    /\ MaxSeq \in Nat

VARIABLES
    present,    \* the rows that exist; a cancelled invoice keeps its row
    cancelled,  \* the invoices with iv_deleted_at set
    numberOf,   \* the number of each present row
    pc, job,
    loose       \* history: the days on which requests overlapped or a number was
                \* asked for

vars == <<present, cancelled, numberOf, pc, job, loose>>

-----------------------------------------------------------------------------
\* Mutated: cancelled invoices do not count.
NumberedLive(table, day) ==
    {r \in (present \ cancelled) \cap table : numberOf[r] # None /\ numberOf[r].day = day}
Numbered(table, day) == {r \in present \cap table : numberOf[r] # None /\ numberOf[r].day = day}

\* SPLIT_PART and CAST fail on a number whose second part is not an integer.
Castable(table, day) == \A r \in Numbered(table, day) : numberOf[r].seq # Text
Seqs(table, day) == {0} \cup {numberOf[r].seq : r \in Numbered(table, day)}
IsHighest(h, seqs) == h \in seqs /\ \A e \in seqs : e <= h

TakenByInvoice(n) == n \in {numberOf[r] : r \in present \cap InvoiceIds}

WithinBound(day) ==
    \A r \in Numbered(Rows, day) : numberOf[r].seq # Text => numberOf[r].seq < MaxSeq

Spare(r) == r \notin present /\ \A w \in Workers : pc[w] # "idle" => job[w].row # r

Start(w, step, r, d, n) ==
    /\ pc[w] = "idle" /\ Spare(r) /\ WithinBound(d)
    /\ loose' = loose \cup {job[v].day : v \in {u \in Workers : pc[u] # "idle" /\ job[u].day = d}}
                      \cup {m.day : m \in {n} \ {None}}
    /\ pc' = [pc EXCEPT ![w] = step]
    /\ job' = [job EXCEPT ![w] = [row |-> r, day |-> d, number |-> n, highest |-> 0]]
    /\ UNCHANGED <<present, cancelled, numberOf>>

Advance(w, from, to, j) ==
    /\ pc[w] = from
    /\ pc' = [pc EXCEPT ![w] = to]
    /\ job' = [job EXCEPT ![w] = j]
    /\ UNCHANGED <<present, cancelled, numberOf, loose>>

Finish(w) ==
    /\ pc' = [pc EXCEPT ![w] = "idle"]
    /\ job' = [job EXCEPT ![w] = None]
    /\ UNCHANGED loose

-----------------------------------------------------------------------------
CreateInvoice(w, i, d) ==
    \/ Start(w, "readInvoices", i, d, None)
    \/ \E n \in RequestedNumbers : Start(w, "check", i, d, n)

CollectByCustomer(w, k, d) == Start(w, "readInvoices", k, d, None)

KeepRequested(w) ==
    /\ pc[w] = "check" /\ ~TakenByInvoice(job[w].number)
    /\ Advance(w, "check", "insert", job[w])

\* Mutated: the number is dropped and no other is generated.
DropRequested(w) ==
    /\ pc[w] = "check" /\ TakenByInvoice(job[w].number)
    /\ Advance(w, "check", "insert", [job[w] EXCEPT !.number = None])

\* A requested number that an invoice already has, cancelled or not, is
\* replaced by a generated one.
ReplaceRequested(w) ==
    /\ pc[w] = "check" /\ TakenByInvoice(job[w].number)
    /\ Advance(w, "check", "readInvoices", [job[w] EXCEPT !.number = None])

ReadInvoices(w) ==
    /\ pc[w] = "readInvoices" /\ Castable(InvoiceIds, job[w].day)
    /\ \E h \in Seqs(InvoiceIds, job[w].day) :
          /\ IsHighest(h, Seqs(InvoiceIds, job[w].day))
          /\ Advance(w, "readInvoices", "readCollections", [job[w] EXCEPT !.highest = h])

\* Mutated: the numbers of the collections do not count.
InvoicesAlone(w) ==
    Advance(w, "readCollections", "insert",
            [job[w] EXCEPT !.number = [day |-> job[w].day, seq |-> job[w].highest + 1]])

ReadCollections(w) ==
    /\ pc[w] = "readCollections"
    /\ \E h \in Seqs(CollectionIds, job[w].day) :
          LET top == IF h > job[w].highest THEN h ELSE job[w].highest
          IN  /\ IsHighest(h, Seqs(CollectionIds, job[w].day))
              /\ Advance(w, "readCollections", "insert",
                         [job[w] EXCEPT !.number = [day |-> job[w].day, seq |-> top + 1]])

\* The query fails and the request with it.
GenerationFails(w) ==
    /\ pc[w] = "readInvoices" /\ ~Castable(InvoiceIds, job[w].day)
    /\ Finish(w)
    /\ UNCHANGED <<present, cancelled, numberOf>>

Insert(w) ==
    LET r == job[w].row IN
    /\ pc[w] = "insert"
    /\ r \in InvoiceIds => ~TakenByInvoice(job[w].number)
    /\ present' = present \cup {r}
    /\ numberOf' = [numberOf EXCEPT ![r] = job[w].number]
    /\ Finish(w)
    /\ UNCHANGED cancelled

\* The unique constraint rolls the transaction back; nothing retries it.
InsertRefused(w) ==
    /\ pc[w] = "insert" /\ job[w].row \in InvoiceIds
    /\ TakenByInvoice(job[w].number)
    /\ Finish(w)
    /\ UNCHANGED <<present, cancelled, numberOf>>

\* deleteInvoice keeps the row.
DeleteInvoice(i) ==
    /\ i \in present \ cancelled
    /\ cancelled' = cancelled \cup {i}
    /\ UNCHANGED <<present, numberOf, pc, job, loose>>

\* updateInvoice writes the number of the form, null when it is empty.
UpdateInvoice(i, n) ==
    /\ i \in present \ cancelled /\ n # numberOf[i]
    /\ n # None => ~TakenByInvoice(n)
    /\ numberOf' = [numberOf EXCEPT ![i] = n]
    /\ loose' = loose \cup {m.day : m \in {n} \ {None}}
    /\ UNCHANGED <<present, cancelled, pc, job>>

\* deleteCollection removes the row, and its number with it.
DeleteCollection(k) ==
    /\ k \in present
    /\ present' = present \ {k}
    /\ numberOf' = [numberOf EXCEPT ![k] = None]
    /\ UNCHANGED <<cancelled, pc, job, loose>>

-----------------------------------------------------------------------------
Init ==
    /\ present = {} /\ cancelled = {}
    /\ numberOf = [r \in Rows |-> None]
    /\ pc = [w \in Workers |-> "idle"]
    /\ job = [w \in Workers |-> None]
    /\ loose = {}

Request(w) ==
    \E d \in Days :
        \/ \E i \in InvoiceIds : CreateInvoice(w, i, d)
        \/ \E k \in CollectionIds : CollectByCustomer(w, k, d)

Proceed(w) ==
    \/ KeepRequested(w) \/ ReplaceRequested(w)
    \/ ReadInvoices(w) \/ ReadCollections(w) \/ GenerationFails(w)
    \/ Insert(w) \/ InsertRefused(w)

Next ==
    \/ \E w \in Workers : Request(w) \/ Proceed(w)
    \/ \E i \in InvoiceIds :
          \/ DeleteInvoice(i)
          \/ \E n \in RequestedNumbers \cup {None} : UpdateInvoice(i, n)
    \/ \E k \in CollectionIds : DeleteCollection(k)

Spec == Init /\ [][Next]_vars
-----------------------------------------------------------------------------
\* A worker that is about to insert has a number to insert.
TypeOK ==
    /\ present \subseteq Rows /\ cancelled \subseteq present \cap InvoiceIds
    /\ numberOf \in [Rows -> Number \cup {None}]
    /\ \A r \in Rows \ present : numberOf[r] = None
    /\ pc \in [Workers -> {"idle", "check", "readInvoices", "readCollections", "insert"}]
    /\ job \in [Workers -> Job \cup {None}]
    /\ loose \subseteq Days
    /\ \A w \in Workers : /\ pc[w] # "idle" => job[w] # None
                          /\ pc[w] \in {"check", "insert"} => job[w].number # None

\* Two rows of either table share a number only on a day on which two requests
\* ran at once or a client asked for a number, whatever was cancelled or removed
\* before and whatever happens on other days.  The generator says that the number
\* it takes prevents duplicates; two requests of one day that overlap read the
\* same highest number, and a number asked for is not compared with collections.
NoDuplicateNumbers ==
    \A r, s \in present :
        r # s /\ numberOf[r] # None /\ numberOf[r] = numberOf[s] => numberOf[r].day \in loose

\* On any other day no request is refused: the generator counts the cancelled
\* invoices, whose rows still hold their numbers under the unique constraint, and
\* only numbers asked for can be other than numeric.
NeverRefused ==
    [][\A w \in Workers : /\ InsertRefused(w) => job[w].number.day \in loose
                          /\ GenerationFails(w) => job[w].day \in loose]_vars
=============================================================================
