SPECIFICATION Spec
SYMMETRY Interchangeable
CONSTANTS
    d1 = d1
    d2 = d2
    Workers = {w1, w2}
    InvoiceIds = {i1, i2, i3}
    CollectionIds = {k1}
    Days = {d1, d2}
    RequestedNumbers <- OddNumbers
    Text = Text
    MaxSeq = 3
    None = None
INVARIANTS
    TypeOK
    NoDuplicateNumbers
PROPERTY NeverRefused
CHECK_DEADLOCK FALSE
