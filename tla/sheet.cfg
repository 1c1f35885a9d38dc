SPECIFICATION FairSpec
CONSTANTS
    Clients = {u1, u2}
    Cols = {c1}
    Typed = {v1}
    Empty = Empty
    MaxConcurrent = 2
    MaxEdits = 2
    None = None
INVARIANTS
    TypeOK
    SavesWhatIsShown
PROPERTIES
    PendingEnds
    Converges
