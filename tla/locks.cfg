SPECIFICATION FairSpec
CONSTANTS
    Tabs = {t1, t2}
    Users = {u1, u2}
    Ttl = 3
    Beat = 1
    None = None
INVARIANTS
    TypeOK
    ExclusiveWhenCalm
PROPERTIES
    EditIsLocked
    LeftLockComesFree
