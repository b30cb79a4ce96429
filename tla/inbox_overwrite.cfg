SPECIFICATION Spec
CONSTANTS
    m1 = m1
    m2 = m2
    t1 = t1
    Msg = {m1, m2}
    Thread = {t1}
    NoThread = NoThread
    ThreadOf <- OneThread
    ViewOnce = {}
    PageSize = 1
    MaxReceipts = 3
    Faults = {}
INVARIANTS
    AckedIsKept
