SPECIFICATION GapSpec
CONSTANTS
    m1 = m1
    m2 = m2
    t1 = t1
    Msg = {m1}
    Thread = {t1}
    NoThread = NoThread
    ThreadOf <- OneThread
    ViewOnce = {}
    PageSize = 1
    MaxReceipts = 2
    Faults = {}
INVARIANTS
    FirstConnectCovered
