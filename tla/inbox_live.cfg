SPECIFICATION FairSpec
CONSTANTS
    m1 = m1
    m2 = m2
    t1 = t1
    Msg = {m1}
    Thread = {t1}
    NoThread = NoThread
    ThreadOf <- OneThread
    ViewOnce = {m1}
    PageSize = 1
    MaxReceipts = 2
    Faults = {"drop", "serverCrash", "persistFails", "fetchFails"}
INVARIANTS
    TypeOK
    AckedIsEntered
PROPERTIES
    PassTerminates
    InboxDrains
