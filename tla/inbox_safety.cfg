SPECIFICATION Spec
CONSTANTS
    m1 = m1
    m2 = m2
    t1 = t1
    Msg = {m1, m2}
    Thread = {t1}
    NoThread = NoThread
    ThreadOf <- OneThread
    ViewOnce = {}
    PageSize = 1
    MaxReceipts = 2
    Faults = {"drop", "reload", "lookupFails", "updateFails"}
CONSTRAINT FewReceipts
SYMMETRY Messages
INVARIANTS
    AtMostOnce
    ReadOnlyEntered
PROPERTIES
    AckOnlyTakenUp
    DecryptOncePerSession
    ImplementsMailbox
