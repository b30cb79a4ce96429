SPECIFICATION Spec
CONSTANTS
    alice = alice
    bob = bob
    back = back
    User = {alice, bob}
    Call = {one, back}
    None = None
    From <- Places
    To <- IsPlaced
    Native = TRUE
    Faults = {"drop", "reload", "mediaFails", "connectionLost", "badAnswer", "lookupFails"}
INVARIANTS
    TypeOK
    NoOrphanMedia
    LoggedReached
    DeclinedNeverAnswered
PROPERTIES
    CallerConnectsAnswered
CHECK_DEADLOCK FALSE
