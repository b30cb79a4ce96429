SPECIFICATION FairSpec
CONSTANTS
    alice = alice
    bob = bob
    back = back
    User = {alice, bob}
    Call = {one}
    None = None
    From <- Places
    To <- IsPlaced
    Native = FALSE
    Faults = {}
PROPERTIES
    NoGhostRing
CHECK_DEADLOCK FALSE
