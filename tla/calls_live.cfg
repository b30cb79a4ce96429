SPECIFICATION FairSpec
CONSTANTS
    alice = alice
    bob = bob
    back = back
    User = {alice, bob}
    Call = {one, two}
    None = None
    From <- Places
    To <- IsPlaced
    Native = FALSE
    Faults = {"reload", "mediaFails", "badAnswer"}
PROPERTIES
    CallSettles
CHECK_DEADLOCK FALSE
