SPECIFICATION Spec
CONSTANTS
    alice = alice
    bob = bob
    back = back
    User = {alice, bob}
    Call = {one, two}
    None = None
    From <- Places
    To <- IsPlaced
    Native = FALSE
    Faults = {}
PROPERTIES
    ErrorSparesNewer
CHECK_DEADLOCK FALSE
