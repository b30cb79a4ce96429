SPECIFICATION Spec
CONSTANTS
    Sender = {s1, s2}
    KeyId = {1, 2}
    MaxGen = 1
INVARIANTS
    NeverIssuedTwice
CHECK_DEADLOCK FALSE
