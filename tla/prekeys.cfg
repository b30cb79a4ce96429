SPECIFICATION Spec
CONSTANTS
    Sender = {s1, s2, s3}
    KeyId = {1, 2}
    MaxGen = 2
SYMMETRY Senders
INVARIANTS
    TypeOK
    RowsOfPublished
    FreeKeysUsable
    SharedOnlyIfMet
    FailsForAReason
CHECK_DEADLOCK FALSE
