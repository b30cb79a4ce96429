SPECIFICATION FairSpec
CONSTANTS
    Chunks = 2
    MaxAttempts = 2
    Lanes = 1
    Room = 1
    Bubble = {b1}
    Page = {p1}
    Message = {m1}
    MaxEvents = 1
    Rounds = 2
    MaxSignals = 2
    Taps = 3
    MaxApplying = 2
PROPERTIES
    TransfersEnd
    MessageHeard
    ReconnectEnds
    VideoRecovers
CHECK_DEADLOCK FALSE
