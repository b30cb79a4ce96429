SPECIFICATION Spec
CONSTANTS
    Requests = 3
    User = {a, b}
    Followed = {a}
    Changes = 2
    Sent = {o1}
    Received = {i1}
    Chats = {c1, c2}
    Jobs = 3
    Overlap = 2
    Chunks = 2
    MaxAttempts = 2
    Lanes = 2
    Room = 1
    Bubble = {b1}
    Page = {p1, p2}
    Message = {m1}
    MaxEvents = 1
    Typist = {t1, t2}
    Contact = {t1}
    MaxPings = 2
    Rounds = 3
    MaxSignals = 2
    Taps = 3
    MaxApplying = 2
    Presses = 2
    Note = {n1, n2}
    NoNote = NoNote
INVARIANTS
    TypeOK
    CodesSound
    RosterCurrent
    HistoryRight
    ScreenMatches
    ListKept
    QuotaHeld
    RejectedOnlyIfPurged
    CopyDropped
    DotCurrent
    StoppedNotShown
    SameRound
    CamerasReleased
    PeerToldCamera
    NoteAsMeant
PROPERTIES
    StepUpSlowly
CHECK_DEADLOCK FALSE
