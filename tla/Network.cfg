SPECIFICATION MCSpec
CONSTANTS
    CaptureWindows = 3
    Threshold = 2
    MaxPackets = 8
    Hosts = {1, 2}
    Scenarios <- Scenes
    Tight = {2}
    BufLen = 4
    Burst = 2
    RingSize = 2
    Listener = 3
    Clients = {4, 5}
    Names <- Asked
    Files <- Found
    MaxConns <- Conns
    MaxInput <- Input
    BlockSize = 5
    BufferSize = 3
    MaxKeyCount = 3
    Count = 2
    PeekMax = 10
INVARIANT WindowIsLast
INVARIANT ExitAtFirstAttack
INVARIANT AnswersGoHome
INVARIANT ReleasedOnce
INVARIANT ServersBound
INVARIANT DescriptorsAgree
INVARIANT OwnAnswer
PROPERTY DatagramAnswered
PROPERTY InputServed
\* The detector stops when it has found an attack, and at the bound.
CHECK_DEADLOCK FALSE
