SPECIFICATION FairSpec
CONSTANTS
    BufferSize = 3
    MaxBuffers = 2
    MaxLines = 11
    Null = Null
INVARIANT TypeOK
INVARIANT AssertionsHold
INVARIANT NoFullBufferSleeps
INVARIANT LinesAccountedFor
PROPERTY Progress
