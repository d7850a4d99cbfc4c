SPECIFICATION MCSpec
CONSTANTS
    Near = 2
    LevelSize = 2
    Nodes = {n1, n2}
    Delays = {1, 3, 7, 15}
    MaxTicks = 35
    n1 = n1
    n2 = n2
    Timers = {1, 2, 3}
    QueueDelays = {0, 1, 2}
    Start = 13
    MaxClock = 16
    Modulus = 16
    MaxLevel = 2
    Kinds = {"heap", "skip", "tree", "set"}
SYMMETRY Symmetry
INVARIANT WheelOnTime
INVARIANT OnlySlotZeroStrands
INVARIANT LiveAreQueued
INVARIANT RunsInTime
