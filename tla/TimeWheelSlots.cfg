SPECIFICATION Spec
CONSTANTS
    Near = 4
    LevelSize = 4
    Nodes = {n1}
    Delays = {1, 4, 15, 16, 17, 63, 64, 100}
    MaxTicks = 100
    n1 = n1
INVARIANT NoneStranded
