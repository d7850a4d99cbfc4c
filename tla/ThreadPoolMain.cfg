SPECIFICATION MainSpec
CONSTANTS
    Workers = {w1, w2}
    Posters = {p1}
    Destroyers = {d1}
    Tasks = {t1, t2}
    QueueSize = 2
    JoinPosters = TRUE
    WaitFirst = TRUE
    NoTask = NoTask
    NoThread = NoThread
    w1 = w1
    w2 = w2
    p1 = p1
    d1 = d1
    t1 = t1
    t2 = t2
PROPERTY MainReachesDestroy
