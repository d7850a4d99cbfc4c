SPECIFICATION FairSpec
CONSTANTS
    Workers = {w1, w2}
    Posters = {p1, p2}
    Destroyers = {d1, d2}
    Tasks = {t1, t2, t3}
    QueueSize = 2
    JoinPosters = FALSE
    WaitFirst = FALSE
    NoTask = NoTask
    NoThread = NoThread
    w1 = w1
    w2 = w2
    p1 = p1
    p2 = p2
    d1 = d1
    d2 = d2
    t1 = t1
    t2 = t2
    t3 = t3
\* A second thread_pool_destroy stops everything.
CHECK_DEADLOCK FALSE
INVARIANT TypeOK
INVARIANT NoLostWakeup
INVARIANT DestroySafe
PROPERTY ImplementsService
PROPERTY Progress
