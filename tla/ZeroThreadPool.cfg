SPECIFICATION FairSpec
CONSTANTS
    Workers = {w1, w2}
    Clients = {c1, c2}
    Tasks = {t1, t2}
    StopEarly = {TRUE, FALSE}
    NoTask = NoTask
    w1 = w1
    w2 = w2
    c1 = c1
    c2 = c2
    t1 = t1
    t2 = t2
INVARIANT ExactlyOnce
INVARIANT NobodyForgotten
PROPERTY TaskRuns
PROPERTY CallsReturn
