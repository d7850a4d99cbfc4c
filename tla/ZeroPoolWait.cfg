SPECIFICATION Spec
CONSTANTS
    Workers = {w1, w2}
    Clients = {c1}
    Tasks = {t1, t2, t3}
    StopEarly = {FALSE}
    NoTask = NoTask
    w1 = w1
    w2 = w2
    c1 = c1
    t1 = t1
    t2 = t2
    t3 = t3
INVARIANT WaitMeansDone
