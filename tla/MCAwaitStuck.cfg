SPECIFICATION FairTasks
CONSTANTS
    t1 = t1
    t2 = t2
    t3 = t3
    t4 = t4
    g1 = g1
    g2 = g2
    g3 = g3
    NoTask = NoTask
    Workers = {w1, w2}
    MaxWorkers = 2
    Tasks = {t1, t2, t3}
    Groups = {g1, g2}
    GroupOf <- NestedGroupOf
    OpenedBy <- NestedOpenedBy
    StartMayFail = TRUE
    Owner = Owner
    Worker = Worker
    Scripts <- AwaitScripts
    Serialities <- Overlapping
    Used = {"promise"}
PROPERTY AwaitReturns
CHECK_DEADLOCK FALSE
