SPECIFICATION FairTasks
CONSTANTS
    t1 = t1
    t2 = t2
    t3 = t3
    t4 = t4
    g1 = g1
    g2 = g2
    g3 = g3
    NoTask = NoTask
    Workers = {w1, w2}
    MaxWorkers = 2
    Tasks = {t1, t2, t3, t4}
    Groups = {g1, g2, g3}
    GroupOf <- ParentsGroupOf
    OpenedBy <- ParentsOpenedBy
    StartMayFail = FALSE
    Owner = Owner
    Worker = Worker
    Scripts <- AllScripts
    Serialities <- Overlapping
    Used = {"executor"}
PROPERTY GroupsClose
CHECK_DEADLOCK FALSE
