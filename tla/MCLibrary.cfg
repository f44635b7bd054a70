SPECIFICATION FairUse
CONSTANTS
    Sharers = {t1, t2}
    Handles = {h1, h2, h3}
    MaxCount = 2
    NoHandle = NoHandle
    Values = {1, 2, 3, 4, 5}
    Rank <- Ranks
    Kinds = {"Array", "Queue", "Deque", "Heap"}
    Capacities = {0, 1, 3}
    Copies = {1, 3}
    MaxLength <- Lengths
    Keys = {1, 2, 3}
    HashOf <- Hashes
    TableCapacities = {0, 9}
    MaxCapacity = 16
    MaxSequence = 4
    Absent = Absent
    Junk = Junk
    Undefined = Undefined
    Vacant = Vacant
    NoThread = none
    Producer = p
    Consumer = c
    Threads = {p, c}
    MaxSends = 4
    Ops <- SafeUses
INVARIANTS CountsMatchHandles ValueLivesWhileShared FreedAtLast OwnedOnce TableSound OneOwner
PROPERTIES DroppedAtLast IsContainer IsDictionary IsQueue TakenSendReturns
CHECK_DEADLOCK FALSE
