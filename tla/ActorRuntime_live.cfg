\* One actor, two schedulers and main: the wakes reach whoever sleeps.
SPECIFICATION FairSpec
CONSTANTS
    s1 = s1
    s2 = s2
    Schedulers = {s1, s2}
    NSlots = 1
    PoolCells = 1
    MailRoom = 1
    MainOps = {"spawn", "send"}
    ActorOps = {"receive", "timeout"}
PROPERTIES MailEndsReceive TimedReceiveReturns
CHECK_DEADLOCK FALSE
