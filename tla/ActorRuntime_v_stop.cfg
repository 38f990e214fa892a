\* actors-stop against a scheduler on its way to sleep.
SPECIFICATION FairSpec
CONSTANTS
    s1 = s1
    s2 = s2
    Schedulers = {s1}
    NSlots = 1
    PoolCells = 1
    MailRoom = 1
    MainOps = {"stop"}
    ActorOps = {"receive"}
PROPERTIES StopIsHeard
CHECK_DEADLOCK FALSE
