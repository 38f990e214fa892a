\* Two actors become ready while two schedulers are on their way to sleep.
SPECIFICATION Spec
CONSTANTS
    s1 = s1
    s2 = s2
    Schedulers = {s1, s2}
    NSlots = 2
    PoolCells = 1
    MailRoom = 1
    MainOps = {"spawn"}
    ActorOps = {"yield"}
INVARIANTS IdleFindsNoWork
CHECK_DEADLOCK FALSE
