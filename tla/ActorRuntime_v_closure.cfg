\* An actor that spawns a closure of its own.
SPECIFICATION Spec
CONSTANTS
    s1 = s1
    s2 = s2
    Schedulers = {s1}
    NSlots = 2
    PoolCells = 1
    MailRoom = 1
    MainOps = {"spawn"}
    ActorOps = {"closure"}
INVARIANTS LockNotLeaked
CHECK_DEADLOCK FALSE
