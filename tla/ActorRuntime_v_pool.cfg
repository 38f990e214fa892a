\* Actors that end with unread mail, and the slots reused.
SPECIFICATION Spec
CONSTANTS
    s1 = s1
    s2 = s2
    Schedulers = {s1}
    NSlots = 1
    PoolCells = 2
    MailRoom = 1
    MainOps = {"spawn", "send"}
    ActorOps = {"exit"}
INVARIANTS RefusedOnlyWhileUndrained
CHECK_DEADLOCK FALSE
