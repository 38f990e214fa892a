\* One actor slot and a main thread that receives, links actors and gets messages that do not decode.
SPECIFICATION Spec
CONSTANTS
    s1 = s1
    s2 = s2
    Schedulers = {s1, s2}
    NSlots = 1
    PoolCells = 1
    MailRoom = 1
    MainOps = {"spawn", "send", "receive", "timeout", "link", "garbled"}
    ActorOps = {"send", "receive", "exit"}
SYMMETRY SchedulerSymmetry
INVARIANTS MainNotForgotten
CHECK_DEADLOCK FALSE
