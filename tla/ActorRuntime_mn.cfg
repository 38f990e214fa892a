\* Two actors over two schedulers: yields, messages, blocking receives, refused spawns and a stop.
SPECIFICATION Spec
CONSTANTS
    s1 = s1
    s2 = s2
    Schedulers = {s1, s2}
    NSlots = 2
    PoolCells = 2
    MailRoom = 1
    MainOps = {"spawn", "stop"}
    ActorOps = {"yield", "send", "receive", "closure"}
SYMMETRY SchedulerSymmetry
INVARIANTS TypeOK OneThreadPerStack RunQueueExact NoSleepOnMail CollectorReachesActors CellsConserved WindowOverlapIsTransient NotAllAsleep
CHECK_DEADLOCK FALSE
