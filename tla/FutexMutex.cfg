\* Four threads that lock, unlock and try, with the 20 ms net.
SPECIFICATION FairSpec
CONSTANTS
    t1 = t1
    t2 = t2
    t3 = t3
    t4 = t4
    Threads = {t1, t2, t3, t4}
    UsesTrylock = TRUE
    TimeoutNet = TRUE
INVARIANTS TypeOK MutualExclusion WordTracksHolder
PROPERTIES OnlyTrylockStrands WaitersMakeProgress
CHECK_DEADLOCK TRUE
