\* Trylock in use: does the comment's argument still hold?
SPECIFICATION Spec
CONSTANTS
    t1 = t1
    t2 = t2
    t3 = t3
    t4 = t4
    Threads = {t1, t2, t3}
    UsesTrylock = TRUE
    TimeoutNet = TRUE
INVARIANTS NoStrandedWaiter
