\* The instance of ActorStaging.cfg; here space is asked for after an error too.
SPECIFICATION Spec
CONSTANTS
    short = short
    long = long
    wanted = wanted
    broken = broken
    Messages = {short, long, wanted, broken}
    Matching = {wanted}
    Undecodable = {broken}
    Size <- MessageSizes
    AreaBytes = 5
    Capacity = 3
INVARIANT SpaceComesBack
CHECK_DEADLOCK FALSE
