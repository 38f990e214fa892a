\* Four kinds of messages in an area of five bytes, at most three waiting.
SPECIFICATION Spec
CONSTANTS
    short = short
    long = long
    wanted = wanted
    broken = broken
    Messages = {short, long, wanted, broken}
    Matching = {wanted}
    Undecodable = {broken}
    Size <- MessageSizes
    AreaBytes = 5
    Capacity = 3
INVARIANTS TypeOK UnreadBytesIntact SpaceLostToErrorsOnly
PROPERTIES IsMailbox
CHECK_DEADLOCK FALSE
