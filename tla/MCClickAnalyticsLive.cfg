SPECIFICATION DamagedSpec
CONSTANTS
    e1 = e1
    e2 = e2
    b1 = b1
    b2 = b2
    w1 = w1
    w2 = w2
    NoEvent = NoEvent
    Event = {e1, e2}
    Bucket = {b1, b2}
    BucketOf <- MCBucketOf
    Queried = {}
    Worker = {w1}
    BatchSize = 1
    RecoverLimit = 1
    Repair = TRUE
    MaxFaults = 1
PROPERTIES EveryClickCounted EventuallyComplete AggregatesAreRepaired
