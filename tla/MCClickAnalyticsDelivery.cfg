SPECIFICATION Spec
CONSTANTS
    e1 = e1
    e2 = e2
    b1 = b1
    b2 = b2
    w1 = w1
    w2 = w2
    NoEvent = NoEvent
    Event = {e1, e2}
    Bucket = {b1}
    BucketOf <- MCOneBucket
    Queried = {b1}
    Worker = {w1, w2}
    BatchSize = 2
    RecoverLimit = 1
    Repair = FALSE
    MaxFaults = 1
SYMMETRY Symmetry
INVARIANTS DeliverySafety
PROPERTIES CountsEachClickOnce QuietCompleteIsTrue
