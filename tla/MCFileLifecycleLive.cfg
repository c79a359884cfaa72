SPECIFICATION FairSpec
CONSTANTS
    f1 = f1
    f2 = f2
    w1 = w1
    w2 = w2
    h1 = h1
    h2 = h2
    p1 = p1
    Open = Open
    None = None
    File = {f1, f2}
    Worker = {w1, w2}
    Handler = {h1}
    Password = {}
    MaxFiles = 1
    MaxGeneration = 1
    MaxDownloads = 0
    MaxFaults = 1
INVARIANTS CounterIsExact
PROPERTIES EveryScanEnds
CHECK_DEADLOCK FALSE
