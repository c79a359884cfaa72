SPECIFICATION Spec
CONSTANTS
    f1 = f1
    f2 = f2
    w1 = w1
    w2 = w2
    h1 = h1
    h2 = h2
    p1 = p1
    Open = Open
    None = None
    File = {f1}
    Worker = {w1, w2}
    Handler = {h1, h2}
    Password = {p1}
    MaxFiles = 1
    MaxGeneration = 2
    MaxDownloads = 1
    MaxFaults = 1
SYMMETRY Symmetry
INVARIANTS FileSafety PublishedIsClean BytesSurvive
PROPERTIES OnlyHolderDecides DownloadsAreAuthorised
CHECK_DEADLOCK FALSE
