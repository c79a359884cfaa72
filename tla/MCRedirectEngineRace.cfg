SPECIFICATION MCSpec
CONSTANTS
    a1 = a1
    a2 = a2
    t1 = t1
    t2 = t2
    Link = {l1, l2}
    Watched = l2
    Addr = {a1}
    Target = {t1, t2}
    Config <- SideConfigs
    Editor = {e1}
    Unlimited = Unlimited
    Never = Never
    NoRow = NoRow
    NoOp = NoOp
    Guess = FALSE
    MaxVersion = 2
    MaxClicks = 2
    MaxNow = 1
    Request = {r1, r2}
    NoDecision = NoDecision
    TTL = 1
    AttemptLimit = 1
    Scan = {s1}
    Outcome = {"allow", "block"}
    Report = {q1}
    Projector = {p1}
    MaxOverrides = 1
    MaxRecords = 2
    NoReport = NoReport
    Sides = {"race", "trust"}
SYMMETRY Symmetry
INVARIANTS EngineSafety DestinationWasAllowed
PROPERTIES ClaimIsCurrent GuardSafety
CHECK_DEADLOCK FALSE
