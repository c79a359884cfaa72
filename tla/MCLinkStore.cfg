SPECIFICATION MCSpec
CONSTANTS
    a1 = a1
    a2 = a2
    t1 = t1
    t2 = t2
    Link = {l1, l2, l3}
    Visited = {l1, l2}
    Addr = {a1, a2}
    Target = {t1, t2}
    Config <- SideConfigs
    Editor = {e1, e2, e3}
    Rival = {e2, e3}
    Unlimited = Unlimited
    Never = Never
    NoRow = NoRow
    NoOp = NoOp
    Guess = FALSE
    MaxVersion = 3
    MaxNow = 1
    MaxClicks = 2
SYMMETRY Symmetry
INVARIANTS StoreSafety NoLostUpdate ClickSafety
PROPERTIES DomainGates
CHECK_DEADLOCK FALSE
