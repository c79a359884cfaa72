SPECIFICATION MCSpec
CONSTANTS
    Email = {e1, e2}
    Subject = {x1}
    Flow = {f1, f2}
    MaxCodes = 2
    MaxSessions = 2
    MaxPasswords = 2
    NoOne = NoOne
    e2 = e2
    MaxEffort = 4
    Person = {ann, bob, cid}
    Founder = ann
    MaxInvites = 2
    Share = {s1, s2}
    Editor = {u1}
    Reader = {r1, r2}
    TextQuota = 1
    MaxTextVersion = 3
    NoShare = NoShare
    Page = {p1, p2}
    Child = {1}
    Destination = {d1, d2}
    PageEditor = {u1}
    Refresher = {h1}
    BioQuota = 1
    MaxPageVersion = 2
    NoPage = NoPage
    NoDestination = NoDestination
    Admin = {root}
    Call = {c1, c2}
    IdemKey = {k1}
    OfficialDomain = {o1, o2}
    MaxFailures = 2
    MaxAdminSessions = 1
    MaxGoverned = 3
    MaxFailed = 3
    MaxWork = 3
    NoAdmin = NoAdmin
    Ticket = {t1}
    DomainTicket = {t1}
    ReplyKey = {q1}
    Desk = {b1, b2}
    Correlation = {y1}
    MaxTicketVersion = 4
    MaxTold = 2
SYMMETRY Symmetry
INVARIANTS AdminSafety
PROPERTIES AccountSafety WorkspaceSafety TextSafety BioSafety TicketSafety
CHECK_DEADLOCK FALSE
