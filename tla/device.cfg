CONSTANTS
    p = p
    q = q
    s = s
    t = t
    u = u
    w = w
    n = n
    ann = ann
    bob = bob
    a = a
    b = b
    Projects = {p, q}
    Sections = {s}
    Tasks = {t, u, w}
    Notes = {n}
    None = None
    Unsent = Unsent
    Seed <- MCSeed
    Star = Star
    NoReply = NoReply
    MaxOthers = 1
    MaxEdits = 2
    People = {ann, bob}
    Spaces = {a, b}
    NoOne = NoOne
    Nowhere = Nowhere
    SeedLists <- MCLists
    MaxChanges = 1
    MaxTroubles = 2
    MaxTaps = 4
SPECIFICATION DeviceSpec
INVARIANTS
    DeviceTypeOK
    Forest
    TasksHealed
    LogoutIsClean
    ScreenIsServedUnlessAstray
    OneAccountUnlessAstray
PROPERTIES
    AddLands
CHECK_DEADLOCK FALSE
