CONSTANTS
    p = p
    q = q
    s = s
    t = t
    u = u
    w = w
    n = n
    Projects = {p, q}
    Sections = {s}
    Tasks = {t, u, w}
    Notes = {n}
    None = None
    Unsent = Unsent
    Seed <- MCSeed
    Star = Star
    NoReply = NoReply
    MaxOthers = 1
    MaxEdits = 2
SPECIFICATION ReplicaSpec
INVARIANTS
    NotesHealed
CHECK_DEADLOCK FALSE
