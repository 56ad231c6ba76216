CONSTANTS
    Tabs = {"t1", "t2"}
    Families = {1, 2}
    UserOf <- MCUserOf
    NoUser = "nobody"
    MaxTokens = 3
    MaxFaults = 1
SPECIFICATION FairSessions
INVARIANTS
    LogoutIsFinal
CHECK_DEADLOCK FALSE
