CONSTANTS
    Users = {1, 2, 3}
    Spaces = {"a", "b", "c", "d", "e"}
    Invites = {"i", "j"}
    Anyone = Anyone
    NoAsk = NoAsk
    Requests = {"r1", "r2"}
    SeedRole <- MCSeedRole
    SeedInvite <- MCSeedInvite
    Asks <- MCAsks
    Tabs = {"t1", "t2"}
    Families = {1, 2}
    UserOf <- MCUserOf
    NoUser = "nobody"
    MaxTokens = 3
    MaxFaults = 1
    Uploads = {"u1", "u2"}
    Tasks = {"p", "q"}
    TaskOf <- MCTaskOf
    NoHolder = NoHolder
    MaxMishaps = 1
    Tasked = {"x", "y"}
    Recurring = {"x"}
    Broken = {"x"}
    Horizon = 2
    MaxEdits = 3
    MaxSlips = 1
    Rules <- MCRules
    Anchors <- MCAnchors
    Instants <- MCInstants
    Todays <- MCTodays
    Offsets = {0, 13}
    MaxRolls = 2
SPECIFICATION ServicesSpec
INVARIANTS
    AccountsTypeOK
    AlwaysAnOwner
    OneDefault
    SessionsTypeOK
    OneLiveToken
    OverIsOver
    HonestStaysIn
    AttachmentsTypeOK
    LiveHasBytes
    OnLiveTask
    NothingLeftOver
    RemindersTypeOK
    NoneSwallowed
    UsedOnce
    NextIsNext
    ReminderFollows
PROPERTIES
    Serial
    NobodyLosesTheLast
    RequestsEnd
    TabsAgree
    NoneWaitsForever
CHECK_DEADLOCK FALSE
