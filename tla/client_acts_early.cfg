CONSTANTS
    ann = ann
    bob = bob
    add = add
    also = also
    upd = upd
    other = other
    By <- MCBy
    Target <- MCTarget
    Tables <- MCTables
    TableOf <- MCTableOf
    Users = {ann}
    Owner = ann
    Cmds = {add, also}
    Adds = {add, also}
    Deletes = {}
    Slots = {s1, s2}
    Star = Star
    NoCmd = NoCmd
    MaxBatch = 2
    MaxVersion = 1
    Lag = 0
    Device = ann
    Mine = {add, also}
    BatchSize = 2
    MaxFaults = 1
    KillAnywhere = FALSE
    WritesFail = FALSE
    CachedBoot = TRUE
    ActsEarly = TRUE
    ServerStays = TRUE
SYMMETRY AnySlot
SPECIFICATION ClientSpec
INVARIANTS
    SavedNotLost
