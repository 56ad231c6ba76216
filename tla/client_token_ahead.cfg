CONSTANTS
    ann = ann
    bob = bob
    add = add
    also = also
    upd = upd
    other = other
    By <- MCBy
    Target <- MCTarget
    Tables <- MCTables
    TableOf <- MCTableOf
    Users = {ann}
    Owner = ann
    Cmds = {add, upd, other}
    Adds = {add}
    Deletes = {other}
    Slots = {s1, s2}
    Star = Star
    NoCmd = NoCmd
    MaxBatch = 2
    MaxVersion = 1
    Lag = 0
    Device = ann
    Mine = {add, upd}
    BatchSize = 2
    MaxFaults = 1
    KillAnywhere = TRUE
    WritesFail = FALSE
    CachedBoot = TRUE
    ActsEarly = FALSE
    ServerStays = TRUE
SYMMETRY AnySlot
SPECIFICATION ClientSpec
INVARIANTS
    TokenIsHonest
