CONSTANTS
    ann = ann
    bob = bob
    add = add
    also = also
    upd = upd
    other = other
    By <- MCBy
    Target <- MCTarget
    Tables <- MCTables
    TableOf <- MCTableOf
    Users = {ann, bob}
    Owner = ann
    Cmds = {add}
    Adds = {add}
    Deletes = {}
    Slots = {s1, s2}
    Star = Star
    NoCmd = NoCmd
    MaxBatch = 2
    MaxVersion = 4
    Lag = 0
    Device = bob
    Mine = {add}
    BatchSize = 2
    MaxFaults = 2
    KillAnywhere = TRUE
    WritesFail = FALSE
    CachedBoot = FALSE
    ActsEarly = FALSE
    ServerStays = FALSE
SYMMETRY AnySlot
SPECIFICATION ClientSpec
INVARIANTS
    LossIsTold
CHECK_DEADLOCK FALSE
