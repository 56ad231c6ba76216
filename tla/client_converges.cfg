CONSTANTS
    ann = ann
    bob = bob
    add = add
    also = also
    upd = upd
    other = other
    By <- MCBy
    Target <- MCTarget
    Tables <- MCTables
    TableOf <- MCTableOf
    Users = {ann, bob}
    Owner = ann
    Cmds = {add, upd, other}
    Adds = {add}
    Deletes = {other}
    Slots = {s1, s2}
    Star = Star
    NoCmd = NoCmd
    MaxBatch = 2
    MaxVersion = 2
    Lag = 0
    Device = bob
    Mine = {add, upd}
    BatchSize = 2
    MaxFaults = 1
    KillAnywhere = FALSE
    WritesFail = FALSE
    CachedBoot = TRUE
    ActsEarly = FALSE
    ServerStays = TRUE
SPECIFICATION FairClientSpec
INVARIANTS
    ClientTypeOK
    TokenIsHonest
    NoStrandedTemp
PROPERTIES
    Converges
