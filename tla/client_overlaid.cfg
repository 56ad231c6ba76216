CONSTANTS
    ann = ann
    bob = bob
    near = near
    far = far
    dropFar = dropFar
    late = late
    mine = mine
    hers = hers
    By <- MCBy
    Target <- MCTarget
    Tables <- MCTables
    TableOf <- MCTableOf
    Users = {ann, bob}
    Owner = ann
    Cmds = {near, far, dropFar, late, mine, hers}
    Adds = {near, far}
    Deletes = {dropFar}
    Slots = {s1, s2}
    Star = Star
    NoCmd = NoCmd
    MaxBatch = 2
    MaxVersion = 2
    Lag = 0
    Device = bob
    Mine = {late, mine}
    BatchSize = 2
    MaxFaults = 1
    KillAnywhere = FALSE
    WritesFail = FALSE
    CachedBoot = FALSE
    ActsEarly = FALSE
    ServerStays = TRUE
SPECIFICATION ClientSpec
CONSTRAINT AsTold
INVARIANTS
    LastWriteWins
