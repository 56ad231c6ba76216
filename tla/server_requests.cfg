CONSTANTS
    ann = ann
    bob = bob
    add = add
    upd = upd
    del = del
    By <- MCBy
    Target <- MCTarget
    Tables <- MCTables
    TableOf <- MCTableOf
    Users = {ann, bob}
    Owner = ann
    Cmds = {add, upd, del}
    Adds = {add}
    Deletes = {del}
    Slots = {s1, s2}
    Star = Star
    NoCmd = NoCmd
    MaxBatch = 2
    MaxVersion = 3
    Lag = 1
SYMMETRY AnySlot
SPECIFICATION EndpointSpec
INVARIANTS
    TypeOK
    ExactlyOnce
    OkIsFinal
    NeverZeroTimes
PROPERTIES
    ImplementsWorkspace
