CONSTANTS
    ann = ann
    bob = bob
    a = a
    b = b
    People = {ann, bob}
    Spaces = {a, b}
    NoOne = NoOne
    Nowhere = Nowhere
    SeedLists <- MCLists
    MaxChanges = 0
    MaxTroubles = 3
    MaxTaps = 2
SPECIFICATION PhoneSpec
INVARIANTS
    OneAccount
CHECK_DEADLOCK FALSE
