SPECIFICATION AccountSpec
CONSTANTS
    alice = alice
    bob = bob
    DEPTH = 3
    BATCH_DEPTH = 1
    Pubkeys = {alice, bob}
    NoKey = nokey
    MaxCalls = 7
INVARIANTS
    LoggedKeysExist
CHECK_DEADLOCK FALSE
