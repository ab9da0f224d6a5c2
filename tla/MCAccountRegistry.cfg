SPECIFICATION RegistrySpec
CONSTANTS
    alice = alice
    bob = bob
    client1 = client1
    client2 = client2
    Clients = {client1, client2}
    DEPTH = 3
    BATCH_DEPTH = 1
    Pubkeys = {alice, bob}
    NoKey = nokey
    MaxCalls = 5
INVARIANTS
    RootsAreOfAllKeys
    AssertionHolds
    WitnessesOpen
    TreesAgree
    BatchesAgree
SYMMETRY MCSymmetry
CHECK_DEADLOCK FALSE
