SPECIFICATION CommitterSpec
CONSTANTS
    ByteBits = 3
    exponentBits = 2
    mantissaBits = 4
    place = 1
    Digits = 2
    NoKey = NoKey
    Zero = Zero
    ZERO_BYTES32 = Zero
    NoAddress = NoAddress
    MAX_DEPTH = 3
    GivenRoots = {given}
    Pubkeys <- MCPubkeys
    OtherKey = OtherKey
    SpokeContracts = {"withdrawManager", "otherSpoke"}
    TokenContracts = {"testToken", "otherToken"}
    MaxRegistered = 4
    MaxOutsiderCalls = 2
    Inputs <- MCInputs
    NumOfStates = 2
    Drawn <- MCDrawn
    Payers = {0}
    Payees = {1}
    FeeReceivers = {0}
    SpokeIDs = {1}
    MaxKeys = 3
    MaxSigned = 2
    MaxDrafts = 3
    MaxBatches = 1
INVARIANTS
    ListsAreRead
    OffchainAgrees
    
    FactoriesPass
    ClaimsAreProcessed
    
    ProofsOpenTogether
    
    
    GenesisIsServed

    
CHECK_DEADLOCK FALSE
