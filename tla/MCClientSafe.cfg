SPECIFICATION ChainSpec
CONSTANTS
    NumLeaves = 4
    STATE_DEPTH = 2
    ZERO_BYTES32 = ZERO_BYTES32
    HashZero = HashZero
    MaxProved = 1
    TokenTypes <- MCTokens
    DepositSubtrees <- MCSubtrees
    TransferBodies <- MCTransfers
    Create2TransferBodies <- MCCreate2Transfers
    MassMigrationBodies <- MCMigrations
    MaxDeposits = 2
    MaxCommitments = 2
INVARIANTS
    SafeIsValid
CHECK_DEADLOCK FALSE
