SPECIFICATION HubbleSpec
CONSTANTS
    Migrations = {nothing}
    NoMigration = nothing
    Accounts = {coordinator, deployer}
    Coordinator = coordinator
    Deployer = deployer
    StateRoots <- MCRoots
    GenesisRoot = 0
    ProcessTxs <- MCProcess
    InsertSubtree <- MCInsert
    GovStakeAmount = 5
    NoSubtree <- MCNoSubtree
    Subtrees <- MCSubtrees
    Payloads <- OneGood
    MaxBatches = 4
    TimeToFinalise = 1
    MaxBlock = 2
    Tokens = {t1}
    Amounts = {0, 1}
    SubtreeDepth = 3
    MaxDeposits = 17
INVARIANTS
    VaultBacksDeposits
    BabyTreesCountInBinary
    SubtreesAreFull
PROPERTIES
    ImplementsRollup
CHECK_DEADLOCK FALSE
