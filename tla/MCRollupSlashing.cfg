SPECIFICATION Spec
CONSTANTS
    Migrations = {nothing}
    NoMigration = nothing
    Accounts = {coordinator, deployer}
    Coordinator = coordinator
    Deployer = deployer
    StateRoots <- MCRoots
    GenesisRoot = 0
    ProcessTxs <- MCProcess
    InsertSubtree <- MCInsert
    GovStakeAmount = 5
    Payloads <- OneEach
    MaxBatches = 3
    Subtrees = {}
    NoSubtree = none
    TimeToFinalise = 1
    MaxBlock = 3
PROPERTIES
    RemovedBatchesAreSlashed
CHECK_DEADLOCK FALSE
