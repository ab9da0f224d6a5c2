SPECIFICATION Spec
CONSTANTS
    Migrations = {nothing}
    NoMigration = nothing
    Accounts = {coordinator, deployer}
    Coordinator = coordinator
    Deployer = deployer
    StateRoots <- Cycle
    GenesisRoot = 0
    ProcessTxs <- CycleProcess
    InsertSubtree <- CycleInsert
    GovStakeAmount = 5
    Payloads <- HonestLists
    MaxBatches = 3
    Subtrees = {}
    NoSubtree = none
    TimeToFinalise = 1
    MaxBlock = 2
PROPERTIES
    GoodBatchesStand
CHECK_DEADLOCK FALSE
