SPECIFICATION FairSpec
CONSTANTS
    Migrations = {nothing}
    NoMigration = nothing
    Accounts = {coordinator, deployer}
    Coordinator = coordinator
    Deployer = deployer
    StateRoots <- Cycle
    GenesisRoot = 0
    ProcessTxs <- CycleProcess
    InsertSubtree <- CycleInsert
    GovStakeAmount = 5
    Payloads <- Lists
    MaxBatches = 3
    Subtrees = {s1}
    NoSubtree = none
    TimeToFinalise = 1
    MaxBlock = 2
PROPERTIES
    CondemnedForCause
    RollbackCompletes
CHECK_DEADLOCK FALSE
