SPECIFICATION Spec
CONSTANTS
    Migrations = {nothing}
    NoMigration = nothing
    Accounts = {coordinator, deployer}
    Coordinator = coordinator
    Deployer = deployer
    StateRoots <- MCRoots
    GenesisRoot = 0
    ProcessTxs <- MCProcess
    InsertSubtree <- MCInsert
    GovStakeAmount = 5
    Payloads <- OneEach
    MaxBatches = 4
    Subtrees = {s1, s2}
    NoSubtree = none
    TimeToFinalise = 2
    MaxBlock = 3
INVARIANTS
    TypeOK
    MarkerStands
    FinalInOrder
    StakesMatchBatches
    EscrowIsTotalStaked
    SubtreesConserved
    HoldersAreDepositBatches
PROPERTIES
    ImplementsLedger
CHECK_DEADLOCK FALSE
