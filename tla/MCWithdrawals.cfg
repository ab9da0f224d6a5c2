SPECIFICATION WithdrawSpec
CONSTANTS
    coordinator = coordinator
    manager = manager
    other = other
    token1 = token1
    token2 = token2
    alice = alice
    bob = bob
    Vault = vault
    WithdrawManager = manager
    TestToken = token1
    SpokeContracts <- MCSpokes
    TokenContracts = {token1, token2}
    MaxRegistered = 2
    VaultFunds <- MCFundsTwo
    SignedFor <- MCSignedFor
    Migrations <- MCMigrations
    NoMigration <- MCNoMigration
    Accounts = {coordinator}
    Coordinator = coordinator
    Deployer = coordinator
    StateRoots <- MCRoots
    GenesisRoot = 0
    ProcessTxs <- MCStay
    InsertSubtree <- MCNoInsert
    GovStakeAmount = 5
    Payloads <- SoundOnes
    MaxBatches = 3
    Subtrees = {}
    NoSubtree = none
    TimeToFinalise = 1
    MaxBlock = 1
INVARIANTS
    ClaimsAreCovered
    ApprovalsStand
CHECK_DEADLOCK FALSE
