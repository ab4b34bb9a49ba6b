SPECIFICATION FairSpec
CONSTANTS
    Accounts = {0, 1, 2}
    NoAccount = NoAccount
    WipeMayFail = TRUE
    MaxConns = 2
    MaxQueue = 4
INVARIANTS
    TypeOK
    TeardownFindsSession
    ResetWalletAsserts
    RemovalOnItsWay
    StartedFindsWallet
    PatientUserIsSafe
PROPERTIES
    OpensShownAccount
    LifecycleSpec
    RemovalCompletes
