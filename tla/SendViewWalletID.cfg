SPECIFICATION Spec
CONSTANTS
    Online = {reg}
    Either = {off}
    OfflineOnly = {mp}
    Text = {junk}
    Invoices = {}
    Own = {mp}
    Wallets <- Tokens
    WalletOf <- Sharing
    NoEndpoint = {}
    Shared = {}
    InvoiceSum = 1
    InvoiceAsset = 0
    Assets = {0}
    Balances <- BeamBalances
    MaxAmount = 2
    RegularFee = 1
    ShieldedFee = 2
    EnoughByDefault = TRUE
    Patient = FALSE
    MaxPending = 3
    Nothing = Nothing
    reg = reg
    off = off
    mp = mp
    junk = junk
INVARIANTS
    ExpectedWalletIdAssert
