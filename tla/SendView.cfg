SPECIFICATION FairSpec
CONSTANTS
    Online = {}
    Either = {off}
    OfflineOnly = {mp}
    Text = {junk}
    Invoices = {off}
    Own = {mp}
    Wallets <- Tokens
    WalletOf <- Sharing
    NoEndpoint = {}
    Shared = {}
    InvoiceSum = 1
    InvoiceAsset = 1
    Assets = {0, 1}
    Balances <- AssetBalances
    MaxAmount = 2
    RegularFee = 1
    ShieldedFee = 2
    EnoughByDefault = TRUE
    Patient = FALSE
    MaxPending = 2
    Nothing = Nothing
    off = off
    mp = mp
    junk = junk
INVARIANTS
    TypeOK
    SettledForm
    SentIsConsistent
    TypedAmountStands
PROPERTIES
    SearchEnds
