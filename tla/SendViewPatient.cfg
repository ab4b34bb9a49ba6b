SPECIFICATION Spec
CONSTANTS
    Online = {sbbs}
    Either = {off}
    OfflineOnly = {pub}
    Text = {junk}
    Invoices = {off}
    Own = {off}
    Wallets <- Tokens
    WalletOf <- Sharing
    NoEndpoint = {sbbs, pub}
    Shared = {sbbs, off}
    InvoiceSum = 1
    InvoiceAsset = 1
    Assets = {0, 1}
    Balances <- AssetBalances
    MaxAmount = 2
    RegularFee = 1
    ShieldedFee = 2
    EnoughByDefault = TRUE
    Patient = TRUE
    MaxPending = 2
    Nothing = Nothing
    pub = pub
    off = off
    sbbs = sbbs
    junk = junk
INVARIANTS
    ConfirmedIsSent
    PatientMeetsNoFault
    BookFits
