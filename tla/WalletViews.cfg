SPECIFICATION Spec
CONSTANTS
    p = p
    q = q
    home = home
    shop = shop
    Peers = {p, q}
    OwnIds = {home, shop}
    GivenTo <- Given
    FirstOwn = home
    NoId = none
    MaxMessages = 2
    MaxUnderWay = 3
    MaxBehind = 1
    transfer = transfer
    stake = stake
    Requests = {transfer, stake}
    AssetOf <- AssetSpent
    MaxPages = 2
    MaxApis = 4
    AssetIds = {1, 2}
    MaxVersion = 1
    MaxNews = 3
    Currencies = {"beam", "asset"}
    Units = {"usd", "btc"}
    Off = "off"
    MaxTime = 3
    MaxRatesUnderWay = 2
    Addresses = {home, shop}
    Labels = {"rent", "food"}
    NoLabel = "none"
    MaxChangesUnderWay = 3
    pay = pay
    got = got
    swap = swap
    Txs = {pay, got, swap}
    KindOf <- Kind
    MyAddr <- Uses
    TxAddresses = {home, shop}
    MaxTxUnderWay = 2
    regular = regular
    locked = locked
    other = other
    Coins = {regular, locked, other}
    Shielded = {locked, other}
    CoinAsset <- AssetOfCoin
    MaxCoinsUnderWay = 2
CHECK_DEADLOCK FALSE
INVARIANTS
    ReadWasShown
    MessengerShowsInbox
    OwnAddressOfChat
    RunsWhatWasAccepted
    PageHasItsApi
    ConsentKnowsItsAssets
    RequestedIsUnderWay
    AssetsListIsHeld
    RatesAreOfUnit
    OwnAddressesAtRest
    TxPagesMirrorWallet
    UtxoPageShowsCoins
