--------------------------- MODULE MCWalletViews ---------------------------
(***************************************************************************)
(* The parts of an open wallet that follow what the wallet tells, on small *)
(* instances. They share no state, only the one thread that runs them, so  *)
(* a behaviour of all of them is one of each: here a behaviour takes one   *)
(* of them and leaves the others as they begin.                            *)
(***************************************************************************)
EXTENDS Messenger, DAppApi, Assets, ExchangeRates, OwnAddresses, TxPages, UtxoPage

CONSTANTS p, q, home, shop, transfer, stake, pay, got, swap, regular, locked, other

Given == p :> {home} @@ q :> {shop}
AssetSpent == transfer :> 0 @@ stake :> 7
Kind == pay :> "simple" @@ got :> "simple" @@ swap :> "swap"
Uses == pay :> home @@ got :> home @@ swap :> shop
AssetOfCoin == regular :> 0 @@ locked :> 0 @@ other :> 7

VARIABLE part       \* the one that runs

vars == <<messengerVars, dappApiVars, assetsVars, ratesVars, ownAddressesVars, txPagesVars,
          utxoPageVars, part>>

Parts == {"messenger", "dapps", "assets", "rates", "addresses", "transactions", "coins"}

\* Those that do not run begin with an empty wallet.
Init ==
    /\ part \in Parts
    /\ MessengerInit
    /\ DAppApiInit
    /\ AssetsInit
    /\ part # "assets" => held = {} /\ \A id \in AssetIds : onChain[id] = 0
    /\ RatesInit
    /\ part # "rates" => rateUnit = Off /\ \A c \in Currencies, u \in Units : market[c][u] = 0
    /\ OwnAddressesInit
    /\ part # "addresses" => \A id \in Addresses : labelOf[id] = NoLabel
    /\ TxPagesInit
    /\ part # "transactions" => \A t \in Txs : txStatus[t] = "unborn"
    /\ UtxoPageInit
    /\ part # "coins" => \A c \in Coins : coinStatus[c] = "unborn"
    /\ coinPage.asset = 0 /\ ~coinPage.maxPrivacy

M == part = "messenger" /\ UNCHANGED <<part, dappApiVars, assetsVars, ratesVars, ownAddressesVars, txPagesVars, utxoPageVars>>
D == part = "dapps" /\ UNCHANGED <<part, messengerVars, assetsVars, ratesVars, ownAddressesVars, txPagesVars, utxoPageVars>>
A == part = "assets" /\ UNCHANGED <<part, messengerVars, dappApiVars, ratesVars, ownAddressesVars, txPagesVars, utxoPageVars>>
R == part = "rates" /\ UNCHANGED <<part, messengerVars, dappApiVars, assetsVars, ownAddressesVars, txPagesVars, utxoPageVars>>
O == part = "addresses" /\ UNCHANGED <<part, messengerVars, dappApiVars, assetsVars, ratesVars, txPagesVars, utxoPageVars>>
T == part = "transactions" /\ UNCHANGED <<part, messengerVars, dappApiVars, assetsVars, ratesVars, ownAddressesVars, utxoPageVars>>
U == part = "coins" /\ UNCHANGED <<part, messengerVars, dappApiVars, assetsVars, ratesVars, ownAddressesVars, txPagesVars>>

MessengerSteps ==
    \/ \E peer \in Peers : M /\ OpenChat(peer)
    \/ M /\ NewChat
    \/ \E peer \in Peers, own \in OwnIds : M /\ ChoosePeer(peer, own)
    \/ M /\ CancelChoice
    \/ M /\ RenameContact
    \/ M /\ LeaveByPath
    \/ M /\ EnterMessenger
    \/ M /\ SendMessage
    \/ M /\ RemoveChat
    \/ \E peer \in Peers : \E own \in GivenTo[peer] : M /\ Receive(peer, own)
    \/ M /\ RunImCall
    \/ \E own \in BOOLEAN : M /\ OnAddresses(own)
    \/ M /\ OnMessage
    \/ M /\ OnMessages
    \/ M /\ OnChatList
    \/ M /\ OnChatRemoved

DAppApiSteps ==
    \/ D /\ OpenPage
    \/ D /\ LaunchAgain
    \/ D /\ Reload
    \/ D /\ ClosePage
    \/ D /\ ApiCreated
    \/ \E r \in Requests : D /\ Call(r)
    \/ D /\ AskConsent
    \/ \E yes \in BOOLEAN : D /\ Answer(yes)

AssetsSteps ==
    \/ \E now \in SUBSET AssetIds : A /\ HoldingsChange(now)
    \/ \E id \in AssetIds : A /\ AssetChanges(id)
    \/ \E id \in AssetIds : A /\ AnswerInfo(id)
    \/ A /\ OnWalletStatus
    \/ A /\ OnAssetInfo
    \/ A /\ ListTimerFires
    \/ A /\ OpenReader
    \/ A /\ CloseReader

RatesSteps ==
    \/ \E priced \in SUBSET Currencies, unit \in Units : R /\ MarketMoves(priced, unit)
    \/ R /\ RunRateCall
    \/ \E unit \in Units \cup {Off} : R /\ ChooseUnit(unit)
    \/ R /\ OnExchangeRates

OwnAddressesSteps ==
    \/ \E id \in Addresses, label \in Labels \cup {NoLabel} : O /\ AnnounceChange(id, label)
    \/ O /\ EnterChange
    \/ O /\ RunAddressCall
    \/ O /\ OnOwnAddresses
    \/ O /\ OnAddressChanged
    \/ O /\ OpenBook
    \/ O /\ CloseBook

TxPagesSteps ==
    \/ \E t \in Txs, now \in {"pending", "active"} : T /\ TxAdded(t, now)
    \/ \E t \in Txs, now \in Living : T /\ TxUpdated(t, now)
    \/ \E t \in Txs : T /\ TxRemoved(t)
    \/ T /\ RunGetTransactions
    \/ \E page \in {"none", "wallet", "swaps", "addresses"} : T /\ OpenTxPage(page)
    \/ T /\ NobodyHears
    \/ T /\ OnTransactionsChanged
    \/ T /\ OnSwapTransactions
    \/ T /\ OnTransactions

UtxoPageSteps ==
    \/ \E c \in Coins, now \in CoinStatus \cup {"spent"} : U /\ CoinChanges(c, now)
    \/ U /\ RunGetAllUtxos
    \/ \E maxPrivacy \in BOOLEAN, asset \in {CoinAsset[c] : c \in Coins} :
           U /\ OpenUtxoPage(maxPrivacy, asset)
    \/ U /\ CloseUtxoPage
    \/ U /\ OnNormalCoinsChanged
    \/ U /\ OnShieldedCoinChanged

Next ==
    \/ MessengerSteps
    \/ DAppApiSteps
    \/ AssetsSteps
    \/ RatesSteps
    \/ OwnAddressesSteps
    \/ TxPagesSteps
    \/ UtxoPageSteps

Spec == Init /\ [][Next]_vars
=============================================================================
