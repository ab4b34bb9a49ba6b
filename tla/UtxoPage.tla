------------------------------ MODULE UtxoPage ------------------------------
(***************************************************************************)
(* The dialogs that list coins (viewmodel/utxo/utxo_view.cpp): the one of  *)
(* all coins (view/controls/UtxoDialog.qml), and the one of an asset's max *)
(* privacy coins that mature (view/controls/MaxPrivacyCoinsDialog.qml).    *)
(* Regular and shielded coins come in separate signals and share one list. *)
(* The coins are external; asked for all of them, the wallet tells the     *)
(* regular ones first. A coin keeps its identity.                          *)
(***************************************************************************)
EXTENDS ListModel

CONSTANTS
    Coins,          \* the coins there will ever be
    Shielded,       \* those in the shielded pool
    CoinAsset,      \* the asset of each
    MaxCoinsUnderWay

ASSUME UtxoPageAssumption ==
    IsFiniteSet(Coins) /\ Shielded \subseteq Coins /\ MaxCoinsUnderWay \in Nat

VARIABLES
    coinStatus,     \* the wallet's coins
    coinCalls,      \* how many requests for all of them there are
    coinEvents,     \* what the wallet has told, in order
    coinPage,       \* the dialog that is open
    coinRows        \* m_allUtxos

utxoPageVars == <<coinStatus, coinCalls, coinEvents, coinPage, coinRows>>

CoinStatus == {"maturing", "available"}

\* maxPrivacy: m_maturingMaxPrivacy; asset: m_assetId, used with it only.
CoinPage == [open: BOOLEAN, maxPrivacy: BOOLEAN, asset: {CoinAsset[c] : c \in Coins}]

CoinItem == [id: Coins, status: CoinStatus]

UtxoPageTypeOK ==
    /\ coinStatus \in [Coins -> CoinStatus \cup {"unborn", "spent"}]
    /\ coinCalls \in Nat
    /\ coinEvents \in Seq([action: {"Reset", "Added", "Updated", "Removed"},
                           shielded: BOOLEAN, of: Seq(CoinItem)])
    /\ coinPage \in CoinPage
    /\ coinRows \in Seq(CoinItem)

UtxoPageInit ==
    /\ coinStatus \in [Coins -> CoinStatus \cup {"unborn"}]
    /\ coinCalls = 0
    /\ coinEvents = <<>>
    /\ coinPage \in {page \in CoinPage : ~page.open}
    /\ coinRows = <<>>

-----------------------------------------------------------------------------
CoinsUnderWay == coinCalls + Len(coinEvents)

CoinEvent(action, shielded, items) == [action |-> action, shielded |-> shielded, of |-> items]

TellsCoin(action, c, status) ==
    coinEvents' = Append(coinEvents,
        CoinEvent(action, c \in Shielded, <<[id |-> c, status |-> status]>>))

InUse == {c \in Coins : coinStatus[c] \in CoinStatus}

\* A coin comes in, matures or does so no longer, and is spent.
CoinChanges(c, status) ==
    /\ CoinsUnderWay < MaxCoinsUnderWay
    /\ coinStatus[c] # "spent" /\ status # coinStatus[c]
    /\ coinStatus' = [coinStatus EXCEPT ![c] = status]
    /\ \/ status \in CoinStatus /\ c \notin InUse /\ TellsCoin("Added", c, status)
       \/ status \in CoinStatus /\ c \in InUse /\ TellsCoin("Updated", c, status)
       \/ status = "spent" /\ c \in InUse /\ TellsCoin("Removed", c, coinStatus[c])
    /\ UNCHANGED <<coinCalls, coinPage, coinRows>>

AllCoins(kind) ==
    LET coins == SetToSeq(kind \cap InUse)
    IN  [i \in DOMAIN coins |-> [id |-> coins[i], status |-> coinStatus[coins[i]]]]

RunGetAllUtxos ==
    /\ coinCalls > 0
    /\ coinCalls' = coinCalls - 1
    /\ coinEvents' = coinEvents \o <<CoinEvent("Reset", FALSE, AllCoins(Coins \ Shielded)),
                                     CoinEvent("Reset", TRUE, AllCoins(Shielded))>>
    /\ UNCHANGED <<coinStatus, coinPage, coinRows>>

\* The constructor asks; setAssetId asks again.
OpenUtxoPage(maxPrivacy, asset) ==
    /\ ~coinPage.open /\ CoinsUnderWay < MaxCoinsUnderWay
    /\ coinPage' = [open |-> TRUE, maxPrivacy |-> maxPrivacy, asset |-> asset]
    /\ coinRows' = <<>>
    /\ coinCalls' = coinCalls + (IF maxPrivacy THEN 2 ELSE 1)
    /\ UNCHANGED <<coinStatus, coinEvents>>

CloseUtxoPage ==
    /\ coinPage.open
    /\ coinPage' = [coinPage EXCEPT !.open = FALSE]
    /\ coinRows' = <<>>
    /\ UNCHANGED <<coinStatus, coinCalls, coinEvents>>

-----------------------------------------------------------------------------
CoinListAfter(list, action, items) ==
    CASE action = "Removed" -> ListRemove(list, items)
      [] action = "Added"   -> ListInsert(list, items)
      [] action = "Updated" -> ListUpdate(list, items)

CoinsArrive(shielded) ==
    /\ coinEvents # <<>> /\ Head(coinEvents).shielded = shielded
    /\ coinEvents' = Tail(coinEvents)
    /\ UNCHANGED <<coinStatus, coinCalls, coinPage>>

\* Regular coins do not concern the dialog of max privacy coins. Reset takes
\* the shielded rows away too.
OnNormalCoinsChanged ==
    /\ CoinsArrive(FALSE)
    /\ LET e == Head(coinEvents)
       IN  coinRows' = IF ~coinPage.open \/ coinPage.maxPrivacy THEN coinRows
                       ELSE IF e.action = "Reset" THEN ListReset(e.of)
                       ELSE CoinListAfter(coinRows, e.action, e.of)

\* Reset replaces the shielded rows and leaves the others. The dialog of max
\* privacy coins takes those of its asset that mature, for every action.
OnShieldedCoinChanged ==
    /\ CoinsArrive(TRUE)
    /\ LET e == Head(coinEvents)
           concerns(coin) == coinPage.maxPrivacy =>
                                 CoinAsset[coin.id] = coinPage.asset /\ coin.status = "maturing"
           items == ItemsAt(e.of, {i \in DOMAIN e.of : concerns(e.of[i])})
           shieldedRows ==
               ItemsAt(coinRows, {i \in DOMAIN coinRows : coinRows[i].id \in Shielded})
       IN  coinRows' = IF ~coinPage.open THEN coinRows
                       ELSE IF e.action = "Reset"
                            THEN ListInsert(ListRemove(coinRows, shieldedRows), items)
                       ELSE CoinListAfter(coinRows, e.action, items)

UtxoPageNext ==
    \/ \E c \in Coins, status \in CoinStatus \cup {"spent"} : CoinChanges(c, status)
    \/ RunGetAllUtxos
    \/ \E maxPrivacy \in BOOLEAN, asset \in {CoinAsset[c] : c \in Coins} :
           OpenUtxoPage(maxPrivacy, asset)
    \/ CloseUtxoPage
    \/ OnNormalCoinsChanged
    \/ OnShieldedCoinChanged

UtxoPageSpec == UtxoPageInit /\ [][UtxoPageNext]_utxoPageVars

-----------------------------------------------------------------------------
\* Once everything has arrived, an open dialog has no coin twice. That of all
\* coins has exactly the wallet's, as they are now; that of max privacy coins
\* has every shielded coin of its asset that matures (utxo_view.cpp:
\* onNormalCoinsChanged, onShieldedCoinChanged; helpers/list_model.h: reset,
\* insert, update, remove).
UtxoPageShowsCoins ==
    coinPage.open /\ coinCalls = 0 /\ coinEvents = <<>> =>
        LET shown == {coinRows[i] : i \in DOMAIN coinRows}
        IN  /\ \A i, j \in DOMAIN coinRows : i # j => coinRows[i].id # coinRows[j].id
            /\ ~coinPage.maxPrivacy =>
                   shown = {[id |-> c, status |-> coinStatus[c]] : c \in InUse}
            /\ coinPage.maxPrivacy =>
                   \A c \in Shielded :
                       coinStatus[c] = "maturing" /\ CoinAsset[c] = coinPage.asset
                       => [id |-> c, status |-> "maturing"] \in shown
=============================================================================
