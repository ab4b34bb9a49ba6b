------------------------------ MODULE TxPages ------------------------------
(***************************************************************************)
(* The pages that follow the transactions: the wallet page's table         *)
(* (viewmodel/wallet/tx_table.cpp), the atomic swaps                       *)
(* (viewmodel/atomic_swap/swap_offers_view.cpp) and the address book, for  *)
(* the addresses that are in use (viewmodel/address_book_view.cpp). A page *)
(* asks for all transactions as it opens and then follows the changes the  *)
(* wallet tells of. Transactions are external.                             *)
(***************************************************************************)
EXTENDS ListModel

CONSTANTS
    Txs,            \* the transactions there will ever be
    KindOf,         \* "simple", "swap", or "hidden" from both lists
    MyAddr,         \* the own address a transaction uses
    TxAddresses,    \* own addresses
    MaxTxUnderWay   \* bound on what is under way when a transaction changes
                    \* or a page opens

ASSUME TxPagesAssumption ==
    /\ IsFiniteSet(Txs)
    /\ KindOf \in [Txs -> {"simple", "swap", "hidden"}]
    /\ MyAddr \in [Txs -> TxAddresses]
    /\ MaxTxUnderWay \in Nat

VARIABLES
    txStatus,       \* the wallet's transactions
    txCalls,        \* how many requests for all of them there are
    txEvents,       \* what the wallet has told, in order
    txPage,         \* the page that is open
    txRows,         \* _transactionsList, m_transactionsList of that page
    activeTx,       \* m_activeTx of the swaps
    activeCounter,  \* m_activeTxCounter of the coin they swap
    busyAddresses   \* how often an address is in m_busyAddresses

txPagesVars == <<txStatus, txCalls, txEvents, txPage, txRows, activeTx, activeCounter,
                 busyAddresses>>

\* "unborn" and "gone" transactions are not in the wallet, "done" ones may be
\* deleted.
Living == {"pending", "active", "done"}

TxItem == [id: Txs, status: Living]

TxEvent == [action: {"Reset", "Added", "Updated", "Removed"}, of: Seq(TxItem)]

TxPagesTypeOK ==
    /\ txStatus \in [Txs -> Living \cup {"unborn", "gone"}]
    /\ txCalls \in Nat
    /\ txEvents \in Seq(TxEvent)
    /\ txPage \in {"none", "wallet", "swaps", "addresses"}
    /\ txRows \in Seq(TxItem)
    /\ activeTx \subseteq Txs
    /\ activeCounter \in Int
    /\ busyAddresses \in [TxAddresses -> Nat]

TxPagesInit ==
    /\ txStatus \in [Txs -> Living \cup {"unborn"}]
    /\ txCalls = 0
    /\ txEvents = <<>>
    /\ txPage = "none"
    /\ txRows = <<>>
    /\ activeTx = {} /\ activeCounter = 0
    /\ busyAddresses = [a \in TxAddresses |-> 0]

-----------------------------------------------------------------------------
InWallet == {t \in Txs : txStatus[t] \in Living}

TxUnderWay == txCalls + Len(txEvents)

ofPage == <<txRows, activeTx, activeCounter, busyAddresses>>

\* The wallet (external).

TellsOf(action, t, status) ==
    txEvents' = Append(txEvents, [action |-> action, of |-> <<[id |-> t, status |-> status]>>])

TxAdded(t, status) ==
    /\ TxUnderWay < MaxTxUnderWay /\ txStatus[t] = "unborn"
    /\ txStatus' = [txStatus EXCEPT ![t] = status]
    /\ TellsOf("Added", t, status)
    /\ UNCHANGED <<txCalls, txPage, ofPage>>

\* It goes on, or something else about it changes.
TxUpdated(t, status) ==
    /\ TxUnderWay < MaxTxUnderWay /\ t \in InWallet
    /\ txStatus[t] = "done" => status = "done"
    /\ txStatus[t] = "active" => status # "pending"
    /\ txStatus' = [txStatus EXCEPT ![t] = status]
    /\ TellsOf("Updated", t, status)
    /\ UNCHANGED <<txCalls, txPage, ofPage>>

\* Only what is done can be deleted.
TxRemoved(t) ==
    /\ TxUnderWay < MaxTxUnderWay /\ txStatus[t] = "done"
    /\ txStatus' = [txStatus EXCEPT ![t] = "gone"]
    /\ TellsOf("Removed", t, "done")
    /\ UNCHANGED <<txCalls, txPage, ofPage>>

RunGetTransactions ==
    /\ txCalls > 0
    /\ txCalls' = txCalls - 1
    /\ LET all == SetToSeq(InWallet)
       IN  txEvents' = Append(txEvents,
               [action |-> "Reset",
                of |-> [i \in DOMAIN all |-> [id |-> all[i], status |-> txStatus[all[i]]]]])
    /\ UNCHANGED <<txStatus, txPage, ofPage>>

-----------------------------------------------------------------------------
\* A page is made anew each time it opens.
OpenTxPage(page) ==
    /\ page # txPage /\ TxUnderWay < MaxTxUnderWay
    /\ txPage' = page
    /\ txRows' = <<>>
    /\ activeTx' = {} /\ activeCounter' = 0
    /\ busyAddresses' = [a \in TxAddresses |-> 0]
    /\ txCalls' = IF page = "none" THEN txCalls ELSE txCalls + 1
    /\ UNCHANGED <<txStatus, txEvents>>

\* The switch over the action that both lists share.
ListAfter(list, action, items) ==
    CASE action = "Reset"   -> ListReset(items)
      [] action = "Removed" -> ListRemove(list, items)
      [] action = "Added"   -> ListInsert(list, items)
      [] action = "Updated" -> ListUpdate(list, items)

OfKind(items, kind) ==
    ItemsAt(items, {i \in DOMAIN items : KindOf[items[i].id] = kind})

IdsOfItems(items) == {items[i].id : i \in DOMAIN items}

Heard(page) ==
    /\ txEvents # <<>> /\ txPage = page
    /\ txEvents' = Tail(txEvents)
    /\ UNCHANGED <<txStatus, txCalls, txPage>>

NobodyHears == Heard("none") /\ UNCHANGED ofPage

\* The table leaves swaps and transactions of other kinds out.
OnTransactionsChanged ==
    /\ Heard("wallet")
    /\ LET e == Head(txEvents)
       IN  txRows' = ListAfter(txRows, e.action, OfKind(e.of, "simple"))
    /\ UNCHANGED <<activeTx, activeCounter, busyAddresses>>

\* The swaps are counted as they become active and as they stop being so.
\* Without a swap among the changed transactions the handler returns early,
\* on Reset as well.
OnSwapTransactions ==
    /\ Heard("swaps")
    /\ LET action == Head(txEvents).action
           swaps == OfKind(Head(txEvents).of, "swap")
           active == {swaps[i].id : i \in {i \in DOMAIN swaps : swaps[i].status = "active"}}
           before == IF action = "Reset" THEN {} ELSE activeTx
           counted == IF action = "Reset" THEN 0 ELSE activeCounter
           started == IF action = "Removed" THEN {} ELSE active \ before
           stopped == CASE action = "Removed" -> IdsOfItems(swaps) \cap before
                        [] action = "Updated" -> (IdsOfItems(swaps) \ active) \cap before
                        [] OTHER -> {}
       IN  IF swaps = <<>>
           THEN UNCHANGED <<txRows, activeTx, activeCounter>>
           ELSE /\ txRows' = ListAfter(txRows, action, swaps)
                /\ activeTx' = (before \cup started) \ stopped
                /\ activeCounter' = counted + Cardinality(started) - Cardinality(stopped)
    /\ UNCHANGED busyAddresses

\* A mutant: any update takes the address out.
BusyAfter_AnyUpdate(busy, action, tx) ==
    LET a == MyAddr[tx.id]
    IN  CASE action \in {"Reset", "Added"} /\ tx.status # "done" -> [busy EXCEPT ![a] = @ + 1]
          [] action \in {"Updated", "Removed"} /\ busy[a] > 0    -> [busy EXCEPT ![a] = @ - 1]
          [] OTHER -> busy

\* AddressBookViewModel::onTransactions: an address is entered once for every
\* transaction under way and taken out, once, for one that is done or
\* removed, whether or not that one had entered it.
BusyAfter(busy, action, tx) ==
    LET a == MyAddr[tx.id]
    IN  CASE action \in {"Reset", "Added"} /\ tx.status # "done" -> [busy EXCEPT ![a] = @ + 1]
          [] \/ action = "Updated" /\ tx.status = "done" /\ busy[a] > 0
             \/ action = "Removed" /\ busy[a] > 0                -> [busy EXCEPT ![a] = @ - 1]
          [] OTHER -> busy

OnTransactions ==
    /\ Heard("addresses")
    /\ LET e == Head(txEvents)
           before == IF e.action = "Reset" THEN [a \in TxAddresses |-> 0] ELSE busyAddresses
           After(busy, tx) == BusyAfter(busy, e.action, tx)
       IN  busyAddresses' = InTurn(After, before, e.of)
    /\ UNCHANGED <<txRows, activeTx, activeCounter>>

TxPagesNext ==
    \/ \E t \in Txs, status \in {"pending", "active"} : TxAdded(t, status)
    \/ \E t \in Txs, status \in Living : TxUpdated(t, status)
    \/ \E t \in Txs : TxRemoved(t)
    \/ RunGetTransactions
    \/ \E page \in {"none", "wallet", "swaps", "addresses"} : OpenTxPage(page)
    \/ NobodyHears
    \/ OnTransactionsChanged
    \/ OnSwapTransactions
    \/ OnTransactions

TxPagesSpec == TxPagesInit /\ [][TxPagesNext]_txPagesVars

-----------------------------------------------------------------------------
\* The rows are the wallet's transactions of a kind, each once, as they are now.
RowsAre(kind) ==
    /\ {txRows[i] : i \in DOMAIN txRows}
           = {[id |-> t, status |-> txStatus[t]] : t \in {t \in InWallet : KindOf[t] = kind}}
    /\ \A i, j \in DOMAIN txRows : i # j => txRows[i].id # txRows[j].id

UsesOf(a) == {t \in Txs : MyAddr[t] = a}
Unfinished(a) == {t \in UsesOf(a) : txStatus[t] \in {"pending", "active"}}

\* Once everything has arrived, the open page has the wallet's transactions.
\* The table and the swaps have a row for each, whatever changed while the
\* page opened; the counter of active swaps, which is moved up and down, has
\* their number. In the address book an address is never busy without a
\* transaction under way, and one that a single transaction uses is busy as
\* long as that one is (tx_table.cpp: onTransactionsChanged;
\* swap_offers_view.cpp: onTransactionsDataModelChanged;
\* address_book_view.cpp: onTransactions).
TxPagesMirrorWallet ==
    txCalls = 0 /\ txEvents = <<>> =>
        /\ txPage = "wallet" => RowsAre("simple")
        /\ txPage = "swaps" =>
               /\ RowsAre("swap")
               /\ activeTx = {t \in Txs : KindOf[t] = "swap" /\ txStatus[t] = "active"}
               /\ activeCounter = Cardinality(activeTx)
        /\ txPage = "addresses" =>
               \A a \in TxAddresses :
                   /\ busyAddresses[a] <= Cardinality(Unfinished(a))
                   /\ Cardinality(UsesOf(a)) = 1 =>
                          (busyAddresses[a] > 0 <=> Unfinished(a) # {})
=============================================================================
