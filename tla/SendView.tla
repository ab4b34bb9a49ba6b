------------------------------- MODULE SendView -------------------------------
(***************************************************************************)
(* The send page (ui/viewmodel/send_view.cpp with ui/view/send_regular.qml *)
(* and send_confirm.qml): a form whose fields the user changes in any      *)
(* order, while two kinds of answers come back from the wallet thread: the *)
(* coins selected for the amount, and the address book entry of the token. *)
(*                                                                         *)
(* Requests reach the wallet thread in order, its answers reach the main   *)
(* thread in order; by the time one is delivered the form may have moved   *)
(* on.  A failed assertion stops the process: `fault' names it.            *)
(***************************************************************************)
EXTENDS Naturals, Sequences

CONSTANTS
    Online,          (* tokens of type Regular                              *)
    Either,          (* tokens of type Offline: the user may choose         *)
    OfflineOnly,     (* max privacy and public offline tokens               *)
    Text,            (* input that is no address (or a swap token)          *)
    Invoices,        (* tokens that carry an amount and an asset            *)
    Own,             (* tokens this wallet has generated itself             *)
    Wallets,         (* wallets: an SBBS address and the endpoint behind it *)
    WalletOf,        (* the wallet of each token                            *)
    NoEndpoint,      (* tokens without endpoint: bare SBBS addresses and    *)
                     (* public offline tokens                               *)
    InvoiceSum, InvoiceAsset,
    Assets,          (* asset identifiers, BEAM among them                  *)
    Balances,        (* the balances the wallet may have                    *)
    MaxAmount,       (* bound: balances and amounts                         *)
    RegularFee, ShieldedFee,
    EnoughByDefault, (* m_isEnought of a CoinsSelectionInfo not yet filled  *)
    Patient,         (* TRUE: the user waits for pending answers before     *)
                     (* entering another token and before pressing Send     *)
    MaxPending,      (* bound: requests and answers under way               *)
    Nothing          (* no token, no dialog, no transaction                 *)

Tokens  == Online \cup Either \cup OfflineOnly
Beam    == 0
Amounts == 0..MaxAmount

ASSUME TokensAssumption ==
    /\ Online \cap Either = {} /\ Online \cap OfflineOnly = {}
    /\ Either \cap OfflineOnly = {} /\ Tokens \cap Text = {}
    /\ Text # {}
    /\ Invoices \subseteq Tokens /\ Own \subseteq Tokens
    /\ Nothing \notin Tokens \cup Text \cup Nat

ASSUME WalletsAssumption ==
    /\ WalletOf \in [Tokens -> Wallets] /\ Nothing \notin Wallets
    /\ NoEndpoint \subseteq Online \cup OfflineOnly
    /\ Own \cap NoEndpoint = {}

ASSUME AmountsAssumption ==
    /\ MaxAmount \in Nat /\ RegularFee \in Nat /\ ShieldedFee \in Nat
    /\ Assets \subseteq Nat /\ Beam \in Assets
    /\ InvoiceSum \in Amounts \ {0} /\ InvoiceAsset \in Assets
    /\ Balances \subseteq [Assets -> Amounts]
    /\ MaxPending \in Nat
    /\ EnoughByDefault \in BOOLEAN /\ Patient \in BOOLEAN

VARIABLES
    \* the SendViewModel
    token,          (* _token                                               *)
    txParams,       (* _txParameters: the token they were parsed from       *)
    peer,           (* _receiverWalletID                                    *)
    identity,       (* _receiverIdentity                                    *)
    comment,        (* _comment: the token whose lookup brought it, or      *)
                    (* Nothing for an empty or typed one                    *)
    choiceOffline, manualExchange, maxPossible,
    sum, asset,     (* m_requestedSum and m_assetID of m_Csi                *)
    sel,            (* the selection m_Csi was last filled with             *)
    \* the page
    button,         (* canSend as QML last read it: the Send button is on   *)
    dialog,         (* what the open confirmation dialog shows, or Nothing  *)
    \* the wallet thread (external: beam::wallet::WalletClient)
    requests, replies,
    avail,          (* balances                                             *)
    book,           (* the address book: an address, or Nothing, by token   *)
    \* history
    typed,          (* the amount last typed and not asked to be replaced   *)
    sent,           (* the transaction last started, with what was shown    *)
    fault

form  == <<token, txParams, peer, identity, comment, choiceOffline,
           manualExchange, maxPossible, sum, asset>>
page  == <<button, dialog>>
line  == <<requests, replies>>
chain == <<avail, book>>
past  == <<typed, sent, fault>>
vars  == <<form, sel, page, line, chain, past>>
-------------------------------------------------------------------------------
TokenValid(t)        == t \in Tokens
CanChoose(t)         == t \in Either
CanManualExchange(t) == t \in Online \cup Either
Offline(t, choice)   == t \in OfflineOnly \/ (t \in Either /\ choice)

Bare   == NoEndpoint \cap Online
Public == NoEndpoint \cap OfflineOnly

\* What a token's parameters name: tokens that are only offline carry no SBBS
\* address, those of NoEndpoint no endpoint.
PeerOf(t)     == IF t \in OfflineOnly THEN Nothing ELSE WalletOf[t]
EndpointOf(t) == IF t \in NoEndpoint THEN Nothing ELSE WalletOf[t]

\* Mutant: the receiver is only replaced by a token that names one.
ReceiverOf_KeepsOld(t) == IF t \in OfflineOnly THEN peer ELSE PeerOf(t)

ReceiverOf(t) == PeerOf(t)

\* Mutant: the endpoint is only replaced by a token that names one.
IdentityOf_KeepsOld(t) == IF t \in NoEndpoint THEN identity ELSE EndpointOf(t)

IdentityOf(t) == EndpointOf(t)

\* The address book entry of a token before anything is sent to it: an address
\* of this wallet is stored whole.
EntryOf(t) ==
    [token |-> t, own |-> t \in Own, endpoint |-> EndpointOf(t),
     peer  |-> IF t \in Own THEN WalletOf[t] ELSE PeerOf(t)]

Entries == {book[t] : t \in Tokens} \ {Nothing}

\* What a lookup finds: a token that names an SBBS address is looked up by it,
\* any other by itself.
FoundFor(t, e) ==
    IF t \in OfflineOnly THEN e.token = t ELSE e.peer = WalletOf[t]

\* isOwnAddress of the receiver.
PeerIsOwn == \E e \in Entries : e.own /\ peer # Nothing /\ e.peer = peer

\* The address book knows the token as an address of this wallet.
TokenIsOwn == book[token] # Nothing /\ book[token].own

\* Mutant: the token is not checked.
CanSendWith_AnyToken(t, s, enough) == s > 0 /\ enough

CanSendWith(t, s, enough) == TokenValid(t) /\ s > 0 /\ enough
CanSend == CanSendWith(token, sum, sel.enough)

Unselected(a) == [op |-> "selected", sum |-> 0, asset |-> a,
                  shielded |-> FALSE, enough |-> EnoughByDefault, netto |-> 0]

\* The wallet's answer to selectCoins: everything, less the fee, when the
\* coins do not suffice.
Selection(q) ==
    LET fee    == IF q.shielded THEN ShieldedFee ELSE RegularFee
        need   == IF q.asset = Beam THEN q.sum + fee ELSE q.sum
        enough == avail[q.asset] >= need /\ avail[Beam] >= fee
        all    == avail[q.asset]
    IN  [op |-> "selected", sum |-> q.sum, asset |-> q.asset,
         shielded |-> q.shielded, enough |-> enough,
         netto |-> IF enough THEN q.sum
                   ELSE IF q.asset # Beam THEN all
                   ELSE IF all >= fee THEN all - fee ELSE 0]

Pending     == Len(requests) + Len(replies)
CanPost(n)  == Pending + n <= MaxPending
Quiet       == Pending = 0

\* RefreshCsiAsync on the form's new values, after the requests in `posted'.
RefreshCsi(t, choice, s, a, posted) ==
    IF s = 0
    THEN sel' = Unselected(a) /\ requests' = posted
    ELSE /\ requests' = Append(posted, [op |-> "select", sum |-> s, asset |-> a,
                                        shielded |-> Offline(t, choice)])
         /\ UNCHANGED sel

\* Of the button only what RefreshCsiAsync does: with no amount it is off.
RefreshButton(s) == button' = (button /\ s # 0)
-------------------------------------------------------------------------------
Init ==
    /\ token \in Text /\ txParams = Nothing
    /\ peer = Nothing /\ identity = Nothing /\ comment = Nothing
    /\ choiceOffline = FALSE /\ manualExchange = FALSE /\ maxPossible = FALSE
    /\ sum = 0 /\ asset = Beam /\ sel = Unselected(Beam)
    /\ button = FALSE /\ dialog = Nothing
    /\ typed = Nothing /\ sent = Nothing
    /\ requests = <<>> /\ replies = <<>>
    /\ avail \in Balances
    /\ \E known \in SUBSET Tokens :
          book = [t \in Tokens |-> IF t \in known THEN EntryOf(t) ELSE Nothing]
    /\ fault = "none"
-------------------------------------------------------------------------------
(* The user.  The confirmation dialog is modal.                            *)

Free    == fault = "none"
Editing == Free /\ dialog = Nothing
Waits   == Patient => Quiet

\* extractParameters: loads the token, looks its address up, then refreshes.
ExtractParameters(t) ==
    LET s == IF t \in Invoices THEN InvoiceSum ELSE sum
        a == IF t \in Invoices THEN InvoiceAsset ELSE asset
    IN  /\ txParams' = t
        /\ peer'     = ReceiverOf(t)
        /\ identity' = IdentityOf(t)
        /\ sum'      = s
        /\ asset'    = a
        /\ typed'    = IF t \in Invoices THEN Nothing ELSE typed
        /\ RefreshCsi(t, FALSE, s, a,
                      Append(requests, [op |-> "lookup", token |-> t]))

SetToken(t) ==
    /\ Editing /\ Waits
    /\ t # token
    /\ CanPost(IF sum = 0 /\ t \notin Invoices THEN 1 ELSE 2)
    /\ token' = t
    /\ choiceOffline' = FALSE
    /\ IF TokenValid(t)
       THEN ExtractParameters(t)
       ELSE UNCHANGED <<txParams, peer, identity, sum, asset, typed, sel,
                        requests>>
    /\ button' = CanSendWith(t, sum', sel'.enough)
    /\ UNCHANGED <<comment, manualExchange, maxPossible, dialog, replies,
                   chain, sent, fault>>

SetAssetId(a) ==
    /\ Editing
    /\ a # asset
    /\ CanPost(1)
    /\ asset' = a
    /\ RefreshCsi(token, choiceOffline, sum, a, requests)
    /\ RefreshButton(sum)
    /\ UNCHANGED <<token, txParams, peer, identity, comment, choiceOffline,
                   manualExchange, maxPossible, sum, dialog, replies, chain,
                   past>>

\* Mutant: the search for the largest amount stays on.
SetSendAmount_KeepsMax(s) ==
    /\ Editing
    /\ s # sum
    /\ CanPost(1)
    /\ sum' = s
    /\ typed' = s
    /\ RefreshCsi(token, choiceOffline, s, asset, requests)
    /\ RefreshButton(s)
    /\ UNCHANGED <<token, txParams, peer, identity, comment, choiceOffline,
                   maxPossible, manualExchange, asset, dialog, replies, chain,
                   sent, fault>>

SetSendAmount(s) ==
    /\ Editing
    /\ s # sum
    /\ CanPost(1)
    /\ maxPossible' = FALSE
    /\ sum' = s
    /\ typed' = s
    /\ RefreshCsi(token, choiceOffline, s, asset, requests)
    /\ RefreshButton(s)
    /\ UNCHANGED <<token, txParams, peer, identity, comment, choiceOffline,
                   manualExchange, asset, dialog, replies, chain, sent, fault>>

\* Mutant: the coins are not selected anew.
SetMaxPossibleAmount_NoRefresh ==
    /\ Editing
    /\ maxPossible' = TRUE
    /\ sum' = avail[asset]
    /\ typed' = Nothing
    /\ UNCHANGED <<token, txParams, peer, identity, comment, choiceOffline,
                   sel, button, manualExchange, asset, dialog, line, chain,
                   sent, fault>>

SetMaxPossibleAmount ==
    /\ Editing
    /\ CanPost(1)
    /\ maxPossible' = TRUE
    /\ sum' = avail[asset]
    /\ typed' = Nothing
    /\ RefreshCsi(token, choiceOffline, sum', asset, requests)
    /\ RefreshButton(sum')
    /\ UNCHANGED <<token, txParams, peer, identity, comment, choiceOffline,
                   manualExchange, asset, dialog, replies, chain, sent, fault>>

\* Mutant: the coins selected for the other type stay.
SetChoiceOffline_NoRefresh(value) ==
    /\ Editing
    /\ CanChoose(token)
    /\ choiceOffline # value
    /\ choiceOffline' = value
    /\ manualExchange' = (manualExchange /\ ~value)
    /\ UNCHANGED <<token, txParams, peer, identity, comment, maxPossible, sum,
                   asset, sel, page, line, chain, past>>

SetChoiceOffline(value) ==
    /\ Editing
    /\ CanChoose(token)
    /\ choiceOffline # value
    /\ CanPost(1)
    /\ choiceOffline' = value
    /\ manualExchange' = (manualExchange /\ ~value)
    /\ RefreshCsi(token, value, sum, asset, requests)
    /\ RefreshButton(sum)
    /\ UNCHANGED <<token, txParams, peer, identity, comment, maxPossible, sum,
                   asset, dialog, replies, chain, past>>

\* Mutant: the offline choice survives the manual exchange.
SetManualExchange_KeepsOffline(value) ==
    /\ Editing
    /\ manualExchange' = (value /\ CanManualExchange(token))
    /\ UNCHANGED <<token, txParams, peer, identity, comment, maxPossible, sum,
                   asset, choiceOffline, sel, page, line, chain, past>>

\* Turning the manual exchange on forces the online type.
SetManualExchange(value) ==
    /\ Editing
    /\ manualExchange # (value /\ CanManualExchange(token))
    /\ CanPost(1)
    /\ manualExchange' = (value /\ CanManualExchange(token))
    /\ IF manualExchange' /\ choiceOffline
       THEN /\ choiceOffline' = FALSE
            /\ RefreshCsi(token, FALSE, sum, asset, requests)
            /\ RefreshButton(sum)
       ELSE UNCHANGED <<choiceOffline, sel, requests, button>>
    /\ UNCHANGED <<token, txParams, peer, identity, comment, maxPossible, sum,
                   asset, dialog, replies, chain, past>>

SetComment ==
    /\ Editing
    /\ comment # Nothing
    /\ comment' = Nothing
    /\ UNCHANGED <<token, txParams, peer, identity, choiceOffline,
                   manualExchange, maxPossible, sum, asset, sel, page, line,
                   chain, past>>

\* The Send button opens a dialog that shows the values of this moment.
PressSend ==
    /\ Editing /\ Waits
    /\ button
    /\ dialog' = [token |-> token, sum |-> sum, asset |-> asset,
                  offline |-> Offline(token, choiceOffline)]
    /\ UNCHANGED <<form, sel, button, line, chain, past>>

CancelDialog ==
    /\ Free
    /\ dialog # Nothing
    /\ dialog' = Nothing
    /\ UNCHANGED <<form, sel, button, line, chain, past>>

Transaction ==
    [token |-> token, params |-> txParams, sum |-> sum, asset |-> asset,
     offline  |-> Offline(token, choiceOffline),
     manual   |-> manualExchange /\ CanManualExchange(token),
     own      |-> TokenIsOwn,
     relabels |-> PeerIsOwn,
     shown    |-> dialog, sel |-> sel]

\* saveReceiverAddress: an address of this wallet only gets a new label.
SaveReceiverAddress ==
    IF PeerIsOwn
    THEN [op |-> "relabel", peer |-> peer]
    ELSE [op |-> "save", entry |-> [token |-> token, own |-> FALSE,
                                    endpoint |-> identity, peer |-> peer]]

\* LoadReceiverParams takes the parameters for a payment of this type.
LoadsReceiver ==
    txParams \in IF Offline(token, choiceOffline) THEN Either \cup OfflineOnly
                                                 ELSE Online \cup Either

\* The dialog is accepted: sendMoney saves the address, then loads the receiver
\* and starts the transaction.
SendMoney ==
    /\ Free
    /\ dialog # Nothing
    /\ CanPost(2)
    /\ dialog' = Nothing
    /\ \/ /\ ~CanSend
          /\ fault' = "canSend"
          /\ UNCHANGED <<requests, sent>>
       \/ /\ CanSend /\ ~LoadsReceiver
          /\ requests' = Append(requests, SaveReceiverAddress)
          /\ fault' = "receiver"
          /\ UNCHANGED sent
       \/ /\ CanSend /\ LoadsReceiver
          /\ requests' = requests \o <<SaveReceiverAddress, [op |-> "start"]>>
          /\ sent' = Transaction
          /\ UNCHANGED fault
    /\ UNCHANGED <<form, sel, button, replies, chain, typed>>

\* Lookups under way when their view goes are still run, and their answers
\* are for nobody: the callback's QPointer guard is empty.
Abandoned(q) == [i \in DOMAIN q |-> IF q[i].op \in {"lookup", "address"}
                                    THEN [op |-> "abandoned"] ELSE q[i]]

\* The page is left and opened again.  Pending selections reach the new one.
NewPage(waiting, answers) ==
    /\ token' \in Text /\ txParams' = Nothing
    /\ peer' = Nothing /\ identity' = Nothing /\ comment' = Nothing
    /\ choiceOffline' = FALSE /\ manualExchange' = FALSE /\ maxPossible' = FALSE
    /\ sum' = 0 /\ asset' = Beam /\ sel' = Unselected(Beam)
    /\ button' = FALSE /\ dialog' = Nothing
    /\ typed' = Nothing /\ sent' = Nothing
    /\ requests' = Abandoned(waiting)
    /\ replies'  = Abandoned(answers)

Leave ==
    /\ Editing
    /\ NewPage(requests, replies)
    /\ UNCHANGED <<chain, fault>>

\* In between, an address is deleted on the page of the address book.
LeaveAndDelete(t) ==
    /\ Editing
    /\ CanPost(1)
    /\ NewPage(Append(requests, [op |-> "delete", token |-> t]), replies)
    /\ UNCHANGED <<chain, fault>>
-------------------------------------------------------------------------------
(* The main thread delivers the answers.                                   *)

Answer(op) == Free /\ replies # <<>> /\ Head(replies).op = op
Received   == replies' = Tail(replies)

\* Mutant: a fixpoint of the search is not recognised.
SearchGoesOn_Forever(r) == ~r.enough /\ maxPossible

\* Whether the search for the largest amount needs another answer.
SearchGoesOn(r) == ~r.enough /\ maxPossible /\ sum # r.netto

\* onCoinsSelected: an answer for another amount or asset is dropped; the
\* search for the largest amount goes on with what the coins would cover.
OnCoinsSelected ==
    /\ Answer("selected") /\ Received
    /\ LET r == Head(replies) IN
       IF r.sum # sum \/ r.asset # asset
       THEN UNCHANGED <<sum, sel, requests, button>>
       ELSE IF SearchGoesOn(r)
       THEN /\ sum' = r.netto
            /\ IF r.netto = 0
               THEN RefreshCsi(token, choiceOffline, 0, asset, requests)
               ELSE /\ sel' = r
                    /\ requests' = Append(requests,
                          [op |-> "select", sum |-> r.netto, asset |-> asset,
                           shielded |-> Offline(token, choiceOffline)])
            /\ RefreshButton(r.netto)
       ELSE /\ sel' = r
            /\ button' = CanSendWith(token, sum, r.enough)
            /\ UNCHANGED <<sum, requests>>
    /\ UNCHANGED <<token, txParams, peer, identity, comment, choiceOffline,
                   manualExchange, maxPossible, asset, dialog, chain, past>>

\* An address without endpoint is expected of a public offline token, and of an
\* SBBS address when the form holds just that.
NeedsNoEndpoint(e) ==
    \/ e.token \in Public
    \/ e.token \in Online /\ token \in Bare /\ peer = WalletOf[token]

\* The assertion of onGetAddressReturned that an entry trips on this form.
Mismatch(e) ==
    CASE peer # Nothing /\ peer # e.peer -> "walletID"
      [] peer = Nothing /\ e.token \notin OfflineOnly -> "type"
      [] OTHER ->
           IF identity # Nothing
           THEN IF e.endpoint = Nothing
                THEN IF e.token \in Online THEN "none" ELSE "endpoint"
                ELSE IF e.endpoint = identity THEN "none" ELSE "identity"
           ELSE IF e.endpoint # Nothing \/ NeedsNoEndpoint(e)
                THEN "none" ELSE "endpoint"

\* onGetAddressReturned: what the parameters lack comes from the entry; one
\* that is not of the current receiver trips an assertion.
OnGetAddressReturned ==
    /\ Answer("address") /\ Received
    /\ LET r == Head(replies)
           e == r.entry
       IN  IF e = Nothing
           THEN comment' = Nothing /\ UNCHANGED <<peer, identity, fault>>
           ELSE /\ comment'  = r.token
                /\ peer'     = IF peer = Nothing THEN e.peer ELSE peer
                /\ identity' = IF identity = Nothing THEN e.endpoint
                                                    ELSE identity
                /\ fault'    = Mismatch(e)
    /\ UNCHANGED <<token, txParams, choiceOffline, manualExchange,
                   maxPossible, sum, asset, sel, page, requests, chain, typed,
                   sent>>

\* The callback of saveReceiverAddress writes the label to what it was given.
OnRelabel ==
    /\ Answer("entry") /\ Received
    /\ LET e == Head(replies).entry IN
       IF e # Nothing
       THEN /\ requests' = Append(requests, [op |-> "save", entry |-> e])
            /\ UNCHANGED fault
       ELSE fault' = "relabel" /\ UNCHANGED requests
    /\ UNCHANGED <<form, sel, page, chain, typed, sent>>

\* sendMoneyVerified: the page is done.
OnSendMoneyVerified ==
    /\ Answer("verified")
    /\ NewPage(requests, Tail(replies))
    /\ UNCHANGED <<chain, fault>>

\* The guard of a lookup finds its view gone.
OnAbandoned ==
    /\ Answer("abandoned") /\ Received
    /\ UNCHANGED <<form, sel, page, requests, chain, past>>

Deliver ==
    \/ OnCoinsSelected
    \/ OnGetAddressReturned
    \/ OnRelabel
    \/ OnSendMoneyVerified
    \/ OnAbandoned
-------------------------------------------------------------------------------
(* The wallet thread serves the requests in order.                         *)

Request(op) == Free /\ requests # <<>> /\ Head(requests).op = op
Served      == requests' = Tail(requests)

SelectCoins ==
    /\ Request("select") /\ Served
    /\ replies' = Append(replies, Selection(Head(requests)))
    /\ UNCHANGED <<form, sel, page, chain, past>>

\* The address found, or Nothing; of several it is the database's choice.
OneOf(S) == IF S = {} THEN {Nothing} ELSE S

LookUp ==
    /\ Request("lookup") /\ Served
    /\ LET t == Head(requests).token IN
       \E e \in OneOf({x \in Entries : FoundFor(t, x)}) :
          replies' = Append(replies, [op |-> "address", token |-> t,
                                      entry |-> e])
    /\ UNCHANGED <<form, sel, page, chain, past>>

LookUpToRelabel ==
    /\ Request("relabel") /\ Served
    /\ \E e \in OneOf({x \in Entries : x.peer = Head(requests).peer}) :
          replies' = Append(replies, [op |-> "entry", entry |-> e])
    /\ UNCHANGED <<form, sel, page, chain, past>>

SaveAddress ==
    /\ Request("save") /\ Served
    /\ LET e == Head(requests).entry IN book' = [book EXCEPT ![e.token] = e]
    /\ UNCHANGED <<form, sel, page, replies, avail, past>>

DeleteAddress ==
    /\ Request("delete") /\ Served
    /\ book' = [book EXCEPT ![Head(requests).token] = Nothing]
    /\ UNCHANGED <<form, sel, page, replies, avail, past>>

StartTransaction ==
    /\ Request("start") /\ Served
    /\ replies' = Append(replies, [op |-> "verified"])
    /\ UNCHANGED <<form, sel, page, chain, past>>

GetAddressForNobody ==
    /\ Request("abandoned") /\ Served
    /\ replies' = Append(replies, [op |-> "abandoned"])
    /\ UNCHANGED <<form, sel, page, chain, past>>

Serve ==
    \/ SelectCoins
    \/ LookUp
    \/ LookUpToRelabel
    \/ SaveAddress
    \/ DeleteAddress
    \/ StartTransaction
    \/ GetAddressForNobody

BalanceChanges(balance) ==
    /\ Free
    /\ avail' = balance
    /\ UNCHANGED <<form, sel, page, line, book, past>>
-------------------------------------------------------------------------------
User ==
    \/ \E t \in Tokens \cup Text : SetToken(t)
    \/ \E a \in Assets : SetAssetId(a)
    \/ \E s \in Amounts : SetSendAmount(s)
    \/ SetMaxPossibleAmount
    \/ \E value \in BOOLEAN : SetChoiceOffline(value)
    \/ \E value \in BOOLEAN : SetManualExchange(value)
    \/ SetComment
    \/ PressSend
    \/ CancelDialog
    \/ SendMoney
    \/ Leave
    \/ \E t \in Tokens : LeaveAndDelete(t)

BalanceChange == \E balance \in Balances : BalanceChanges(balance)

Next ==
    \/ User
    \/ Deliver
    \/ Serve
    \/ BalanceChange
    \/ fault # "none" /\ UNCHANGED vars   \* the process has stopped

Spec == Init /\ [][Next]_vars

\* The wallet thread serves and the event loop delivers what is waiting.
FairSpec == Spec /\ WF_vars(Deliver) /\ WF_vars(Serve)
-------------------------------------------------------------------------------
(* Properties *)

Input == Tokens \cup Text

Selected == [op : {"selected"}, sum : Amounts, asset : Assets,
             shielded : BOOLEAN, enough : BOOLEAN, netto : Amounts]

Wallet == Wallets \cup {Nothing}

\* An SBBS address and an endpoint, where both are known, are of one wallet.
OneWallet(p, i) == p = Nothing \/ i = Nothing \/ p = i

Address ==
    {a \in [token : Tokens, own : BOOLEAN, peer : Wallet, endpoint : Wallet] :
        OneWallet(a.peer, a.endpoint)}

RequestType ==
    [op : {"select"}, sum : Amounts, asset : Assets, shielded : BOOLEAN]
    \cup [op : {"lookup", "delete"}, token : Tokens]
    \cup [op : {"relabel"}, peer : Wallets]
    \cup [op : {"save"}, entry : Address]
    \cup [op : {"start", "abandoned"}]

ReplyType ==
    Selected
    \cup [op : {"address"}, token : Tokens, entry : Address \cup {Nothing}]
    \cup [op : {"entry"}, entry : Address \cup {Nothing}]
    \cup [op : {"verified", "abandoned"}]

ShownType == [token : Input, sum : Amounts, asset : Assets, offline : BOOLEAN]

SentType == [token : Tokens, params : Tokens, sum : Amounts, asset : Assets,
             offline : BOOLEAN, manual : BOOLEAN, own : BOOLEAN,
             relabels : BOOLEAN, shown : ShownType, sel : Selected]

Faults == {"none", "canSend", "receiver", "walletID", "type", "identity",
           "endpoint", "relabel"}

\* Every field of the form, the two queues and the wallet holds a value of its
\* type: in particular no amount the search computes leaves the range, and no
\* address stored, or being stored, mixes two wallets.
TypeOK ==
    /\ token \in Input
    /\ txParams \in Tokens \cup {Nothing}
    /\ peer \in Wallet
    /\ identity \in Wallet
    /\ comment \in Tokens \cup {Nothing}
    /\ choiceOffline \in BOOLEAN
    /\ manualExchange \in BOOLEAN
    /\ maxPossible \in BOOLEAN
    /\ sum \in Amounts
    /\ asset \in Assets
    /\ sel \in Selected
    /\ button \in BOOLEAN
    /\ dialog \in ShownType \cup {Nothing}
    /\ requests \in Seq(RequestType)
    /\ replies \in Seq(ReplyType)
    /\ avail \in Balances
    /\ book \in [Tokens -> Address \cup {Nothing}]
    /\ \A t \in Tokens : book[t] # Nothing => book[t].token = t
    /\ typed \in Amounts \cup {Nothing}
    /\ sent \in SentType \cup {Nothing}
    /\ fault \in Faults

\* The SBBS address and endpoint of a form or an entry are those of the token,
\* as far as known.
Fits(t, p, i) ==
    /\ p \in {PeerOf(t), WalletOf[t]}
    /\ i \in {EndpointOf(t), WalletOf[t]}

\* However the user's edits and the late answers interleave, once nothing is
\* under way the form is consistent: the selection that decides canSend, fee
\* and change is the one for the shown amount, asset and transaction type, the
\* receiver is the token's and the comment is not another token's label.  (Of
\* a public offline token, whose parameters name no receiver, only the latter.)
SettledForm ==
    Quiet /\ fault = "none" /\ TokenValid(token) =>
        /\ txParams = token
        /\ token \notin Public => Fits(token, peer, identity)
        /\ comment \in {Nothing, token}
        /\ sum > 0 => /\ sel.sum = sum
                      /\ sel.asset = asset
                      /\ sel.shielded = Offline(token, choiceOffline)

\* A transaction is built from the parameters of the token it names, and a
\* Slatepack (manual) exchange is never started as an offline payment, which
\* has no interactive leg to carry.
SentIsConsistent ==
    sent # Nothing => /\ sent.params = sent.token
                      /\ sent.manual => ~sent.offline

\* An amount the user typed stands until the user or a token asks for another:
\* the search for the largest amount never replaces it.
TypedAmountStands == typed # Nothing => sum = typed

\* What the confirmation dialog showed is what is sent, on coins selected for
\* exactly that payment, and an address of this wallet is relabelled, never
\* saved as a contact.  (Of a user who waits for pending answers.)
ConfirmedIsSent ==
    sent # Nothing =>
        /\ sent.shown = [token |-> sent.token, sum |-> sent.sum,
                         asset |-> sent.asset, offline |-> sent.offline]
        /\ sent.sel.sum = sent.sum
        /\ sent.sel.asset = sent.asset
        /\ sent.sel.shielded = sent.offline
        /\ sent.sel.enough
        /\ sent.own => sent.relabels

\* Such a user meets no failed assertion of the page: neither those on the
\* address, type and endpoint of an entry, nor those of sendMoney, nor the
\* relabelling of an address that is no longer there.
PatientMeetsNoFault == fault = "none"

\* Nor does such a user's page ever store an address under a wallet that is not
\* its token's.
BookFits == \A e \in Entries : Fits(e.token, e.peer, e.endpoint)

\* The search for the largest amount ends: once the user and the balances leave
\* it alone, the page comes to rest (or an assertion has stopped the process).
SearchEnds ==
    (<>[][~(User \/ BalanceChange)]_vars) => []<>(Quiet \/ fault # "none")

\* assert(!"unexpected wallet id in send::onGetAddressReturned")
ExpectedWalletIdAssert == fault # "walletID"

===============================================================================
