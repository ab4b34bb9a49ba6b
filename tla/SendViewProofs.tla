--------------------------- MODULE SendViewProofs ---------------------------
(***************************************************************************)
(* The send page for all tokens, assets, fees and any number of requests   *)
(* under way: SettledForm, SentIsConsistent and TypedAmountStands of every *)
(* user, ConfirmedIsSent, PatientMeetsNoFault and BookFits of a patient    *)
(* one.                                                                    *)
(***************************************************************************)
EXTENDS SendView, TLAPS

\* No entry of a queue is of this kind.
None(q, op) == \A i \in 1..Len(q) : q[i].op # op

\* The last entry of this kind is for this amount, asset and type.
LastIs(q, op, s, a, h) ==
    \E i \in 1..Len(q) :
        /\ q[i].op = op
        /\ q[i].sum = s /\ q[i].asset = a /\ q[i].shielded = h
        /\ \A j \in 1..Len(q) : j > i => q[j].op # op

\* The newest selection asked for is the one for this amount, asset and type,
\* be it still to be served, to be delivered, or filled in.
Newest(rq, rp, x, s, a, h) ==
    \/ LastIs(rq, "select", s, a, h)
    \/ None(rq, "select") /\ LastIs(rp, "selected", s, a, h)
    \/ /\ None(rq, "select") /\ None(rp, "selected")
       /\ x.sum = s /\ x.asset = a /\ x.shielded = h

LookedUp(rq, rp) == None(rq, "lookup") /\ None(rp, "address")

\* The last entry of this kind is of this token.
LastOf(q, op, t) ==
    \E i \in 1..Len(q) :
        /\ q[i].op = op /\ q[i].token = t
        /\ \A j \in 1..Len(q) : j > i => q[j].op # op

\* The newest lookup is the one of this token, be it still to be served, to be
\* delivered, or filled in as the label.
Asked(rq, rp, label, t) ==
    \/ LastOf(rq, "lookup", t)
    \/ None(rq, "lookup") /\ LastOf(rp, "address", t)
    \/ LookedUp(rq, rp) /\ label \in {Nothing, t}

\* What the parameters of a token name, the form holds.
Named(t, p, i) ==
    /\ t \notin OfflineOnly => p = WalletOf[t]
    /\ t \notin NoEndpoint => i = WalletOf[t]

\* Parameters and receiver are the token's, and so is the label, unless its
\* entry is still under way; the form never mixes two wallets.
TokenInv ==
    fault = "none" =>
        /\ OneWallet(peer, identity)
        /\ TokenValid(token) =>
              /\ txParams = token
              /\ Named(token, peer, identity)
              /\ Asked(requests, replies, comment, token)

\* The coins are selected, or being selected, for the form as it is.
CoinsInv ==
    TokenValid(token) /\ sum > 0 =>
        Newest(requests, replies, sel, sum, asset, Offline(token, choiceOffline))

\* The manual exchange and the offline type exclude each other; a typed amount
\* ends the search for the largest one.
FormInv ==
    /\ ~(manualExchange /\ choiceOffline)
    /\ typed # Nothing => ~maxPossible
    /\ TypedAmountStands
    /\ SentIsConsistent

IInv == TypeOK /\ TokenInv /\ CoinsInv /\ FormInv

-----------------------------------------------------------------------------
\* What is taken off the front of a queue leaves the rest in its order.
LEMMA TailOf ==
    ASSUME NEW S, NEW s \in Seq(S), s # <<>>
    PROVE  /\ Head(s) \in S /\ Head(s) = s[1]
           /\ Tail(s) \in Seq(S)
           /\ Len(s) \in Nat \ {0}
           /\ Len(Tail(s)) = Len(s) - 1
           /\ \A i \in 1..Len(s) - 1 : Tail(s)[i] = s[i + 1]
  OBVIOUS

\* What is put at the end of a queue leaves the rest in its place.
LEMMA AppendTo ==
    ASSUME NEW S, NEW s \in Seq(S), NEW e \in S
    PROVE  /\ Append(s, e) \in Seq(S)
           /\ Len(s) \in Nat
           /\ Len(Append(s, e)) = Len(s) + 1
           /\ Append(s, e)[Len(s) + 1] = e
           /\ \A i \in 1..Len(s) : Append(s, e)[i] = s[i]
  OBVIOUS

\* An entry of another kind put at the end changes nothing for this kind.
LEMMA OtherAppended ==
    ASSUME NEW S, NEW q \in Seq(S), NEW e \in S, NEW op, e.op # op
    PROVE  /\ None(Append(q, e), op) <=> None(q, op)
           /\ \A s, a, h : LastIs(q, op, s, a, h) => LastIs(Append(q, e), op, s, a, h)
  <1> DEFINE n == Len(q)
             r == Append(q, e)
  <1>1. /\ n \in Nat /\ Len(r) = n + 1 /\ r[n + 1] = e
        /\ \A i \in 1..n : r[i] = q[i]
    BY AppendTo
  <1> HIDE DEF n, r
  <1>2. None(q, op) <=> \A i \in 1..n : q[i].op # op
    BY DEF None, n
  <1>3. None(r, op) <=> \A i \in 1..(n + 1) : r[i].op # op
    BY <1>1 DEF None
  <1>4. None(r, op) <=> None(q, op)
    BY <1>1, <1>2, <1>3
  <1>5. ASSUME NEW s, NEW a, NEW h, LastIs(q, op, s, a, h)
        PROVE  LastIs(r, op, s, a, h)
    <2>1. PICK i \in 1..n :
              /\ q[i].op = op /\ q[i].sum = s /\ q[i].asset = a /\ q[i].shielded = h
              /\ \A j \in 1..n : j > i => q[j].op # op
      BY <1>5 DEF LastIs, n
    <2>2. /\ i \in 1..Len(r)
          /\ r[i].op = op /\ r[i].sum = s /\ r[i].asset = a /\ r[i].shielded = h
      BY <1>1, <2>1
    <2>3. \A j \in 1..Len(r) : j > i => r[j].op # op
      BY <1>1, <2>1
    <2> QED
      BY <2>2, <2>3 DEF LastIs
  <1> QED
    BY <1>4, <1>5 DEF r

\* An entry of this kind put at the end is the last one.
LEMMA SameAppended ==
    ASSUME NEW S, NEW q \in Seq(S), NEW e \in S
    PROVE  /\ LastIs(Append(q, e), e.op, e.sum, e.asset, e.shielded)
           /\ ~None(Append(q, e), e.op)
  <1>1. /\ Len(q) \in Nat /\ Len(Append(q, e)) = Len(q) + 1
        /\ Append(q, e)[Len(q) + 1] = e
    BY AppendTo
  <1> QED
    BY <1>1 DEF LastIs, None

\* Taking off the front leaves the last entry of a kind, or takes the only one.
LEMMA TakenOff ==
    ASSUME NEW S, NEW q \in Seq(S), q # <<>>, NEW op
    PROVE  /\ None(q, op) <=> Head(q).op # op /\ None(Tail(q), op)
           /\ \A s, a, h : LastIs(q, op, s, a, h) =>
                  \/ LastIs(Tail(q), op, s, a, h)
                  \/ /\ None(Tail(q), op)
                     /\ Head(q).op = op /\ Head(q).sum = s
                     /\ Head(q).asset = a /\ Head(q).shielded = h
  <1> DEFINE n == Len(q)
             r == Tail(q)
  <1>1. /\ n \in Nat \ {0} /\ Len(r) = n - 1 /\ Head(q) = q[1]
        /\ \A i \in 1..n - 1 : r[i] = q[i + 1]
    BY TailOf
  <1> HIDE DEF n, r
  <1>2. \A i \in 1..n : i = 1 \/ (i - 1 \in 1..n - 1 /\ q[i] = r[i - 1])
    BY <1>1
  <1>3. None(q, op) <=> \A i \in 1..n : q[i].op # op
    BY DEF None, n
  <1>4. None(r, op) <=> \A i \in 1..n - 1 : r[i].op # op
    BY <1>1 DEF None
  <1>5. None(q, op) <=> Head(q).op # op /\ None(r, op)
    <2>1. ASSUME None(q, op) PROVE Head(q).op # op /\ None(r, op)
      BY <1>1, <1>3, <1>4, <2>1
    <2>2. ASSUME Head(q).op # op, None(r, op) PROVE None(q, op)
      BY <1>1, <1>2, <1>3, <1>4, <2>2
    <2> QED
      BY <2>1, <2>2
  <1>6. ASSUME NEW s, NEW a, NEW h, LastIs(q, op, s, a, h)
        PROVE  \/ LastIs(r, op, s, a, h)
               \/ /\ None(r, op)
                  /\ Head(q).op = op /\ Head(q).sum = s
                  /\ Head(q).asset = a /\ Head(q).shielded = h
    <2>1. PICK i \in 1..n :
              /\ q[i].op = op /\ q[i].sum = s /\ q[i].asset = a /\ q[i].shielded = h
              /\ \A j \in 1..n : j > i => q[j].op # op
      BY <1>6 DEF LastIs, n
    <2>2. CASE i = 1
      <3>1. \A k \in 1..n - 1 : r[k].op # op
        BY <1>1, <2>1, <2>2
      <3> QED
        BY <1>1, <1>4, <2>1, <2>2, <3>1
    <2>3. CASE i # 1
      <3>1. /\ i - 1 \in 1..Len(r)
            /\ r[i - 1] = q[i]
        BY <1>1, <1>2, <2>3
      <3>2. ASSUME NEW k \in 1..Len(r), k > i - 1
            PROVE  r[k].op # op
        <4>1. k + 1 \in 1..n /\ k + 1 > i /\ r[k] = q[k + 1]
          BY <1>1, <3>2
        <4> QED
          BY <2>1, <4>1
      <3> QED
        BY <2>1, <3>1, <3>2 DEF LastIs
    <2> QED
      BY <2>2, <2>3
  <1> QED
    BY <1>5, <1>6 DEF r

\* A queue whose lookups are abandoned has none, and as many entries as before.
LEMMA AbandonedHasNone ==
    ASSUME NEW S, NEW q \in Seq(S), [op |-> "abandoned"] \in S
    PROVE  /\ Abandoned(q) \in Seq(S)
           /\ Len(Abandoned(q)) = Len(q)
           /\ None(Abandoned(q), "lookup") /\ None(Abandoned(q), "address")
  <1>1. /\ Len(q) \in Nat /\ DOMAIN q = 1..Len(q)
        /\ \A i \in 1..Len(q) : q[i] \in S
    OBVIOUS
  <1>2. Abandoned(q) \in [1..Len(q) -> S]
    BY <1>1 DEF Abandoned
  <1>3. Abandoned(q) \in Seq(S) /\ Len(Abandoned(q)) = Len(q)
    BY <1>1, <1>2
  <1>4. \A i \in 1..Len(q) : Abandoned(q)[i].op \notin {"lookup", "address"}
    BY <1>1 DEF Abandoned
  <1> QED
    BY <1>3, <1>4 DEF None

-----------------------------------------------------------------------------
\* The facts about the constants the proofs use.
LEMMA Constants ==
    /\ Tokens \cap Text = {} /\ Text # {}
    /\ Nothing \notin Tokens /\ Nothing \notin Text
    /\ Invoices \subseteq Tokens /\ Own \subseteq Tokens /\ OfflineOnly \subseteq Tokens
    /\ Either \cap OfflineOnly = {} /\ Online \cap OfflineOnly = {}
    /\ MaxAmount \in Nat /\ RegularFee \in Nat /\ ShieldedFee \in Nat
    /\ Assets \subseteq Nat /\ Beam \in Assets /\ Beam = 0
    /\ InvoiceSum \in Amounts /\ InvoiceSum # 0 /\ InvoiceAsset \in Assets
    /\ Balances \subseteq [Assets -> Amounts]
    /\ EnoughByDefault \in BOOLEAN /\ Patient \in BOOLEAN
    /\ \A t \in Tokens : WalletOf[t] \in Wallets
    /\ Nothing \notin Wallets
    /\ NoEndpoint \cap Either = {} /\ NoEndpoint \subseteq Tokens
    /\ Own \cap NoEndpoint = {} /\ Tokens = Online \cup Either \cup OfflineOnly
  BY TokensAssumption, WalletsAssumption, AmountsAssumption DEF Tokens, Beam

\* What a token names is a wallet, its own, or nothing.
LEMMA ReceiverTypes ==
    \A t \in Tokens : /\ PeerOf(t) \in Wallet /\ EndpointOf(t) \in Wallet
                     /\ OneWallet(PeerOf(t), EndpointOf(t))
                     /\ Named(t, PeerOf(t), EndpointOf(t))
                     /\ ReceiverOf(t) = PeerOf(t) /\ IdentityOf(t) = EndpointOf(t)
  BY Constants DEF PeerOf, EndpointOf, Wallet, OneWallet, Named, ReceiverOf, IdentityOf

\* An address of one wallet, be it without SBBS address or endpoint.
LEMMA AddressType ==
    /\ \A t \in Tokens, o \in BOOLEAN : \A p, i \in Wallet :
          OneWallet(p, i) =>
             [token |-> t, own |-> o, endpoint |-> i, peer |-> p] \in Address
    /\ \A a \in Address : /\ a.token \in Tokens /\ a.own \in BOOLEAN
                           /\ a.peer \in Wallet /\ a.endpoint \in Wallet
                           /\ OneWallet(a.peer, a.endpoint)
    /\ Nothing \in Wallet /\ Wallets \subseteq Wallet
  BY DEF Address, OneWallet, Wallet

\* The type of a payment is offline or not.
LEMMA OfflineType == \A t, c : Offline(t, c) \in BOOLEAN
  BY Zenon DEF Offline

\* Every request the page makes is of the type.
LEMMA RequestTypes ==
    /\ \A s \in Amounts, a \in Assets : \A t, c :
           [op |-> "select", sum |-> s, asset |-> a, shielded |-> Offline(t, c)]
              \in RequestType
    /\ \A t \in Tokens, o \in {"lookup", "delete"} :
           [op |-> o, token |-> t] \in RequestType
    /\ \A w \in Wallets : [op |-> "relabel", peer |-> w] \in RequestType
    /\ \A e \in Address : [op |-> "save", entry |-> e] \in RequestType
    /\ [op |-> "start"] \in RequestType
    /\ [op |-> "abandoned"] \in RequestType
  <1>1. \A s \in Amounts, a \in Assets, h \in BOOLEAN :
           [op |-> "select", sum |-> s, asset |-> a, shielded |-> h] \in RequestType
    BY DEF RequestType
  <1>2. /\ \A t \in Tokens, o \in {"lookup", "delete"} :
             [op |-> o, token |-> t] \in RequestType
        /\ \A w \in Wallets : [op |-> "relabel", peer |-> w] \in RequestType
        /\ \A e \in Address : [op |-> "save", entry |-> e] \in RequestType
        /\ [op |-> "start"] \in RequestType
        /\ [op |-> "abandoned"] \in RequestType
    BY DEF RequestType
  <1> QED
    BY <1>1, <1>2, OfflineType, Zenon

\* Every answer is of the type.
LEMMA ReplyTypes ==
    /\ Selected \subseteq ReplyType
    /\ \A t \in Tokens, e \in Address \cup {Nothing} :
           /\ [op |-> "address", token |-> t, entry |-> e] \in ReplyType
           /\ [op |-> "entry", entry |-> e] \in ReplyType
    /\ [op |-> "verified"] \in ReplyType
    /\ [op |-> "abandoned"] \in ReplyType
  BY DEF ReplyType

\* What a request or an answer of some kind holds.
LEMMA FieldTypes ==
    /\ \A q \in RequestType :
           /\ q.op = "select" => q.sum \in Amounts /\ q.asset \in Assets
                                 /\ q.shielded \in BOOLEAN
           /\ q.op \in {"lookup", "delete"} => q.token \in Tokens
           /\ q.op = "relabel" => q.peer \in Wallets
           /\ q.op = "save" => q.entry \in Address
    /\ \A r \in ReplyType :
           /\ r.op = "selected" => r \in Selected
           /\ r.op = "address" => r.token \in Tokens
           /\ r.op \in {"address", "entry"} => r.entry \in Address \cup {Nothing}
    /\ \A r \in Selected :
           /\ r.op = "selected" /\ r.sum \in Amounts /\ r.asset \in Assets
           /\ r.netto \in Amounts
           /\ r.enough \in BOOLEAN /\ r.shielded \in BOOLEAN
  BY DEF RequestType, ReplyType, Selected

\* An empty selection is of the type.
LEMMA UnselectedType == \A a \in Assets : Unselected(a) \in Selected
  BY Constants DEF Unselected, Selected, Amounts

\* The wallet selects for what it was asked, and never more than it has.
LEMMA SelectionType ==
    ASSUME NEW q \in RequestType, q.op = "select", avail \in Balances
    PROVE  /\ Selection(q) \in Selected
           /\ Selection(q).sum = q.sum /\ Selection(q).asset = q.asset
           /\ Selection(q).shielded = q.shielded
  <1> DEFINE fee    == IF q.shielded THEN ShieldedFee ELSE RegularFee
             need   == IF q.asset = Beam THEN q.sum + fee ELSE q.sum
             enough == avail[q.asset] >= need /\ avail[Beam] >= fee
             all    == avail[q.asset]
             netto  == IF enough THEN q.sum
                       ELSE IF q.asset # Beam THEN all
                       ELSE IF all >= fee THEN all - fee ELSE 0
  <1>1. q.sum \in Amounts /\ q.asset \in Assets /\ q.shielded \in BOOLEAN
    BY FieldTypes
  <1>2. all \in Amounts /\ fee \in Nat
    BY <1>1, Constants
  <1>3. enough \in BOOLEAN
    BY Zenon
  <1>4. netto \in Amounts
    <2> HIDE DEF enough, fee, all
    <2> QED
      BY <1>1, <1>2, Constants DEF Amounts
  <1>5. Selection(q) = [op |-> "selected", sum |-> q.sum, asset |-> q.asset,
                        shielded |-> q.shielded, enough |-> enough, netto |-> netto]
    BY Zenon DEF Selection
  <1> HIDE DEF enough, netto
  <1> QED
    BY <1>1, <1>3, <1>4, <1>5 DEF Selected

-----------------------------------------------------------------------------
\* Refreshing the coins keeps the types.
LEMMA RefreshTypes ==
    ASSUME NEW t, NEW c, NEW s \in Amounts, NEW a \in Assets,
           NEW posted \in Seq(RequestType), sel \in Selected,
           RefreshCsi(t, c, s, a, posted)
    PROVE  sel' \in Selected /\ requests' \in Seq(RequestType)
  <1>1. CASE s = 0
    BY <1>1, UnselectedType, Zenon DEF RefreshCsi
  <1>2. CASE s # 0
    <2> DEFINE e == [op |-> "select", sum |-> s, asset |-> a, shielded |-> Offline(t, c)]
    <2>1. e \in RequestType
      BY RequestTypes
    <2>2. sel' = sel /\ requests' = Append(posted, e)
      BY <1>2 DEF RefreshCsi
    <2> HIDE DEF e
    <2> QED
      BY <2>1, <2>2, AppendTo
  <1> QED
    BY <1>1, <1>2

\* Every address is in the book under its token.
BookType(b) ==
    /\ b \in [Tokens -> Address \cup {Nothing}]
    /\ \A t \in Tokens : b[t] # Nothing => b[t].token = t

\* A page made anew is of the types.
LEMMA NewPageTypes ==
    ASSUME TypeOK, NEW rq \in Seq(RequestType), NEW rp \in Seq(ReplyType),
           NewPage(rq, rp), UNCHANGED <<chain, fault>>
    PROVE  TypeOK'
  <1>1. requests' \in Seq(RequestType) /\ replies' \in Seq(ReplyType)
    BY AbandonedHasNone, RequestTypes, ReplyTypes DEF NewPage
  <1>2. sel' \in Selected
    BY UnselectedType, Constants DEF NewPage
  <1>3. /\ choiceOffline' \in BOOLEAN /\ manualExchange' \in BOOLEAN
        /\ maxPossible' \in BOOLEAN /\ button' \in BOOLEAN
    BY Zenon DEF NewPage
  <1>4. /\ token' \in Input /\ txParams' \in Tokens \cup {Nothing}
        /\ peer' \in Wallet /\ identity' \in Wallet
        /\ comment' \in Tokens \cup {Nothing}
        /\ sum' \in Amounts /\ asset' \in Assets
        /\ dialog' \in ShownType \cup {Nothing}
        /\ typed' \in Amounts \cup {Nothing} /\ sent' \in SentType \cup {Nothing}
    BY Constants DEF NewPage, Amounts, Input, Wallet
  <1>5. avail' \in Balances /\ BookType(book') /\ fault' \in Faults
    BY Zenon DEF TypeOK, BookType, chain
  <1> QED
    BY <1>1, <1>2, <1>3, <1>4, <1>5, ZenonT(60) DEF TypeOK, BookType

\* A step that leaves the page as it is, and puts one answer in the queue or
\* takes one request off, keeps the types.
LEMMA QuietTypes ==
    ASSUME TypeOK, requests' \in Seq(RequestType), replies' \in Seq(ReplyType),
           avail' \in Balances, BookType(book'),
           UNCHANGED <<form, sel, page, past>>
    PROVE  TypeOK'
  BY ZenonT(60) DEF TypeOK, BookType, form, page, past

\* The edits of the form keep the types.
LEMMA EditTypes ==
    ASSUME TypeOK,
           \/ \E t \in Tokens \cup Text : SetToken(t)
           \/ \E a \in Assets : SetAssetId(a)
           \/ \E s \in Amounts : SetSendAmount(s)
           \/ SetMaxPossibleAmount
           \/ \E value \in BOOLEAN : SetChoiceOffline(value)
           \/ \E value \in BOOLEAN : SetManualExchange(value)
           \/ SetComment
    PROVE  TypeOK'
  <1> DEFINE Others == /\ dialog' \in ShownType \cup {Nothing}
                       /\ replies' \in Seq(ReplyType)
                       /\ avail' \in Balances /\ BookType(book')
                       /\ sent' \in SentType \cup {Nothing}
                       /\ fault' \in Faults
             Names == /\ token' \in Input /\ txParams' \in Tokens \cup {Nothing}
                      /\ peer' \in Wallet /\ identity' \in Wallet
                      /\ comment' \in Tokens \cup {Nothing}
             Flags == /\ choiceOffline' \in BOOLEAN /\ manualExchange' \in BOOLEAN
                      /\ maxPossible' \in BOOLEAN /\ button' \in BOOLEAN
             Sums == /\ sum' \in Amounts /\ asset' \in Assets
                     /\ typed' \in Amounts \cup {Nothing}
             Coins == sel' \in Selected /\ requests' \in Seq(RequestType)
  <1>0. ASSUME Others, Names, Flags, Sums, Coins
        PROVE  TypeOK'
    BY <1>0, ZenonT(60) DEF TypeOK, BookType
  <1>1. ASSUME NEW t \in Tokens \cup Text, SetToken(t)
        PROVE  TypeOK'
    <2>1. Others
      BY <1>1, Zenon DEF SetToken, TypeOK, chain, BookType
    <2>2. Flags
      BY <1>1, Zenon DEF SetToken, TypeOK, CanSendWith
    <2>3. CASE TokenValid(t)
      <3>1. ExtractParameters(t) /\ t \in Tokens
        BY <1>1, <2>3, Zenon DEF SetToken, TokenValid
      <3> DEFINE s == IF t \in Invoices THEN InvoiceSum ELSE sum
                 a == IF t \in Invoices THEN InvoiceAsset ELSE asset
                 e == [op |-> "lookup", token |-> t]
      <3>2. s \in Amounts /\ a \in Assets
        BY Constants DEF TypeOK
      <3>3. e \in RequestType
        BY <3>1, RequestTypes
      <3>4. sum' = s /\ asset' = a /\ RefreshCsi(t, FALSE, s, a, Append(requests, e))
        BY <3>1, Zenon DEF ExtractParameters
      <3>5. Sums
        BY <3>1, <3>2, <3>4 DEF ExtractParameters, TypeOK
      <3>6. Names
        BY <1>1, <3>1, ReceiverTypes DEF SetToken, ExtractParameters, TypeOK, Input
      <3>7. Append(requests, e) \in Seq(RequestType) /\ sel \in Selected
        <4> HIDE DEF e
        <4> QED
          BY <3>3, AppendTo DEF TypeOK
      <3>8. Coins
        <4> HIDE DEF s, a, e
        <4> QED
          BY <3>2, <3>4, <3>7, RefreshTypes
      <3> QED
        BY <1>0, <2>1, <2>2, <3>5, <3>6, <3>8, Zenon
    <2>4. CASE ~TokenValid(t)
      <3>1. UNCHANGED <<txParams, peer, identity, sum, asset, typed, sel,
                        requests, comment>>
        BY <1>1, <2>4, Zenon DEF SetToken
      <3>2. token' \in Input
        BY <1>1 DEF SetToken, Input
      <3>3. Names /\ Sums /\ Coins
        BY <3>1, <3>2, Zenon DEF TypeOK
      <3> QED
        BY <1>0, <2>1, <2>2, <3>3, Zenon
    <2> QED
      BY <2>3, <2>4
  <1>2. ASSUME NEW a \in Assets, SetAssetId(a)
        PROVE  TypeOK'
    <2>1. /\ Others /\ Names /\ Flags
          /\ asset' = a /\ UNCHANGED <<sum, typed>>
          /\ RefreshCsi(token, choiceOffline, sum, a, requests)
      BY <1>2, Zenon DEF SetAssetId, TypeOK, chain, past, BookType, RefreshButton
    <2>2. Sums
      BY <2>1 DEF TypeOK
    <2>3. Coins
      BY <2>1, RefreshTypes DEF TypeOK
    <2> QED
      BY <1>0, <2>1, <2>2, <2>3, Zenon
  <1>3. ASSUME NEW s \in Amounts, SetSendAmount(s)
        PROVE  TypeOK'
    <2>1. /\ Others /\ Names /\ Flags
          /\ sum' = s /\ typed' = s /\ UNCHANGED asset
          /\ RefreshCsi(token, choiceOffline, s, asset, requests)
      BY <1>3, Zenon DEF SetSendAmount, TypeOK, chain, BookType, RefreshButton
    <2>2. Sums
      BY <2>1 DEF TypeOK
    <2>3. Coins
      BY <2>1, RefreshTypes DEF TypeOK
    <2> QED
      BY <1>0, <2>1, <2>2, <2>3, Zenon
  <1>4. ASSUME SetMaxPossibleAmount
        PROVE  TypeOK'
    <2>1. /\ Others /\ Names /\ Flags
          /\ sum' = avail[asset] /\ typed' = Nothing /\ UNCHANGED asset
          /\ RefreshCsi(token, choiceOffline, avail[asset], asset, requests)
      BY <1>4, Zenon DEF SetMaxPossibleAmount, TypeOK, chain, BookType, RefreshButton
    <2>2. avail[asset] \in Amounts /\ asset \in Assets
      BY Constants DEF TypeOK
    <2>3. Sums
      BY <2>1, <2>2
    <2>4. Coins
      BY <2>1, <2>2, RefreshTypes DEF TypeOK
    <2> QED
      BY <1>0, <2>1, <2>3, <2>4, Zenon
  <1>5. ASSUME NEW value \in BOOLEAN, SetChoiceOffline(value)
        PROVE  TypeOK'
    <2>1. /\ Others /\ Names /\ Flags
          /\ UNCHANGED <<asset, sum, typed>>
          /\ RefreshCsi(token, value, sum, asset, requests)
      BY <1>5, Zenon DEF SetChoiceOffline, TypeOK, chain, past, BookType, RefreshButton
    <2>2. Sums
      BY <2>1 DEF TypeOK
    <2>3. Coins
      BY <2>1, RefreshTypes DEF TypeOK
    <2> QED
      BY <1>0, <2>1, <2>2, <2>3, Zenon
  <1>6. ASSUME NEW value \in BOOLEAN, SetManualExchange(value)
        PROVE  TypeOK'
    <2>1. /\ Others /\ Names
          /\ UNCHANGED <<asset, sum, typed>>
          /\ \/ RefreshCsi(token, FALSE, sum, asset, requests)
             \/ UNCHANGED <<sel, requests>>
      BY <1>6, Zenon DEF SetManualExchange, TypeOK, chain, past, BookType
    <2>2. Sums
      BY <2>1 DEF TypeOK
    <2>3. Coins
      BY <2>1, RefreshTypes DEF TypeOK
    <2>4. Flags
      BY <1>6, Zenon DEF SetManualExchange, TypeOK, RefreshButton
    <2> QED
      BY <1>0, <2>1, <2>2, <2>3, <2>4, Zenon
  <1>7. ASSUME SetComment
        PROVE  TypeOK'
    <2>1. Others /\ Flags /\ Sums /\ Coins
      BY <1>7, Zenon DEF SetComment, TypeOK, BookType, page, line, chain, past
    <2>2. Names
      BY <1>7 DEF SetComment, TypeOK
    <2> QED
      BY <1>0, <2>1, <2>2, Zenon
  <1> QED
    BY <1>1, <1>2, <1>3, <1>4, <1>5, <1>6, <1>7, Zenon

\* What sending saves is an address of one wallet, or the label of one.
LEMMA SaveType ==
    ASSUME TypeOK, TokenInv, fault = "none", token \in Tokens
    PROVE  /\ SaveReceiverAddress \in RequestType
           /\ SaveReceiverAddress.op \in {"relabel", "save"}
  <1>1. CASE PeerIsOwn
    <2>1. peer \in Wallets
      BY <1>1, Zenon DEF PeerIsOwn, TypeOK, Wallet
    <2> QED
      BY <1>1, <2>1, RequestTypes DEF SaveReceiverAddress
  <1>2. CASE ~PeerIsOwn
    <2> DEFINE e == [token |-> token, own |-> FALSE, endpoint |-> identity,
                     peer |-> peer]
    <2>1. e \in Address
      BY AddressType DEF TokenInv, TypeOK
    <2>2. SaveReceiverAddress = [op |-> "save", entry |-> e]
      BY <1>2, Zenon DEF SaveReceiverAddress
    <2> HIDE DEF e
    <2> QED
      BY <2>1, <2>2, RequestTypes
  <1> QED
    BY <1>1, <1>2

\* The dialog, and sending from it, keep the types: what is sent is built from
\* a token, for the page could send.
LEMMA DialogTypes ==
    ASSUME TypeOK, TokenInv,
           \/ PressSend \/ CancelDialog \/ SendMoney \/ Leave
           \/ \E t \in Tokens : LeaveAndDelete(t)
    PROVE  TypeOK'
  <1>1. CASE PressSend \/ CancelDialog
    <2>1. UNCHANGED <<form, sel, button, line, chain, past>>
      BY <1>1, Zenon DEF PressSend, CancelDialog
    <2>2. dialog' \in ShownType \cup {Nothing}
      <3>1. CASE CancelDialog
        BY <3>1 DEF CancelDialog
      <3>2. CASE PressSend
        <4>1. dialog' = [token |-> token, sum |-> sum, asset |-> asset,
                         offline |-> Offline(token, choiceOffline)]
          BY <3>2, Zenon DEF PressSend
        <4>2. Offline(token, choiceOffline) \in BOOLEAN
          BY OfflineType
        <4> QED
          BY <4>1, <4>2 DEF TypeOK, ShownType
      <3> QED
        BY <1>1, <3>1, <3>2
    <2> QED
      BY <2>1, <2>2, ZenonT(60) DEF TypeOK, form, line, chain, past
  <1>2. CASE SendMoney
    <2>1. /\ dialog # Nothing /\ dialog' = Nothing /\ fault = "none"
          /\ UNCHANGED <<form, sel, button, replies, chain, typed>>
      BY <1>2, Zenon DEF SendMoney, Free
    <2>2. CASE CanSend /\ LoadsReceiver
      <3>1. /\ requests' = requests \o <<SaveReceiverAddress, [op |-> "start"]>>
            /\ sent' = Transaction /\ fault' = fault
        BY <1>2, <2>2, Zenon DEF SendMoney
      <3>2. token \in Tokens /\ txParams = token
        BY <2>1, <2>2, Zenon DEF CanSend, CanSendWith, TokenValid, TokenInv
      <3>3. SaveReceiverAddress \in RequestType
        BY <2>1, <3>2, SaveType
      <3>4. requests' \in Seq(RequestType)
        <4>1. <<SaveReceiverAddress, [op |-> "start"]>> \in Seq(RequestType)
          BY <3>3, RequestTypes
        <4> QED
          BY <3>1, <4>1 DEF TypeOK
      <3>5. /\ Offline(token, choiceOffline) \in BOOLEAN
            /\ (manualExchange /\ CanManualExchange(token)) \in BOOLEAN
            /\ PeerIsOwn \in BOOLEAN
        BY OfflineType, Zenon DEF PeerIsOwn
      <3>6. TokenIsOwn \in BOOLEAN
        BY Zenon DEF TokenIsOwn, TypeOK
      <3>7. dialog \in ShownType
        BY <2>1, Zenon DEF TypeOK
      <3>8. Transaction \in SentType
        <4> HIDE DEF PeerIsOwn, TokenIsOwn, CanManualExchange, Offline
        <4> QED
          BY <3>2, <3>5, <3>6, <3>7 DEF TypeOK, Transaction, SentType
      <3>9. sent' \in SentType \cup {Nothing}
        BY <3>1, <3>8
      <3> QED
        BY <2>1, <3>1, <3>4, <3>9, ZenonT(60) DEF TypeOK, form, chain
    <2>3. CASE CanSend /\ ~LoadsReceiver
      <3>1. /\ requests' = Append(requests, SaveReceiverAddress)
            /\ fault' = "receiver" /\ sent' = sent
        BY <1>2, <2>3, Zenon DEF SendMoney
      <3>2. token \in Tokens
        BY <2>3, Zenon DEF CanSend, CanSendWith, TokenValid
      <3>3. requests' \in Seq(RequestType)
        BY <2>1, <3>1, <3>2, SaveType, AppendTo DEF TypeOK
      <3>4. fault' \in Faults
        BY <3>1 DEF Faults
      <3> QED
        BY <2>1, <3>1, <3>3, <3>4, ZenonT(60) DEF TypeOK, form, chain
    <2>4. CASE ~CanSend
      <3>1. fault' = "canSend" /\ UNCHANGED <<requests, sent>>
        BY <1>2, <2>4, Zenon DEF SendMoney
      <3>2. fault' \in Faults
        BY <3>1 DEF Faults
      <3> QED
        BY <2>1, <3>1, <3>2, ZenonT(60) DEF TypeOK, form, chain
    <2> QED
      BY <2>2, <2>3, <2>4
  <1>3. CASE Leave
    <2>1. requests \in Seq(RequestType) /\ replies \in Seq(ReplyType)
      BY DEF TypeOK
    <2> QED
      BY <1>3, <2>1, NewPageTypes, Zenon DEF Leave
  <1>4. ASSUME NEW t \in Tokens, LeaveAndDelete(t)
        PROVE  TypeOK'
    <2> DEFINE q == Append(requests, [op |-> "delete", token |-> t])
    <2>1. q \in Seq(RequestType) /\ replies \in Seq(ReplyType)
      BY RequestTypes, AppendTo DEF TypeOK
    <2>2. NewPage(q, replies) /\ UNCHANGED <<chain, fault>>
      BY <1>4, Zenon DEF LeaveAndDelete
    <2> HIDE DEF q
    <2> QED
      BY <2>1, <2>2, NewPageTypes, Zenon
  <1> QED
    BY <1>1, <1>2, <1>3, <1>4, Zenon

\* Delivering an answer keeps the types.
LEMMA DeliverTypes ==
    ASSUME TypeOK, Deliver
    PROVE  TypeOK'
  <1> DEFINE r == Head(replies)
  <1>1. replies # <<>>
    BY Zenon DEF Deliver, OnCoinsSelected, OnGetAddressReturned, OnRelabel,
                 OnSendMoneyVerified, OnAbandoned, Answer
  <1>2. /\ r \in ReplyType /\ Tail(replies) \in Seq(ReplyType)
        /\ requests \in Seq(RequestType)
    BY <1>1, TailOf DEF TypeOK
  <1> HIDE DEF r
  <1>3. CASE OnCoinsSelected
    <2>1. /\ replies' = Tail(replies) /\ r.op = "selected"
          /\ UNCHANGED <<token, txParams, peer, identity, comment, choiceOffline,
                         manualExchange, maxPossible, asset, dialog, chain, past>>
      BY <1>3, Zenon DEF OnCoinsSelected, Answer, Received, r
    <2>2. r \in Selected /\ r.netto \in Amounts /\ r.enough \in BOOLEAN
      BY <1>2, <2>1, FieldTypes
    <2>3. \/ UNCHANGED <<sum, sel, requests, button>>
          \/ /\ sum' = r.netto
             /\ \/ RefreshCsi(token, choiceOffline, 0, asset, requests)
                \/ sel' = r /\ requests' = Append(requests,
                        [op |-> "select", sum |-> r.netto, asset |-> asset,
                         shielded |-> Offline(token, choiceOffline)])
             /\ RefreshButton(r.netto)
          \/ /\ sel' = r
             /\ button' = CanSendWith(token, sum, r.enough)
             /\ UNCHANGED <<sum, requests>>
      BY <1>3, Zenon DEF OnCoinsSelected, r
    <2>4. button' \in BOOLEAN
      BY <2>3, Zenon DEF TypeOK, RefreshButton, CanSendWith
    <2>5. sum' \in Amounts
      BY <2>2, <2>3, Zenon DEF TypeOK
    <2>6. ASSUME RefreshCsi(token, choiceOffline, 0, asset, requests)
          PROVE  sel' \in Selected /\ requests' \in Seq(RequestType)
      <3>1. 0 \in Amounts
        BY Constants DEF Amounts
      <3> QED
        BY <1>2, <2>6, <3>1, RefreshTypes DEF TypeOK
    <2>7. Append(requests, [op |-> "select", sum |-> r.netto, asset |-> asset,
                            shielded |-> Offline(token, choiceOffline)])
            \in Seq(RequestType)
      <3> DEFINE e == [op |-> "select", sum |-> r.netto, asset |-> asset,
                       shielded |-> Offline(token, choiceOffline)]
      <3>1. e \in RequestType
        BY <2>2, RequestTypes DEF TypeOK
      <3> HIDE DEF e
      <3>2. Append(requests, e) \in Seq(RequestType)
        BY <1>2, <3>1
      <3> QED
        BY <3>2 DEF e
    <2>8. sel' \in Selected /\ requests' \in Seq(RequestType)
      BY <2>2, <2>3, <2>6, <2>7, Zenon DEF TypeOK
    <2>9. replies' \in Seq(ReplyType)
      BY <1>2, <2>1
    <2> QED
      BY <2>1, <2>4, <2>5, <2>8, <2>9, ZenonT(60) DEF TypeOK, chain, past
  <1>4. CASE OnGetAddressReturned
    <2>1. /\ replies' = Tail(replies) /\ r.op = "address"
          /\ UNCHANGED <<token, txParams, choiceOffline, manualExchange,
                         maxPossible, sum, asset, sel, page, requests, chain,
                         typed, sent>>
      BY <1>4, Zenon DEF OnGetAddressReturned, Answer, Received, r
    <2>2. r.token \in Tokens /\ r.entry \in Address \cup {Nothing}
      BY <1>2, <2>1, FieldTypes
    <2>3. /\ comment' \in Tokens \cup {Nothing}
          /\ peer' \in Wallet /\ identity' \in Wallet /\ fault' \in Faults
      <3>1. CASE r.entry = Nothing
        <4>1. comment' = Nothing /\ UNCHANGED <<peer, identity, fault>>
          BY <1>4, <3>1, Zenon DEF OnGetAddressReturned, r
        <4> QED
          BY <4>1 DEF TypeOK
      <3>2. CASE r.entry # Nothing
        <4>1. /\ comment' = r.token
              /\ peer' = peer \/ peer' = r.entry.peer
              /\ identity' = identity \/ identity' = r.entry.endpoint
              /\ fault' = Mismatch(r.entry)
          BY <1>4, <3>2, Zenon DEF OnGetAddressReturned, r
        <4>2. r.entry.peer \in Wallet /\ r.entry.endpoint \in Wallet
          BY <2>2, <3>2, AddressType
        <4>3. Mismatch(r.entry) \in Faults
          BY DEF Mismatch, Faults
        <4> QED
          BY <2>2, <4>1, <4>2, <4>3, Zenon DEF TypeOK
      <3> QED
        BY <3>1, <3>2
    <2>4. replies' \in Seq(ReplyType)
      BY <1>2, <2>1
    <2> QED
      BY <2>1, <2>3, <2>4, ZenonT(60) DEF TypeOK, chain, page
  <1>5. CASE OnRelabel
    <2> DEFINE e == [op |-> "save", entry |-> r.entry]
    <2>1. /\ replies' = Tail(replies) /\ r.op = "entry"
          /\ UNCHANGED <<form, sel, page, chain, typed, sent>>
          /\ \/ /\ r.entry # Nothing
                /\ requests' = Append(requests, e) /\ fault' = fault
             \/ fault' = "relabel" /\ requests' = requests
      BY <1>5, Zenon DEF OnRelabel, Answer, Received, r
    <2>2. r.entry # Nothing => e \in RequestType
      BY <1>2, <2>1, FieldTypes, RequestTypes
    <2> HIDE DEF e
    <2>3. requests' \in Seq(RequestType) /\ replies' \in Seq(ReplyType)
      BY <1>2, <2>1, <2>2, AppendTo
    <2>4. fault' \in Faults
      BY <2>1 DEF TypeOK, Faults
    <2> QED
      BY <2>1, <2>3, <2>4, ZenonT(60) DEF TypeOK, form, page, chain
  <1>6. CASE OnSendMoneyVerified
    BY <1>2, <1>6, NewPageTypes, Zenon DEF OnSendMoneyVerified
  <1>7. CASE OnAbandoned
    <2>1. replies' = Tail(replies) /\ UNCHANGED <<form, sel, page, requests, chain, past>>
      BY <1>7, Zenon DEF OnAbandoned, Received
    <2>2. /\ requests' \in Seq(RequestType) /\ replies' \in Seq(ReplyType)
          /\ avail' \in Balances /\ BookType(book')
      BY <1>2, <2>1, Zenon DEF TypeOK, BookType, chain
    <2> QED
      BY <2>1, <2>2, QuietTypes
  <1> QED
    BY <1>3, <1>4, <1>5, <1>6, <1>7, Zenon DEF Deliver

\* What the wallet thread answers to a request.
AnswerTo(q, e) ==
    /\ q.op = "select" =>
          /\ e.op = "selected" /\ e.sum = q.sum /\ e.asset = q.asset
          /\ e.shielded = q.shielded
    /\ q.op = "lookup" =>
          /\ e.op = "address" /\ e.token = q.token
          /\ e.entry \in OneOf({x \in Entries : FoundFor(q.token, x)})
    /\ q.op = "relabel" =>
          /\ e.op = "entry"
          /\ e.entry \in OneOf({x \in Entries : x.peer = q.peer})
    /\ q.op \notin {"select", "lookup", "relabel"} => e.op \in {"verified", "abandoned"}

\* What a request does to the address book.
BookAfter(q) ==
    IF q.op = "save" THEN [book EXCEPT ![q.entry.token] = q.entry]
    ELSE IF q.op = "delete" THEN [book EXCEPT ![q.token] = Nothing]
    ELSE book

\* The address book holds addresses, each under its token.
LEMMA EntriesType ==
    ASSUME TypeOK
    PROVE  /\ Entries \subseteq Address
           /\ \A e \in Entries : e # Nothing /\ e.token \in Tokens /\ book[e.token] = e
           /\ \A t \in Tokens : book[t] # Nothing => book[t] \in Entries
  <1>1. Entries \subseteq Address
    BY DEF Entries, TypeOK
  <1>2. ASSUME NEW e \in Entries
        PROVE  e # Nothing /\ e.token \in Tokens /\ book[e.token] = e
    <2>1. PICK t \in Tokens : e = book[t] /\ e # Nothing
      BY DEF Entries
    <2>2. e.token = t
      BY <2>1, Zenon DEF TypeOK
    <2> QED
      BY <2>1, <2>2
  <1>3. \A t \in Tokens : book[t] # Nothing => book[t] \in Entries
    BY DEF Entries
  <1> QED
    BY <1>1, <1>2, <1>3

\* The book stays one.
LEMMA BookStays ==
    ASSUME TypeOK, NEW q \in RequestType
    PROVE  BookType(BookAfter(q))
  <1>1. BookType(book)
    BY Zenon DEF TypeOK, BookType
  <1>2. CASE q.op = "save"
    <2>1. q.entry \in Address /\ q.entry.token \in Tokens
      BY <1>2, FieldTypes, AddressType
    <2>2. BookAfter(q) = [book EXCEPT ![q.entry.token] = q.entry]
      BY <1>2, Zenon DEF BookAfter
    <2> QED
      BY <1>1, <2>1, <2>2 DEF BookType
  <1>3. CASE q.op = "delete"
    <2>1. q.token \in Tokens
      BY <1>3, FieldTypes
    <2>2. BookAfter(q) = [book EXCEPT ![q.token] = Nothing]
      BY <1>3, Zenon DEF BookAfter
    <2> QED
      BY <1>1, <2>1, <2>2 DEF BookType
  <1>4. CASE q.op \notin {"save", "delete"}
    <2>1. BookAfter(q) = book
      BY <1>4 DEF BookAfter
    <2> QED
      BY <1>1, <2>1
  <1> QED
    BY <1>2, <1>3, <1>4

\* Serving takes the oldest request off and puts its answer, if it has one,
\* behind the others.
LEMMA ServeStep ==
    ASSUME TypeOK, Serve
    PROVE  /\ requests # <<>> /\ requests' = Tail(requests)
           /\ Head(requests) \in RequestType /\ fault = "none"
           /\ UNCHANGED <<form, sel, page, past, avail>>
           /\ book' = BookAfter(Head(requests))
           /\ \/ replies' = replies /\ Head(requests).op \in {"save", "delete"}
              \/ \E e \in ReplyType : /\ replies' = Append(replies, e)
                                      /\ AnswerTo(Head(requests), e)
  <1> DEFINE q == Head(requests)
  <1>1. requests # <<>> /\ requests' = Tail(requests) /\ fault = "none"
    BY Zenon DEF Serve, SelectCoins, LookUp, LookUpToRelabel, SaveAddress,
                 DeleteAddress, StartTransaction, GetAddressForNobody, Request,
                 Served, Free
  <1>2. /\ q \in RequestType
        /\ replies \in Seq(ReplyType) /\ avail \in Balances
    BY <1>1, TailOf DEF TypeOK
  <1> HIDE DEF q
  <1>3. UNCHANGED <<form, sel, page, past, avail>>
    BY Zenon DEF Serve, SelectCoins, LookUp, LookUpToRelabel, SaveAddress,
                 DeleteAddress, StartTransaction, GetAddressForNobody, chain
  <1> DEFINE Answered == \E e \in ReplyType : replies' = Append(replies, e) /\ AnswerTo(q, e)
             Done == /\ book' = BookAfter(q)
                     /\ \/ replies' = replies /\ q.op \in {"save", "delete"}
                        \/ Answered
  <1>4. ASSUME SelectCoins
        PROVE  Done
    <2> DEFINE e == Selection(q)
    <2>1. q.op = "select" /\ replies' = Append(replies, e) /\ UNCHANGED chain
      BY <1>4, Zenon DEF SelectCoins, Request, q
    <2>2. /\ e \in Selected /\ e.sum = q.sum /\ e.asset = q.asset
          /\ e.shielded = q.shielded
      BY <1>2, <2>1, SelectionType
    <2> HIDE DEF e
    <2>3. e.op = "selected" /\ e \in ReplyType
      BY <2>2, ReplyTypes, FieldTypes
    <2>4. AnswerTo(q, e)
      BY <2>1, <2>2, <2>3 DEF AnswerTo
    <2>5. Answered
      BY <2>1, <2>3, <2>4, Zenon
    <2>6. book' = BookAfter(q)
      BY <2>1 DEF chain, BookAfter
    <2> QED
      BY <2>5, <2>6
  <1>5. ASSUME LookUp
        PROVE  Done
    <2>1. q.op = "lookup" /\ UNCHANGED chain
      BY <1>5, Zenon DEF LookUp, Request, q
    <2>2. PICK x \in OneOf({x \in Entries : FoundFor(q.token, x)}) :
             replies' = Append(replies, [op |-> "address", token |-> q.token, entry |-> x])
      BY <1>5, Zenon DEF LookUp, q
    <2> DEFINE e == [op |-> "address", token |-> q.token, entry |-> x]
    <2>3. x \in Address \cup {Nothing}
      BY EntriesType DEF OneOf
    <2>4. q.token \in Tokens
      BY <1>2, <2>1, FieldTypes
    <2>5. e \in ReplyType
      BY <2>3, <2>4, ReplyTypes
    <2>6. e.op = "address" /\ e.token = q.token /\ e.entry = x
      OBVIOUS
    <2> HIDE DEF e
    <2>7. AnswerTo(q, e)
      BY <2>1, <2>6 DEF AnswerTo
    <2>8. Answered
      BY <2>2, <2>5, <2>7, Zenon DEF e
    <2>9. book' = BookAfter(q)
      BY <2>1 DEF chain, BookAfter
    <2> QED
      BY <2>8, <2>9
  <1>6. ASSUME LookUpToRelabel
        PROVE  Done
    <2>1. q.op = "relabel" /\ UNCHANGED chain
      BY <1>6, Zenon DEF LookUpToRelabel, Request, q
    <2>2. PICK x \in OneOf({x \in Entries : x.peer = q.peer}) :
             replies' = Append(replies, [op |-> "entry", entry |-> x])
      BY <1>6, Zenon DEF LookUpToRelabel, q
    <2> DEFINE e == [op |-> "entry", entry |-> x]
    <2>3. x \in Address \cup {Nothing}
      BY EntriesType DEF OneOf
    <2>5. e \in ReplyType
      BY <2>3 DEF ReplyType
    <2>6. e.op = "entry" /\ e.entry = x
      OBVIOUS
    <2> HIDE DEF e
    <2>7. AnswerTo(q, e)
      BY <2>1, <2>6 DEF AnswerTo
    <2>8. Answered
      BY <2>2, <2>5, <2>7, Zenon DEF e
    <2>9. book' = BookAfter(q)
      BY <2>1 DEF chain, BookAfter
    <2> QED
      BY <2>8, <2>9
  <1>7. ASSUME SaveAddress
        PROVE  Done
    BY <1>7, Zenon DEF SaveAddress, Request, BookAfter, q
  <1>8. ASSUME DeleteAddress
        PROVE  Done
    <2>1. q.op = "delete" /\ q.op # "save"
      BY <1>8 DEF DeleteAddress, Request, q
    <2> QED
      BY <1>8, <2>1, Zenon DEF DeleteAddress, BookAfter, q
  <1>9. ASSUME StartTransaction \/ GetAddressForNobody
        PROVE  Done
    <2>1. PICK e \in {[op |-> "verified"], [op |-> "abandoned"]} :
              replies' = Append(replies, e)
      BY <1>9, Zenon DEF StartTransaction, GetAddressForNobody
    <2>2. q.op \in {"start", "abandoned"} /\ UNCHANGED chain
      BY <1>9 DEF StartTransaction, GetAddressForNobody, Request, q
    <2>3. e \in ReplyType /\ AnswerTo(q, e)
      BY <2>2, ReplyTypes DEF AnswerTo
    <2>4. Answered
      BY <2>1, <2>3, Zenon
    <2>5. book' = BookAfter(q)
      BY <2>2 DEF chain, BookAfter
    <2> QED
      BY <2>4, <2>5
  <1>10. Done
    BY <1>4, <1>5, <1>6, <1>7, <1>8, <1>9, Zenon DEF Serve
  <1> QED
    BY <1>1, <1>2, <1>3, <1>10, Zenon DEF q

\* Serving a request keeps the types.
LEMMA ServeTypes ==
    ASSUME TypeOK, Serve
    PROVE  TypeOK'
  <1>1. /\ requests # <<>> /\ requests' = Tail(requests)
        /\ UNCHANGED <<form, sel, page, past, avail>>
        /\ book' = BookAfter(Head(requests)) /\ Head(requests) \in RequestType
        /\ \/ replies' = replies
           \/ \E e \in ReplyType : replies' = Append(replies, e)
    BY ServeStep, Zenon
  <1>2. replies' \in Seq(ReplyType) /\ requests' \in Seq(RequestType)
    BY <1>1, TailOf, AppendTo, SMTT(60) DEF TypeOK
  <1>3. BookType(book')
    BY <1>1, BookStays
  <1>4. avail' \in Balances
    BY <1>1, Zenon DEF TypeOK
  <1> QED
    BY <1>1, <1>2, <1>3, <1>4, QuietTypes, Zenon

\* Every step keeps the types.
LEMMA StepTypes ==
    ASSUME TypeOK, TokenInv, [Next]_vars
    PROVE  TypeOK'
  <1>1. CASE BalanceChange
    <2>1. PICK balance \in Balances : BalanceChanges(balance)
      BY <1>1, Zenon DEF BalanceChange
    <2>2. /\ requests' \in Seq(RequestType) /\ replies' \in Seq(ReplyType)
          /\ avail' \in Balances /\ BookType(book')
      BY <2>1, Zenon DEF BalanceChanges, TypeOK, BookType, line
    <2> QED
      BY <2>1, <2>2, QuietTypes, Zenon DEF BalanceChanges
  <1>2. CASE UNCHANGED vars
    BY <1>2, ZenonT(60) DEF TypeOK, vars, form, page, line, chain, past
  <1>3. CASE User
    <2>1. ASSUME \/ PressSend \/ CancelDialog \/ SendMoney \/ Leave
                 \/ \E t \in Tokens : LeaveAndDelete(t)
          PROVE  TypeOK'
      BY <2>1, DialogTypes
    <2>2. ASSUME ~(\/ PressSend \/ CancelDialog \/ SendMoney \/ Leave
                   \/ \E t \in Tokens : LeaveAndDelete(t))
          PROVE  TypeOK'
      BY <1>3, <2>2, EditTypes, Zenon DEF User
    <2> QED
      BY <2>1, <2>2
  <1>4. CASE Deliver
    BY <1>4, DeliverTypes
  <1>5. CASE Serve
    BY <1>5, ServeTypes
  <1> QED
    BY <1>1, <1>2, <1>3, <1>4, <1>5, Zenon DEF Next

-----------------------------------------------------------------------------
\* A payment is never both a manual exchange and offline.
LEMMA TransactionConsistent ==
    ASSUME TokenInv, FormInv, fault = "none", CanSend
    PROVE  /\ Transaction.params = Transaction.token
           /\ Transaction.manual => ~Transaction.offline
  <1>1. txParams = token
    BY Zenon DEF TokenInv, CanSend, CanSendWith
  <1>2. (manualExchange /\ CanManualExchange(token)) => ~Offline(token, choiceOffline)
    BY Constants DEF CanManualExchange, Offline, FormInv
  <1>3. /\ Transaction.params = txParams /\ Transaction.token = token
        /\ Transaction.manual = (manualExchange /\ CanManualExchange(token))
        /\ Transaction.offline = Offline(token, choiceOffline)
    BY Zenon DEF Transaction
  <1> QED
    BY <1>1, <1>2, <1>3, Zenon

\* Every step keeps the options apart and the typed amount.
LEMMA StepForm ==
    ASSUME TypeOK, TokenInv, FormInv, [Next]_vars
    PROVE  FormInv'
  <1> DEFINE Same == UNCHANGED <<choiceOffline, manualExchange, maxPossible, sum,
                                 typed, sent>>
  <1>0. ASSUME Same PROVE FormInv'
    BY <1>0, Zenon DEF FormInv, TypedAmountStands, SentIsConsistent
  <1>1. ASSUME NEW t \in Tokens \cup Text, SetToken(t)
        PROVE  FormInv'
    <2>1. /\ ~choiceOffline' /\ sent' = sent /\ maxPossible' = maxPossible
          /\ typed' = Nothing \/ (typed' = typed /\ sum' = sum)
      BY <1>1, Zenon DEF SetToken, ExtractParameters
    <2> QED
      BY <2>1, Zenon DEF FormInv, TypedAmountStands, SentIsConsistent
  <1>2. ASSUME NEW s \in Amounts, SetSendAmount(s)
        PROVE  FormInv'
    BY <1>2, Zenon DEF SetSendAmount, FormInv, TypedAmountStands, SentIsConsistent
  <1>3. CASE SetMaxPossibleAmount
    BY <1>3, Zenon DEF SetMaxPossibleAmount, FormInv, TypedAmountStands, SentIsConsistent
  <1>4. ASSUME NEW value \in BOOLEAN, SetChoiceOffline(value)
        PROVE  FormInv'
    BY <1>4, Zenon DEF SetChoiceOffline, FormInv, TypedAmountStands,
                       SentIsConsistent, past
  <1>5. ASSUME NEW value \in BOOLEAN, SetManualExchange(value)
        PROVE  FormInv'
    <2>1. ~(manualExchange' /\ choiceOffline')
      BY <1>5, Zenon DEF SetManualExchange
    <2>2. UNCHANGED <<sum, maxPossible, typed, sent>>
      BY <1>5, Zenon DEF SetManualExchange, past
    <2> QED
      BY <2>1, <2>2, Zenon DEF FormInv, TypedAmountStands, SentIsConsistent
  <1>6. CASE SendMoney
    <2>1. /\ UNCHANGED <<choiceOffline, manualExchange, maxPossible, sum, typed>>
          /\ fault = "none"
          /\ sent' = sent \/ (CanSend /\ sent' = Transaction)
      BY <1>6, Zenon DEF SendMoney, form, Free
    <2> QED
      BY <2>1, TransactionConsistent, Zenon DEF FormInv, TypedAmountStands,
                                                SentIsConsistent
  <1>7. ASSUME NEW rq, NEW rp, NewPage(rq, rp)
        PROVE  FormInv'
    BY <1>7, Zenon DEF NewPage, FormInv, TypedAmountStands, SentIsConsistent
  <1>8. CASE OnCoinsSelected
    <2>1. /\ UNCHANGED <<choiceOffline, manualExchange, maxPossible, typed, sent>>
          /\ sum' = sum \/ maxPossible
      BY <1>8, Zenon DEF OnCoinsSelected, SearchGoesOn, past
    <2> QED
      BY <2>1, Zenon DEF FormInv, TypedAmountStands, SentIsConsistent
  <1>9. ASSUME \/ \E a \in Assets : SetAssetId(a)
               \/ SetComment \/ PressSend \/ CancelDialog
               \/ OnGetAddressReturned \/ OnRelabel \/ OnAbandoned
        PROVE  Same
    BY <1>9, Zenon DEF SetAssetId, SetComment, PressSend, CancelDialog,
         OnGetAddressReturned, OnRelabel, OnAbandoned, form, past
  <1>10. ASSUME Serve \/ BalanceChange \/ UNCHANGED vars
         PROVE  Same
    BY <1>10, Zenon DEF Serve, SelectCoins, LookUp, LookUpToRelabel, SaveAddress,
         DeleteAddress, StartTransaction, GetAddressForNobody, BalanceChange,
         BalanceChanges, vars, form, past
  <1> QED
    BY <1>0, <1>1, <1>2, <1>3, <1>4, <1>5, <1>6, <1>7, <1>8, <1>9, <1>10, Zenon
       DEF Next, User, Deliver, Leave, LeaveAndDelete, OnSendMoneyVerified

-----------------------------------------------------------------------------

\* An entry put at the end is the last of its kind, and leaves the others.
LEMMA AskAppended ==
    ASSUME NEW S, NEW q \in Seq(S), NEW e \in S
    PROVE  /\ LastOf(Append(q, e), e.op, e.token)
           /\ \A op, t : e.op # op =>
                 /\ None(Append(q, e), op) <=> None(q, op)
                 /\ LastOf(q, op, t) => LastOf(Append(q, e), op, t)
           /\ \A op : None(Append(q, e), op) => None(q, op) /\ e.op # op
  <1> DEFINE n == Len(q)
             r == Append(q, e)
  <1>1. /\ n \in Nat /\ Len(r) = n + 1 /\ r[n + 1] = e
        /\ \A i \in 1..n : r[i] = q[i]
    BY AppendTo
  <1>2. \A op : None(r, op) => None(q, op) /\ e.op # op
    BY SameAppended, OtherAppended
  <1>3. \A op : e.op # op => (None(r, op) <=> None(q, op))
    BY OtherAppended
  <1> HIDE DEF n, r
  <1>4. LastOf(r, e.op, e.token)
    BY <1>1 DEF LastOf
  <1>5. ASSUME NEW op, NEW t, e.op # op, LastOf(q, op, t)
        PROVE  LastOf(r, op, t)
    <2>1. PICK i \in 1..n : /\ q[i].op = op /\ q[i].token = t
                            /\ \A j \in 1..n : j > i => q[j].op # op
      BY <1>5 DEF LastOf, n
    <2>2. i \in 1..Len(r) /\ r[i].op = op /\ r[i].token = t
      BY <1>1, <2>1
    <2>3. \A j \in 1..Len(r) : j > i => r[j].op # op
      BY <1>1, <1>5, <2>1
    <2> QED
      BY <2>2, <2>3 DEF LastOf
  <1> QED
    BY <1>2, <1>3, <1>4, <1>5 DEF r

\* Taking off the front leaves the last of a kind, or takes the only one.
LEMMA AskTaken ==
    ASSUME NEW S, NEW q \in Seq(S), q # <<>>, NEW op, NEW t, LastOf(q, op, t)
    PROVE  \/ LastOf(Tail(q), op, t)
           \/ None(Tail(q), op) /\ Head(q).op = op /\ Head(q).token = t
  <1> DEFINE n == Len(q)
             r == Tail(q)
  <1>1. /\ n \in Nat \ {0} /\ Len(r) = n - 1 /\ Head(q) = q[1]
        /\ \A i \in 1..n - 1 : r[i] = q[i + 1]
    BY TailOf
  <1> HIDE DEF n, r
  <1>2. \A i \in 1..n : i = 1 \/ (i - 1 \in 1..n - 1 /\ q[i] = r[i - 1])
    BY <1>1
  <1>3. PICK i \in 1..n : /\ q[i].op = op /\ q[i].token = t
                          /\ \A j \in 1..n : j > i => q[j].op # op
    BY DEF LastOf, n
  <1>4. CASE i = 1
    <2>1. \A k \in 1..n - 1 : r[k].op # op
      BY <1>1, <1>3, <1>4
    <2>2. None(r, op)
      BY <1>1, <2>1 DEF None
    <2> QED
      BY <1>1, <1>3, <1>4, <2>2 DEF r
  <1>5. CASE i # 1
    <2>1. i - 1 \in 1..Len(r) /\ r[i - 1] = q[i]
      BY <1>1, <1>2, <1>5
    <2>2. ASSUME NEW k \in 1..Len(r), k > i - 1
          PROVE  r[k].op # op
      <3>1. k + 1 \in 1..n /\ k + 1 > i /\ r[k] = q[k + 1]
        BY <1>1, <2>2
      <3> QED
        BY <1>3, <3>1
    <2> QED
      BY <1>3, <2>1, <2>2 DEF LastOf, r
  <1> QED
    BY <1>4, <1>5

\* No more than two requests are posted, none of them a lookup.
PostsNoLookup ==
    \/ requests' = requests
    \/ \E e \in RequestType : e.op # "lookup" /\ requests' = Append(requests, e)
    \/ \E e, f \in RequestType : /\ e.op # "lookup" /\ f.op # "lookup"
                                /\ requests' = Append(Append(requests, e), f)

\* Refreshing the coins looks no token up.
LEMMA RefreshLookups ==
    ASSUME NEW t, NEW c, NEW s \in Amounts, NEW a \in Assets,
           RefreshCsi(t, c, s, a, requests)
    PROVE  PostsNoLookup
  <1> DEFINE e == [op |-> "select", sum |-> s, asset |-> a, shielded |-> Offline(t, c)]
  <1>1. e \in RequestType /\ e.op # "lookup"
    BY RequestTypes
  <1>2. requests' = requests \/ requests' = Append(requests, e)
    BY Zenon DEF RefreshCsi
  <1> HIDE DEF e
  <1> QED
    BY <1>1, <1>2 DEF PostsNoLookup

\* Sending posts the address, and the start if it gets that far, behind what is
\* under way.
LEMMA SendPosts ==
    ASSUME TypeOK, TokenInv, SendMoney
    PROVE  /\ fault = "none" /\ UNCHANGED <<form, sel, button, replies, chain, typed>>
           /\ \/ UNCHANGED requests
              \/ /\ SaveReceiverAddress \in RequestType
                 /\ SaveReceiverAddress.op \in {"relabel", "save"}
                 /\ Append(requests, SaveReceiverAddress) \in Seq(RequestType)
                 /\ \/ requests' = Append(requests, SaveReceiverAddress)
                    \/ requests' = Append(Append(requests, SaveReceiverAddress),
                                          [op |-> "start"])
  <1>1. /\ fault = "none" /\ UNCHANGED <<form, sel, button, replies, chain, typed>>
        /\ \/ UNCHANGED requests
           \/ CanSend /\ requests' = Append(requests, SaveReceiverAddress)
           \/ CanSend /\ requests' = requests \o <<SaveReceiverAddress, [op |-> "start"]>>
    BY Zenon DEF SendMoney, Free
  <1>2. CASE CanSend
    <2>1. token \in Tokens
      BY <1>2, Zenon DEF CanSend, CanSendWith, TokenValid
    <2>2. SaveReceiverAddress \in RequestType /\ SaveReceiverAddress.op \in {"relabel", "save"}
      BY <1>1, <2>1, SaveType
    <2>3. requests \in Seq(RequestType) /\ [op |-> "start"] \in RequestType
      BY RequestTypes DEF TypeOK
    <2>4. ASSUME NEW S, NEW q \in Seq(S), NEW x \in S, NEW y \in S
          PROVE  q \o <<x, y>> = Append(Append(q, x), y)
      OBVIOUS
    <2>5. requests \o <<SaveReceiverAddress, [op |-> "start"]>>
            = Append(Append(requests, SaveReceiverAddress), [op |-> "start"])
      <3> DEFINE x == SaveReceiverAddress
                 y == [op |-> "start"]
      <3>1. x \in RequestType /\ y \in RequestType
        BY <2>2, <2>3
      <3> HIDE DEF x, y
      <3>2. requests \o <<x, y>> = Append(Append(requests, x), y)
        BY <2>3, <2>4, <3>1
      <3> QED
        BY <3>2 DEF x, y
    <2>6. Append(requests, SaveReceiverAddress) \in Seq(RequestType)
      BY <2>2, <2>3, AppendTo
    <2> QED
      BY <1>1, <2>2, <2>5, <2>6, Zenon
  <1>3. CASE ~CanSend
    BY <1>1, <1>3, Zenon
  <1> QED
    BY <1>2, <1>3

\* What a step does to the queues that does not look a token up, nor deliver an
\* entry or leave the page.
LEMMA LineStep ==
    ASSUME TypeOK, TokenInv,
           \/ \E a \in Assets : SetAssetId(a)
           \/ \E s \in Amounts : SetSendAmount(s)
           \/ SetMaxPossibleAmount
           \/ \E value \in BOOLEAN : SetChoiceOffline(value)
           \/ \E value \in BOOLEAN : SetManualExchange(value)
           \/ SetComment \/ PressSend \/ CancelDialog \/ SendMoney
           \/ OnCoinsSelected \/ OnRelabel \/ OnAbandoned
           \/ Serve \/ BalanceChange \/ UNCHANGED vars
    PROVE  \/ PostsNoLookup /\ replies' = replies
           \/ /\ PostsNoLookup
              /\ replies # <<>> /\ Head(replies).op # "address"
              /\ replies' = Tail(replies)
           \/ /\ requests # <<>> /\ requests' = Tail(requests)
              /\ \/ replies' = replies /\ Head(requests).op \in {"save", "delete"}
                 \/ \E e \in ReplyType : /\ replies' = Append(replies, e)
                                         /\ AnswerTo(Head(requests), e)
  <1> DEFINE Posted == PostsNoLookup /\ replies' = replies
  <1>0. requests \in Seq(RequestType) /\ replies \in Seq(ReplyType)
    BY DEF TypeOK
  <1>1. ASSUME UNCHANGED line
        PROVE  Posted
    BY <1>1, Zenon DEF line, PostsNoLookup
  <1>2. ASSUME NEW a \in Assets, SetAssetId(a)
        PROVE  Posted
    <2>1. UNCHANGED replies /\ RefreshCsi(token, choiceOffline, sum, a, requests)
      BY <1>2, Zenon DEF SetAssetId
    <2> QED
      BY <2>1, RefreshLookups DEF TypeOK
  <1>3. ASSUME NEW s \in Amounts, SetSendAmount(s)
        PROVE  Posted
    <2>1. UNCHANGED replies /\ RefreshCsi(token, choiceOffline, s, asset, requests)
      BY <1>3, Zenon DEF SetSendAmount
    <2> QED
      BY <2>1, RefreshLookups DEF TypeOK
  <1>4. ASSUME SetMaxPossibleAmount
        PROVE  Posted
    <2>1. UNCHANGED replies /\ RefreshCsi(token, choiceOffline, avail[asset], asset, requests)
      BY <1>4, Zenon DEF SetMaxPossibleAmount
    <2>2. avail[asset] \in Amounts
      BY Constants DEF TypeOK
    <2> QED
      BY <2>1, <2>2, RefreshLookups DEF TypeOK
  <1>5. ASSUME NEW value \in BOOLEAN, SetChoiceOffline(value) \/ SetManualExchange(value)
        PROVE  Posted
    <2>1. /\ UNCHANGED replies
          /\ \/ \E c : RefreshCsi(token, c, sum, asset, requests)
             \/ UNCHANGED requests
      BY <1>5, Zenon DEF SetChoiceOffline, SetManualExchange
    <2>2. CASE UNCHANGED requests
      BY <2>1, <2>2, Zenon DEF PostsNoLookup
    <2>3. CASE \E c : RefreshCsi(token, c, sum, asset, requests)
      BY <2>1, <2>3, RefreshLookups DEF TypeOK
    <2> QED
      BY <2>1, <2>2, <2>3
  <1>6. ASSUME SetComment \/ PressSend \/ CancelDialog \/ BalanceChange \/ UNCHANGED vars
        PROVE  UNCHANGED line
    BY <1>6, Zenon DEF SetComment, PressSend, CancelDialog, BalanceChange,
                       BalanceChanges, vars
  <1>7. ASSUME SendMoney
        PROVE  Posted
    <2> DEFINE x == SaveReceiverAddress
               y == [op |-> "start"]
    <2>1. /\ UNCHANGED replies
          /\ \/ UNCHANGED requests
             \/ /\ x \in RequestType /\ x.op \in {"relabel", "save"}
                /\ \/ requests' = Append(requests, x)
                   \/ requests' = Append(Append(requests, x), y)
      BY <1>7, SendPosts, Zenon
    <2>2. y \in RequestType /\ y.op # "lookup"
      BY RequestTypes
    <2> HIDE DEF x, y
    <2>3. x.op \in {"relabel", "save"} => x.op # "lookup"
      OBVIOUS
    <2> QED
      BY <2>1, <2>2, <2>3, Zenon DEF PostsNoLookup
  <1>8. ASSUME OnCoinsSelected \/ OnRelabel \/ OnAbandoned
        PROVE  /\ PostsNoLookup
               /\ replies # <<>> /\ Head(replies).op # "address"
               /\ replies' = Tail(replies)
    <2> DEFINE r == Head(replies)
    <2>1. /\ replies # <<>> /\ r.op \in {"selected", "entry", "abandoned"}
          /\ replies' = Tail(replies)
      BY <1>8, Zenon DEF OnCoinsSelected, OnRelabel, OnAbandoned, Answer, Received, r
    <2>2. r \in ReplyType
      BY <1>0, <2>1, TailOf
    <2>3. r.op # "address"
      BY <2>1
    <2> HIDE DEF r
    <2>4. CASE OnCoinsSelected
      <3> DEFINE e == [op |-> "select", sum |-> r.netto, asset |-> asset,
                       shielded |-> Offline(token, choiceOffline)]
      <3>1. /\ r.op = "selected"
            /\ \/ UNCHANGED requests
               \/ RefreshCsi(token, choiceOffline, 0, asset, requests)
               \/ requests' = Append(requests, e)
        BY <2>4, Zenon DEF OnCoinsSelected, Answer, r
      <3>2. e \in RequestType /\ e.op # "lookup"
        BY <2>2, <3>1, FieldTypes, RequestTypes DEF TypeOK
      <3> HIDE DEF e
      <3>3. RefreshCsi(token, choiceOffline, 0, asset, requests) => UNCHANGED requests
        BY DEF RefreshCsi
      <3> QED
        BY <2>1, <2>3, <3>1, <3>2, <3>3, Zenon DEF PostsNoLookup, r
    <2>5. CASE OnRelabel
      <3> DEFINE e == [op |-> "save", entry |-> r.entry]
      <3>1. /\ r.op = "entry"
            /\ \/ UNCHANGED requests
               \/ r.entry # Nothing /\ requests' = Append(requests, e)
        BY <2>5, Zenon DEF OnRelabel, Answer, r
      <3>2. r.entry # Nothing => e \in RequestType /\ e.op # "lookup"
        BY <2>2, <3>1, FieldTypes, RequestTypes
      <3> HIDE DEF e
      <3> QED
        BY <2>1, <2>3, <3>1, <3>2, Zenon DEF PostsNoLookup, r
    <2>6. CASE OnAbandoned
      <3>1. UNCHANGED requests
        BY <2>6, Zenon DEF OnAbandoned
      <3> QED
        BY <2>1, <2>3, <3>1, Zenon DEF PostsNoLookup, r
    <2> QED
      BY <1>8, <2>4, <2>5, <2>6
  <1>9. CASE Serve
    BY <1>9, ServeStep, Zenon
  <1> QED
    BY <1>1, <1>2, <1>3, <1>4, <1>5, <1>6, <1>7, <1>8, <1>9, Zenon

\* Posting other requests leaves the lookups as they are.
LEMMA PostsKeepLookups ==
    ASSUME requests \in Seq(RequestType), PostsNoLookup
    PROVE  /\ None(requests', "lookup") <=> None(requests, "lookup")
           /\ \A t : LastOf(requests, "lookup", t) => LastOf(requests', "lookup", t)
  <1>1. CASE requests' = requests
    BY <1>1
  <1>2. ASSUME NEW e \in RequestType, e.op # "lookup", requests' = Append(requests, e)
        PROVE  /\ None(requests', "lookup") <=> None(requests, "lookup")
               /\ \A t : LastOf(requests, "lookup", t) => LastOf(requests', "lookup", t)
    BY <1>2, AskAppended
  <1>3. ASSUME NEW e \in RequestType, NEW f \in RequestType,
               e.op # "lookup", f.op # "lookup",
               requests' = Append(Append(requests, e), f)
        PROVE  /\ None(requests', "lookup") <=> None(requests, "lookup")
               /\ \A t : LastOf(requests, "lookup", t) => LastOf(requests', "lookup", t)
    <2>1. Append(requests, e) \in Seq(RequestType)
      BY AppendTo
    <2>2. /\ None(Append(requests, e), "lookup") <=> None(requests, "lookup")
          /\ \A t : LastOf(requests, "lookup", t) => LastOf(Append(requests, e), "lookup", t)
      BY <1>3, AskAppended
    <2>3. /\ None(requests', "lookup") <=> None(Append(requests, e), "lookup")
          /\ \A t : LastOf(Append(requests, e), "lookup", t) => LastOf(requests', "lookup", t)
      BY <1>3, <2>1, AskAppended
    <2> QED
      BY <2>2, <2>3
  <1> QED
    BY <1>1, <1>2, <1>3 DEF PostsNoLookup

\* Such a step leaves the waiting for an entry as it is.
LEMMA LookupsStay ==
    ASSUME TypeOK, TokenInv,
           \/ \E a \in Assets : SetAssetId(a)
           \/ \E s \in Amounts : SetSendAmount(s)
           \/ SetMaxPossibleAmount
           \/ \E value \in BOOLEAN : SetChoiceOffline(value)
           \/ \E value \in BOOLEAN : SetManualExchange(value)
           \/ SetComment \/ PressSend \/ CancelDialog \/ SendMoney
           \/ OnCoinsSelected \/ OnRelabel \/ OnAbandoned
           \/ Serve \/ BalanceChange \/ UNCHANGED vars
    PROVE  /\ LookedUp(requests', replies') => LookedUp(requests, replies)
           /\ \A label, t : Asked(requests, replies, label, t)
                              => Asked(requests', replies', label, t)
  <1>0. requests \in Seq(RequestType) /\ replies \in Seq(ReplyType)
    BY DEF TypeOK
  <1> DEFINE Goal == /\ LookedUp(requests', replies') => LookedUp(requests, replies)
                     /\ \A label, t : Asked(requests, replies, label, t)
                                        => Asked(requests', replies', label, t)
  <1>1. ASSUME PostsNoLookup,
               None(replies', "address") <=> None(replies, "address"),
               \A t : LastOf(replies, "address", t) => LastOf(replies', "address", t)
        PROVE  Goal
    BY <1>0, <1>1, PostsKeepLookups, Zenon DEF LookedUp, Asked
  <1>2. CASE PostsNoLookup /\ replies' = replies
    BY <1>1, <1>2
  <1>3. CASE /\ PostsNoLookup
             /\ replies # <<>> /\ Head(replies).op # "address"
             /\ replies' = Tail(replies)
    <2>1. None(replies', "address") <=> None(replies, "address")
      BY <1>0, <1>3, TakenOff
    <2>2. \A t : LastOf(replies, "address", t) => LastOf(replies', "address", t)
      BY <1>0, <1>3, AskTaken
    <2> QED
      BY <1>1, <1>3, <2>1, <2>2
  <1>4. CASE /\ requests # <<>> /\ requests' = Tail(requests)
             /\ \/ replies' = replies /\ Head(requests).op \in {"save", "delete"}
                \/ \E e \in ReplyType : /\ replies' = Append(replies, e)
                                        /\ AnswerTo(Head(requests), e)
    <2> DEFINE q == Head(requests)
    <2>1. /\ None(requests, "lookup") <=> q.op # "lookup" /\ None(requests', "lookup")
          /\ \A t : LastOf(requests, "lookup", t) =>
                       \/ LastOf(requests', "lookup", t)
                       \/ None(requests', "lookup") /\ q.op = "lookup" /\ q.token = t
      BY <1>0, <1>4, TakenOff, AskTaken
    <2>2. CASE replies' = replies /\ q.op \in {"save", "delete"}
      <3>1. q.op # "lookup"
        BY <2>2
      <3> HIDE DEF q
      <3> QED
        BY <2>1, <2>2, <3>1, Zenon DEF LookedUp, Asked
    <2>3. ASSUME NEW e \in ReplyType, replies' = Append(replies, e), AnswerTo(q, e)
          PROVE  Goal
      <3>1. CASE q.op = "lookup"
        <4>1. e.op = "address" /\ e.token = q.token
          BY <2>3, <3>1 DEF AnswerTo
        <4>2. LastOf(replies', "address", q.token) /\ ~None(replies', "address")
          BY <1>0, <2>3, <4>1, AskAppended, SameAppended
        <4> HIDE DEF q
        <4> QED
          BY <2>1, <3>1, <4>2, Zenon DEF LookedUp, Asked
      <3>2. CASE q.op # "lookup"
        <4>1. e.op # "address"
          BY <2>3, <3>2 DEF AnswerTo
        <4>2. /\ None(replies', "address") <=> None(replies, "address")
              /\ \A t : LastOf(replies, "address", t) => LastOf(replies', "address", t)
          BY <1>0, <2>3, <4>1, AskAppended
        <4> HIDE DEF q
        <4> QED
          BY <2>1, <3>2, <4>2, Zenon DEF LookedUp, Asked
      <3> QED
        BY <3>1, <3>2
    <2> QED
      BY <1>4, <2>2, <2>3
  <1> QED
    BY <1>2, <1>3, <1>4, LineStep, Zenon

\* A valid token is looked up.
LEMMA TokenIsLookedUp ==
    ASSUME TypeOK, NEW t \in Tokens \cup Text, SetToken(t), TokenValid(t)
    PROVE  /\ ~LookedUp(requests', replies')
           /\ \A label : Asked(requests', replies', label, t)
  <1>1. ExtractParameters(t) /\ t \in Tokens
    BY Zenon DEF SetToken, TokenValid
  <1> DEFINE s == IF t \in Invoices THEN InvoiceSum ELSE sum
             a == IF t \in Invoices THEN InvoiceAsset ELSE asset
             e == [op |-> "lookup", token |-> t]
             f == [op |-> "select", sum |-> s, asset |-> a, shielded |-> Offline(t, FALSE)]
             q == Append(requests, e)
  <1>2. requests' = q \/ requests' = Append(q, f)
    BY <1>1, Zenon DEF ExtractParameters, RefreshCsi
  <1>3. s \in Amounts /\ a \in Assets
    BY Constants DEF TypeOK
  <1>4. e \in RequestType /\ e.op = "lookup" /\ e.token = t
    BY <1>1, RequestTypes
  <1>5. f \in RequestType /\ f.op # "lookup"
    <2> HIDE DEF s, a
    <2> QED
      BY <1>3, RequestTypes
  <1> HIDE DEF s, a, e, f
  <1>6. q \in Seq(RequestType) /\ ~None(q, "lookup") /\ LastOf(q, "lookup", t)
    <2>1. requests \in Seq(RequestType)
      BY DEF TypeOK
    <2>2. q \in Seq(RequestType)
      BY <1>4, <2>1, AppendTo
    <2>3. ~None(q, e.op)
      BY <1>4, <2>1, SameAppended
    <2>4. LastOf(q, e.op, e.token)
      BY <1>4, <2>1, AskAppended
    <2> QED
      BY <1>4, <2>2, <2>3, <2>4
  <1> HIDE DEF q
  <1>7. ~None(requests', "lookup") /\ LastOf(requests', "lookup", t)
    <2>1. None(Append(q, f), "lookup") => None(q, "lookup")
      BY <1>5, <1>6, AskAppended
    <2>2. LastOf(q, "lookup", t) => LastOf(Append(q, f), "lookup", t)
      BY <1>5, <1>6, AskAppended
    <2> QED
      BY <1>2, <1>6, <2>1, <2>2, Zenon
  <1> QED
    BY <1>7, Zenon DEF LookedUp, Asked

\* An entry that trips no assertion leaves the receiver of one wallet.
LEMMA EntryOfOneWallet ==
    ASSUME OneWallet(peer, identity), NEW e \in Address, Mismatch(e) = "none"
    PROVE  OneWallet(IF peer = Nothing THEN e.peer ELSE peer,
                     IF identity = Nothing THEN e.endpoint ELSE identity)
  <1>1. OneWallet(e.peer, e.endpoint)
    BY AddressType
  <1>2. peer # Nothing => peer = e.peer
    BY DEF Mismatch
  <1>3. peer = Nothing => e.token \in OfflineOnly
    BY DEF Mismatch
  <1>4. identity # Nothing =>
           e.endpoint = identity \/ (e.endpoint = Nothing /\ e.token \in Online)
    BY DEF Mismatch
  <1>5. peer = Nothing => e.token \notin Online
    BY <1>3, Constants
  <1> QED
    BY <1>1, <1>2, <1>4, <1>5 DEF OneWallet

\* Every step keeps the receiver and the label the token's.
LEMMA StepToken ==
    ASSUME TypeOK, TokenInv, [Next]_vars
    PROVE  TokenInv'
  <1> DEFINE Same == /\ UNCHANGED <<token, txParams, peer, identity>>
                     /\ comment' = comment \/ comment' = Nothing
                     /\ fault' = "none" => fault = "none"
                     /\ \A label, t : Asked(requests, replies, label, t)
                                        => Asked(requests', replies', label, t)
  <1>0. ASSUME Same PROVE TokenInv'
    <2>1. \A rq, rp, label, t : Asked(rq, rp, label, t) => Asked(rq, rp, Nothing, t)
      BY Zenon DEF Asked
    <2> QED
      BY <1>0, <2>1, Zenon DEF TokenInv
  <1>1. ASSUME NEW t \in Tokens \cup Text, SetToken(t)
        PROVE  TokenInv'
    <2>1. token' = t /\ UNCHANGED fault
      BY <1>1, Zenon DEF SetToken
    <2>2. CASE TokenValid(t)
      <3>1. /\ txParams' = t /\ peer' = ReceiverOf(t) /\ identity' = IdentityOf(t)
        BY <1>1, <2>2, Zenon DEF SetToken, ExtractParameters
      <3>2. OneWallet(peer', identity') /\ Named(t, peer', identity')
        BY <2>2, <3>1, ReceiverTypes DEF TokenValid
      <3>3. Asked(requests', replies', comment', t)
        BY <1>1, <2>2, TokenIsLookedUp
      <3> QED
        BY <2>1, <3>1, <3>2, <3>3, Zenon DEF TokenInv
    <2>3. CASE ~TokenValid(t)
      <3>1. UNCHANGED <<peer, identity>>
        BY <1>1, <2>3, Zenon DEF SetToken
      <3> QED
        BY <2>1, <2>3, <3>1, Zenon DEF TokenInv
    <2> QED
      BY <2>2, <2>3
  <1>2. ASSUME NEW rq, NEW rp, NewPage(rq, rp)
        PROVE  TokenInv'
    BY <1>2, Constants DEF NewPage, TokenInv, TokenValid, OneWallet
  <1>3. CASE OnGetAddressReturned
    <2> DEFINE r == Head(replies)
    <2>1. /\ fault = "none" /\ UNCHANGED <<token, txParams>>
          /\ replies # <<>> /\ r.op = "address"
      BY <1>3, Zenon DEF OnGetAddressReturned, Answer, Free
    <2>2. r \in ReplyType
      BY <2>1, TailOf DEF TypeOK
    <2> HIDE DEF r
    <2>3. r.token \in Tokens /\ r.entry \in Address \cup {Nothing}
      BY <2>1, <2>2, FieldTypes
    <2>4. SUFFICES ASSUME fault' = "none"
                   PROVE  TokenInv'
      BY Zenon DEF TokenInv
    <2>7. ASSUME TokenValid(token)
          PROVE  \A label \in {Nothing, r.token} : Asked(requests', replies', label, token)
      <3>1. /\ Asked(requests, replies, comment, token)
            /\ requests' = requests /\ replies' = Tail(replies)
        BY <1>3, <2>1, <2>7, Zenon DEF TokenInv, OnGetAddressReturned, Received
      <3>2. CASE LastOf(requests, "lookup", token)
        BY <3>1, <3>2, Zenon DEF Asked
      <3>3. CASE ~LastOf(requests, "lookup", token)
        <4>1. ~None(replies, "address")
          BY <2>1, TakenOff DEF TypeOK, r
        <4>2. None(requests, "lookup") /\ LastOf(replies, "address", token)
          BY <3>1, <3>3, <4>1, Zenon DEF Asked, LookedUp
        <4>3. \/ LastOf(replies', "address", token)
              \/ None(replies', "address") /\ r.token = token
          BY <2>1, <3>1, <4>2, AskTaken DEF TypeOK, r
        <4> QED
          BY <3>1, <4>2, <4>3, Zenon DEF Asked, LookedUp
      <3> QED
        BY <3>2, <3>3
    <2>5. CASE r.entry = Nothing
      <3>1. comment' = Nothing /\ UNCHANGED <<peer, identity>>
        BY <1>3, <2>5, Zenon DEF OnGetAddressReturned, r
      <3> QED
        BY <2>1, <2>7, <3>1, Zenon DEF TokenInv
    <2>6. CASE r.entry # Nothing
      <3> DEFINE e == r.entry
      <3>1. /\ comment' = r.token
            /\ peer' = IF peer = Nothing THEN e.peer ELSE peer
            /\ identity' = IF identity = Nothing THEN e.endpoint ELSE identity
            /\ Mismatch(e) = "none"
        BY <1>3, <2>4, <2>6, Zenon DEF OnGetAddressReturned, r
      <3>2. e \in Address
        BY <2>3, <2>6
      <3> HIDE DEF e
      <3>3. OneWallet(peer', identity')
        BY <2>1, <3>1, <3>2, EntryOfOneWallet, Zenon DEF TokenInv
      <3>4. ASSUME TokenValid(token)
            PROVE  /\ txParams' = token
                   /\ Named(token, peer', identity')
        <4>1. txParams = token /\ Named(token, peer, identity)
          BY <2>1, <3>4, Zenon DEF TokenInv
        <4>2. WalletOf[token] # Nothing
          BY <3>4, Constants DEF TokenValid
        <4>3. Named(token, peer', identity')
          BY <3>1, <4>1, <4>2 DEF Named
        <4> QED
          BY <2>1, <4>1, <4>3
      <3> QED
        BY <2>1, <2>7, <3>1, <3>3, <3>4, Zenon DEF TokenInv
    <2> QED
      BY <2>5, <2>6
  <1>4. ASSUME \/ \E a \in Assets : SetAssetId(a)
               \/ \E s \in Amounts : SetSendAmount(s)
               \/ SetMaxPossibleAmount
               \/ \E value \in BOOLEAN : SetChoiceOffline(value)
               \/ \E value \in BOOLEAN : SetManualExchange(value)
               \/ SetComment \/ PressSend \/ CancelDialog \/ SendMoney
               \/ OnCoinsSelected \/ OnRelabel \/ OnAbandoned
               \/ Serve \/ BalanceChange \/ UNCHANGED vars
        PROVE  Same
    <2>1. \A label, t : Asked(requests, replies, label, t)
                         => Asked(requests', replies', label, t)
      BY <1>4, LookupsStay, Zenon
    <2>2. /\ UNCHANGED <<token, txParams, peer, identity>>
          /\ comment' = comment \/ comment' = Nothing
      BY <1>4, Zenon DEF SetAssetId, SetSendAmount, SetMaxPossibleAmount,
           SetChoiceOffline, SetManualExchange, SetComment, PressSend, CancelDialog,
           SendMoney, OnCoinsSelected, OnRelabel, OnAbandoned, Serve, SelectCoins,
           LookUp, LookUpToRelabel, SaveAddress, DeleteAddress, StartTransaction,
           GetAddressForNobody, BalanceChange, BalanceChanges, vars, form
    <2>3. \/ UNCHANGED fault
          \/ fault' \in {"canSend", "receiver", "relabel"}
      BY <1>4, Zenon DEF SetAssetId, SetSendAmount, SetMaxPossibleAmount,
           SetChoiceOffline, SetManualExchange, SetComment, PressSend, CancelDialog,
           SendMoney, OnCoinsSelected, OnRelabel, OnAbandoned, Serve, SelectCoins,
           LookUp, LookUpToRelabel, SaveAddress, DeleteAddress, StartTransaction,
           GetAddressForNobody, BalanceChange, BalanceChanges, vars, past
    <2>4. fault' = "none" => fault = "none"
      BY <2>3
    <2> QED
      BY <2>1, <2>2, <2>4, Zenon
  <1> QED
    BY <1>0, <1>1, <1>2, <1>3, <1>4, Zenon
       DEF Next, User, Deliver, Leave, LeaveAndDelete, OnSendMoneyVerified

-----------------------------------------------------------------------------
\* What requests do to the newest selection: others leave it, a new one is it,
\* and serving moves it on.
LEMMA NewestOfRequests ==
    ASSUME NEW S, NEW q \in Seq(S), NEW T, NEW p \in Seq(T),
           NEW x, NEW s, NEW a, NEW h
    PROVE  /\ \A e \in S : e.op # "select" /\ Newest(q, p, x, s, a, h)
                              => Newest(Append(q, e), p, x, s, a, h)
           /\ \A e \in S : \A y : e.op = "select"
                  => Newest(Append(q, e), p, y, e.sum, e.asset, e.shielded)
           /\ q # <<>> /\ Head(q).op # "select" /\ Newest(q, p, x, s, a, h)
                  => /\ Newest(Tail(q), p, x, s, a, h)
                     /\ \A e \in T : e.op # "selected"
                            => Newest(Tail(q), Append(p, e), x, s, a, h)
           /\ \A e \in T :
                  /\ q # <<>> /\ Head(q).op = "select" /\ Newest(q, p, x, s, a, h)
                  /\ e.op = "selected" /\ e.sum = Head(q).sum
                  /\ e.asset = Head(q).asset /\ e.shielded = Head(q).shielded
                  => Newest(Tail(q), Append(p, e), x, s, a, h)
  <1>1. ASSUME NEW e \in S, e.op # "select", Newest(q, p, x, s, a, h)
        PROVE  Newest(Append(q, e), p, x, s, a, h)
    BY <1>1, OtherAppended DEF Newest
  <1>2. ASSUME NEW e \in S, NEW y, e.op = "select"
        PROVE  Newest(Append(q, e), p, y, e.sum, e.asset, e.shielded)
    BY <1>2, SameAppended DEF Newest
  <1>3. ASSUME q # <<>>, Head(q).op # "select", Newest(q, p, x, s, a, h)
        PROVE  Newest(Tail(q), p, x, s, a, h)
    <2>1. /\ None(q, "select") => None(Tail(q), "select")
          /\ LastIs(q, "select", s, a, h) => LastIs(Tail(q), "select", s, a, h)
      BY <1>3, TakenOff
    <2> QED
      BY <1>3, <2>1 DEF Newest
  <1>4. ASSUME NEW r, NEW e \in T, e.op # "selected", Newest(r, p, x, s, a, h)
        PROVE  Newest(r, Append(p, e), x, s, a, h)
    BY <1>4, OtherAppended DEF Newest
  <1>5. ASSUME NEW e \in T, q # <<>>, Head(q).op = "select", Newest(q, p, x, s, a, h),
               e.op = "selected", e.sum = Head(q).sum, e.asset = Head(q).asset,
               e.shielded = Head(q).shielded
        PROVE  Newest(Tail(q), Append(p, e), x, s, a, h)
    <2>1. LastIs(Append(p, e), "selected", e.sum, e.asset, e.shielded)
      BY <1>5, SameAppended
    <2>2. LastIs(q, "select", s, a, h)
      BY <1>5, TakenOff DEF Newest
    <2>3. \/ LastIs(Tail(q), "select", s, a, h)
          \/ /\ None(Tail(q), "select")
             /\ Head(q).sum = s /\ Head(q).asset = a /\ Head(q).shielded = h
      BY <1>5, <2>2, TakenOff
    <2> QED
      BY <1>5, <2>1, <2>3 DEF Newest
  <1> QED
    BY <1>1, <1>2, <1>3, <1>4, <1>5

\* What answers do to it: others leave it; a delivered selection is filled in,
\* and is not the newest if it is for another amount or asset.
LEMMA NewestOfReplies ==
    ASSUME NEW T, NEW p \in Seq(T), p # <<>>, NEW q, NEW x, NEW s, NEW a, NEW h,
           Newest(q, p, x, s, a, h)
    PROVE  /\ Head(p).op # "selected" => Newest(q, Tail(p), x, s, a, h)
           /\ Head(p).op = "selected" => Newest(q, Tail(p), Head(p), s, a, h)
           /\ Head(p).op = "selected" /\ (Head(p).sum # s \/ Head(p).asset # a)
                  => /\ Newest(q, Tail(p), x, s, a, h)
                     /\ ~None(q, "select") \/ ~None(Tail(p), "selected")
  <1>1. None(p, "selected") <=> Head(p).op # "selected" /\ None(Tail(p), "selected")
    BY TakenOff
  <1>2. LastIs(p, "selected", s, a, h) =>
           \/ LastIs(Tail(p), "selected", s, a, h)
           \/ /\ None(Tail(p), "selected")
              /\ Head(p).op = "selected" /\ Head(p).sum = s
              /\ Head(p).asset = a /\ Head(p).shielded = h
    BY TakenOff
  <1>3. /\ LastIs(q, "select", s, a, h) => ~None(q, "select")
        /\ LastIs(Tail(p), "selected", s, a, h) => ~None(Tail(p), "selected")
    BY Zenon DEF LastIs, None
  <1> HIDE DEF None, LastIs
  <1> QED
    BY <1>1, <1>2, <1>3, Zenon DEF Newest

\* A refresh asks for the coins of just these values.
LEMMA RefreshNewest ==
    ASSUME NEW t, NEW c, NEW s \in Amounts, NEW a \in Assets, s > 0,
           NEW posted \in Seq(RequestType), replies \in Seq(ReplyType),
           RefreshCsi(t, c, s, a, posted), NEW y
    PROVE  Newest(requests', replies, y, s, a, Offline(t, c))
  <1> DEFINE e == [op |-> "select", sum |-> s, asset |-> a, shielded |-> Offline(t, c)]
  <1>1. /\ e \in RequestType /\ e.op = "select" /\ e.sum = s /\ e.asset = a
        /\ e.shielded = Offline(t, c)
    BY RequestTypes
  <1>2. requests' = Append(posted, e)
    BY Constants DEF RefreshCsi, Amounts
  <1> HIDE DEF e
  <1>3. Newest(Append(posted, e), replies, y, e.sum, e.asset, e.shielded)
    BY <1>1, NewestOfRequests
  <1> QED
    BY <1>1, <1>2, <1>3

\* Every step keeps the coins those of the form, or on their way.
LEMMA StepCoins ==
    ASSUME TypeOK, TokenInv, CoinsInv, [Next]_vars
    PROVE  CoinsInv'
  <1> DEFINE h == Offline(token, choiceOffline)
             Same == UNCHANGED <<token, sum, asset, choiceOffline>>
  <1>0. requests \in Seq(RequestType) /\ replies \in Seq(ReplyType)
    BY DEF TypeOK
  <1>1. ASSUME Same,
               Newest(requests, replies, sel, sum, asset, h)
                  => Newest(requests', replies', sel', sum, asset, h)
        PROVE  CoinsInv'
    BY <1>1 DEF CoinsInv
  <1>2. ASSUME replies' = replies,
               TokenValid(token') /\ sum' > 0 =>
                  /\ sum' \in Amounts /\ asset' \in Assets
                  /\ \E posted \in Seq(RequestType) :
                        RefreshCsi(token', choiceOffline', sum', asset', posted)
        PROVE  CoinsInv'
    <2>1. SUFFICES ASSUME TokenValid(token'), sum' > 0
                   PROVE  Newest(requests', replies', sel', sum', asset',
                                 Offline(token', choiceOffline'))
      BY Zenon DEF CoinsInv
    <2> QED
      BY <1>0, <1>2, <2>1, RefreshNewest
  <1>3. ASSUME NEW t \in Tokens \cup Text, SetToken(t)
        PROVE  CoinsInv'
    <2>1. replies' = replies /\ token' = t /\ choiceOffline' = FALSE
      BY <1>3, Zenon DEF SetToken
    <2>2. ASSUME TokenValid(t)
          PROVE  /\ sum' \in Amounts /\ asset' \in Assets
                 /\ \E posted \in Seq(RequestType) :
                       RefreshCsi(t, FALSE, sum', asset', posted)
      <3> DEFINE e == [op |-> "lookup", token |-> t]
      <3>1. /\ t \in Tokens /\ ExtractParameters(t)
        BY <1>3, <2>2, Zenon DEF SetToken, TokenValid
      <3>2. sum' \in Amounts /\ asset' \in Assets
        BY <3>1, Constants DEF ExtractParameters, TypeOK
      <3>3. RefreshCsi(t, FALSE, sum', asset', Append(requests, e))
        BY <3>1, Zenon DEF ExtractParameters
      <3>4. e \in RequestType
        BY <3>1, RequestTypes
      <3> HIDE DEF e
      <3>5. Append(requests, e) \in Seq(RequestType)
        BY <1>0, <3>4, AppendTo
      <3> QED
        BY <3>2, <3>3, <3>5
    <2> QED
      BY <1>2, <2>1, <2>2
  <1>4. ASSUME NEW a \in Assets, SetAssetId(a)
        PROVE  CoinsInv'
    <2>1. /\ UNCHANGED <<replies, token, choiceOffline, sum>> /\ asset' = a
          /\ RefreshCsi(token, choiceOffline, sum, a, requests)
      BY <1>4, Zenon DEF SetAssetId
    <2> QED
      BY <1>0, <1>2, <2>1 DEF TypeOK
  <1>5. ASSUME NEW s \in Amounts, SetSendAmount(s)
        PROVE  CoinsInv'
    <2>1. /\ UNCHANGED <<replies, token, choiceOffline, asset>> /\ sum' = s
          /\ RefreshCsi(token, choiceOffline, s, asset, requests)
      BY <1>5, Zenon DEF SetSendAmount
    <2> QED
      BY <1>0, <1>2, <2>1 DEF TypeOK
  <1>6. CASE SetMaxPossibleAmount
    <2>1. /\ UNCHANGED <<replies, token, choiceOffline, asset>> /\ sum' = avail[asset]
          /\ RefreshCsi(token, choiceOffline, sum', asset, requests)
      BY <1>6, Zenon DEF SetMaxPossibleAmount
    <2>2. sum' \in Amounts
      BY <2>1, Constants DEF TypeOK
    <2> QED
      BY <1>0, <1>2, <2>1, <2>2 DEF TypeOK
  <1>7. ASSUME NEW value \in BOOLEAN, SetChoiceOffline(value)
        PROVE  CoinsInv'
    <2>1. /\ UNCHANGED <<replies, token, sum, asset>> /\ choiceOffline' = value
          /\ RefreshCsi(token, value, sum, asset, requests)
      BY <1>7, Zenon DEF SetChoiceOffline
    <2>2. RefreshCsi(token', choiceOffline', sum', asset', requests)
      BY <2>1, Zenon
    <2> QED
      BY <1>0, <1>2, <2>1, <2>2 DEF TypeOK
  <1>8. ASSUME NEW value \in BOOLEAN, SetManualExchange(value)
        PROVE  CoinsInv'
    <2>1. /\ UNCHANGED <<replies, token, sum, asset>>
          /\ \/ /\ choiceOffline' = FALSE
                /\ RefreshCsi(token, FALSE, sum, asset, requests)
             \/ UNCHANGED <<choiceOffline, sel, requests>>
      BY <1>8, Zenon DEF SetManualExchange
    <2>2. CASE UNCHANGED <<choiceOffline, sel, requests>>
      BY <1>1, <2>1, <2>2
    <2>3. CASE choiceOffline' = FALSE /\ RefreshCsi(token, FALSE, sum, asset, requests)
      <3>1. RefreshCsi(token', choiceOffline', sum', asset', requests)
        BY <2>1, <2>3, Zenon
      <3> QED
        BY <1>0, <1>2, <2>1, <3>1 DEF TypeOK
    <2> QED
      BY <2>1, <2>2, <2>3
  <1>9. ASSUME SetComment \/ PressSend \/ CancelDialog \/ BalanceChange \/ UNCHANGED vars
        PROVE  CoinsInv'
    <2>1. Same /\ UNCHANGED <<sel, requests, replies>>
      BY <1>9, Zenon DEF SetComment, PressSend, CancelDialog, BalanceChange,
                         BalanceChanges, vars, form, line
    <2> QED
      BY <1>1, <2>1
  <1>10. CASE SendMoney
    <2> DEFINE x == SaveReceiverAddress
               y == [op |-> "start"]
    <2>1. /\ Same /\ UNCHANGED <<sel, replies>>
          /\ \/ UNCHANGED requests
             \/ /\ x \in RequestType /\ x.op \in {"relabel", "save"}
                /\ Append(requests, x) \in Seq(RequestType)
                /\ \/ requests' = Append(requests, x)
                   \/ requests' = Append(Append(requests, x), y)
      BY <1>10, SendPosts, Zenon DEF form
    <2>2. y \in RequestType /\ y.op # "select"
      BY RequestTypes
    <2> HIDE DEF x, y, h
    <2>3. ASSUME ~UNCHANGED requests, Newest(requests, replies, sel, sum, asset, h)
          PROVE  Newest(requests', replies, sel, sum, asset, h)
      <3>1. x \in RequestType /\ x.op # "select" /\ Append(requests, x) \in Seq(RequestType)
        BY <2>1, <2>3
      <3>2. Newest(Append(requests, x), replies, sel, sum, asset, h)
        BY <1>0, <2>3, <3>1, NewestOfRequests
      <3>3. Newest(Append(Append(requests, x), y), replies, sel, sum, asset, h)
        BY <1>0, <2>2, <3>1, <3>2, NewestOfRequests
      <3> QED
        BY <2>1, <2>3, <3>2, <3>3
    <2> QED
      BY <1>1, <2>1, <2>3 DEF h
  <1>11. ASSUME NEW rq, NEW rp, NewPage(rq, rp)
         PROVE  CoinsInv'
    BY <1>11 DEF NewPage, CoinsInv
  <1>12. CASE OnGetAddressReturned \/ OnAbandoned \/ OnRelabel
    <2> DEFINE r == Head(replies)
               e == [op |-> "save", entry |-> r.entry]
    <2>1. /\ Same /\ UNCHANGED sel /\ replies # <<>> /\ replies' = Tail(replies)
          /\ r.op \in {"address", "abandoned", "entry"}
          /\ \/ UNCHANGED requests
             \/ /\ r.op = "entry" /\ r.entry # Nothing
                /\ requests' = Append(requests, e)
      BY <1>12 DEF OnGetAddressReturned, OnAbandoned, OnRelabel, Answer, Received, form
    <2>2. r.op = "entry" /\ r.entry # Nothing => e \in RequestType /\ e.op # "select"
      BY <1>0, <2>1, TailOf, FieldTypes, RequestTypes
    <2>3. Tail(replies) \in Seq(ReplyType)
      BY <1>0, <2>1, TailOf
    <2> HIDE DEF e, h
    <2>4. Newest(requests, replies, sel, sum, asset, h)
             => Newest(requests, Tail(replies), sel, sum, asset, h)
      BY <1>0, <2>1, NewestOfReplies
    <2>5. Newest(requests, replies, sel, sum, asset, h)
             => Newest(requests', replies', sel', sum, asset, h)
      BY <1>0, <2>1, <2>2, <2>3, <2>4, NewestOfRequests
    <2> QED
      BY <1>1, <2>1, <2>5 DEF h
  <1>13. CASE OnCoinsSelected
    <2> DEFINE r == Head(replies)
               e == [op |-> "select", sum |-> r.netto, asset |-> asset, shielded |-> h]
    <2>1. /\ UNCHANGED <<token, asset, choiceOffline>>
          /\ replies # <<>> /\ replies' = Tail(replies) /\ r.op = "selected"
          /\ \/ /\ UNCHANGED <<sum, sel, requests>>
                /\ r.sum # sum \/ r.asset # asset
             \/ sum' = 0
             \/ sum' = r.netto /\ requests' = Append(requests, e)
             \/ sel' = r /\ UNCHANGED <<sum, requests>>
      BY <1>13, Zenon DEF OnCoinsSelected, Answer, Received, form
    <2>2. r \in ReplyType /\ Tail(replies) \in Seq(ReplyType)
      BY <1>0, <2>1, TailOf
    <2>3. e \in RequestType
      BY <2>1, <2>2, FieldTypes, RequestTypes DEF TypeOK
    <2>4. e.op = "select" /\ e.sum = r.netto /\ e.asset = asset /\ e.shielded = h
      OBVIOUS
    <2> HIDE DEF e, h, r
    <2>5. CASE UNCHANGED <<sum, sel, requests>> /\ (r.sum # sum \/ r.asset # asset)
      <3>1. Newest(requests, replies, sel, sum, asset, h)
               => Newest(requests', replies', sel', sum, asset, h)
        BY <1>0, <2>1, <2>5, NewestOfReplies DEF r
      <3> QED
        BY <1>1, <2>1, <2>5, <3>1 DEF h
    <2>6. CASE sum' = 0
      BY <2>6 DEF CoinsInv
    <2>7. CASE sum' = r.netto /\ requests' = Append(requests, e)
      <3>1. Newest(requests', replies', sel', r.netto, asset, h)
        BY <1>0, <2>1, <2>2, <2>3, <2>4, <2>7, NewestOfRequests
      <3> QED
        BY <2>1, <2>7, <3>1 DEF CoinsInv, h
    <2>8. CASE sel' = r /\ UNCHANGED <<sum, requests>>
      <3>1. Newest(requests, replies, sel, sum, asset, h)
               => Newest(requests', replies', sel', sum, asset, h)
        BY <1>0, <2>1, <2>8, NewestOfReplies DEF r
      <3> QED
        BY <1>1, <2>1, <2>8, <3>1 DEF h
    <2> QED
      BY <2>1, <2>5, <2>6, <2>7, <2>8
  <1>14. CASE Serve
    <2> DEFINE q == Head(requests)
    <2>1. /\ requests # <<>> /\ requests' = Tail(requests) /\ Same /\ UNCHANGED sel
          /\ \/ replies' = replies /\ q.op \in {"save", "delete"}
             \/ \E e \in ReplyType : replies' = Append(replies, e) /\ AnswerTo(q, e)
      BY <1>14, ServeStep, Zenon DEF form
    <2> HIDE DEF q, h
    <2>2. ASSUME Newest(requests, replies, sel, sum, asset, h)
          PROVE  Newest(requests', replies', sel', sum, asset, h)
      <3>1. CASE replies' = replies /\ q.op \in {"save", "delete"}
        BY <1>0, <2>1, <2>2, <3>1, NewestOfRequests DEF q
      <3>2. ASSUME NEW e \in ReplyType, replies' = Append(replies, e), AnswerTo(q, e)
            PROVE  Newest(requests', replies', sel', sum, asset, h)
        <4>1. CASE q.op = "select"
          BY <1>0, <2>1, <2>2, <3>2, <4>1, NewestOfRequests DEF q, AnswerTo
        <4>2. CASE q.op # "select"
          <5>1. e.op # "selected"
            BY <3>2, <4>2 DEF AnswerTo
          <5> QED
            BY <1>0, <2>1, <2>2, <3>2, <4>2, <5>1, NewestOfRequests DEF q
        <4> QED
          BY <4>1, <4>2
      <3> QED
        BY <2>1, <3>1, <3>2
    <2> QED
      BY <1>1, <2>1, <2>2 DEF h
  <1> QED
    BY <1>3, <1>4, <1>5, <1>6, <1>7, <1>8, <1>9, <1>10, <1>11, <1>12, <1>13, <1>14,
       Zenon DEF Next, User, Deliver, Leave, LeaveAndDelete, OnSendMoneyVerified

-----------------------------------------------------------------------------
\* An address is first stored under its own wallet.
LEMMA EntryType ==
    \A t \in Tokens :
       /\ EntryOf(t) \in Address /\ EntryOf(t).token = t
       /\ EntryOf(t).own <=> t \in Own
       /\ EntryOf(t).endpoint = EndpointOf(t)
       /\ EntryOf(t).peer = IF t \in Own THEN WalletOf[t] ELSE PeerOf(t)
  <1> TAKE t \in Tokens
  <1> DEFINE p == IF t \in Own THEN WalletOf[t] ELSE PeerOf(t)
             o == t \in Own
  <1>1. p \in Wallet /\ EndpointOf(t) \in Wallet /\ OneWallet(p, EndpointOf(t))
    BY Constants, ReceiverTypes DEF OneWallet, EndpointOf, Wallet
  <1>2. o \in BOOLEAN
    OBVIOUS
  <1>3. EntryOf(t) = [token |-> t, own |-> o, endpoint |-> EndpointOf(t), peer |-> p]
    BY Zenon DEF EntryOf
  <1>4. (t \in Own) = o
    OBVIOUS
  <1> HIDE DEF p, o
  <1>5. EntryOf(t) \in Address
    BY <1>1, <1>2, <1>3, AddressType
  <1>6. /\ EntryOf(t).token = t /\ EntryOf(t).own = o
        /\ EntryOf(t).endpoint = EndpointOf(t) /\ EntryOf(t).peer = p
    BY <1>3
  <1> QED
    BY <1>4, <1>5, <1>6 DEF p

\* The page is first opened empty.
LEMMA InitInv == Init => IInv
  <1> SUFFICES ASSUME Init
               PROVE  IInv
    OBVIOUS
  <1>1. /\ choiceOffline \in BOOLEAN /\ manualExchange \in BOOLEAN
        /\ maxPossible \in BOOLEAN /\ button \in BOOLEAN
    BY Zenon DEF Init
  <1>2. /\ token \in Input /\ txParams \in Tokens \cup {Nothing}
        /\ peer \in Wallet /\ identity \in Wallet /\ comment \in Tokens \cup {Nothing}
        /\ sum \in Amounts /\ asset \in Assets
        /\ dialog \in ShownType \cup {Nothing}
        /\ typed \in Amounts \cup {Nothing} /\ sent \in SentType \cup {Nothing}
        /\ fault \in Faults /\ avail \in Balances
    BY Constants DEF Init, Amounts, Input, Wallet, Faults
  <1>3. sel \in Selected
    BY UnselectedType, Constants DEF Init
  <1>4. requests \in Seq(RequestType) /\ replies \in Seq(ReplyType)
    BY DEF Init
  <1>5. BookType(book)
    <2>1. PICK known \in SUBSET Tokens :
             book = [t \in Tokens |-> IF t \in known THEN EntryOf(t) ELSE Nothing]
      BY Zenon DEF Init
    <2>2. \A t \in Tokens : EntryOf(t) \in Address /\ EntryOf(t).token = t
      BY EntryType
    <2> QED
      BY <2>1, <2>2 DEF BookType
  <1>6. TypeOK
    BY <1>1, <1>2, <1>3, <1>4, <1>5, ZenonT(60) DEF TypeOK, BookType
  <1>9. TokenInv
    BY Constants DEF Init, TokenInv, TokenValid, OneWallet
  <1>7. CoinsInv
    BY DEF Init, CoinsInv
  <1>8. FormInv
    BY Zenon DEF Init, FormInv, TypedAmountStands, SentIsConsistent
  <1> QED
    BY <1>6, <1>7, <1>8, <1>9 DEF IInv

\* Every step keeps the invariant.
LEMMA StepInv == IInv /\ [Next]_vars => IInv'
  BY StepTypes, StepToken, StepCoins, StepForm, Zenon DEF IInv

\* With nothing under way the form is consistent.
LEMMA Settled == IInv => SettledForm
  <1> SUFFICES ASSUME IInv, Quiet, fault = "none", TokenValid(token)
               PROVE  /\ txParams = token
                      /\ token \notin Public => Fits(token, peer, identity)
                      /\ comment \in {Nothing, token}
                      /\ sum > 0 => /\ sel.sum = sum
                                    /\ sel.asset = asset
                                    /\ sel.shielded = Offline(token, choiceOffline)
    BY Zenon DEF SettledForm
  <1>1. Len(requests) = 0 /\ Len(replies) = 0
    <2>1. Len(requests) \in Nat /\ Len(replies) \in Nat
      BY DEF IInv, TypeOK
    <2> QED
      BY <2>1 DEF Quiet, Pending
  <1>2. /\ \A op : None(requests, op) /\ None(replies, op)
        /\ \A op, s, a, h : ~LastIs(requests, op, s, a, h) /\ ~LastIs(replies, op, s, a, h)
        /\ \A op, t : ~LastOf(requests, op, t) /\ ~LastOf(replies, op, t)
    BY <1>1 DEF None, LastIs, LastOf
  <1>3. LookedUp(requests, replies)
    BY <1>2 DEF LookedUp
  <1>4. /\ txParams = token /\ Named(token, peer, identity)
        /\ OneWallet(peer, identity) /\ comment \in {Nothing, token}
    BY <1>2, <1>3, Zenon DEF IInv, TokenInv, Asked
  <1>5. token \notin Public => Fits(token, peer, identity)
    BY <1>4, Constants DEF Named, OneWallet, Fits, Public, PeerOf, EndpointOf, TokenValid
  <1>6. sum > 0 => /\ sel.sum = sum /\ sel.asset = asset
                   /\ sel.shielded = Offline(token, choiceOffline)
    BY <1>2 DEF IInv, CoinsInv, Newest
  <1> QED
    BY <1>4, <1>5, <1>6

\* Every field, queue and balance is always of its type.
THEOREM SendTypeCorrect == Spec => []TypeOK
  <1>1. IInv => TypeOK
    BY DEF IInv
  <1> QED
    BY <1>1, InitInv, StepInv, PTL DEF Spec

\* However edits and late answers interleave, the form is consistent whenever
\* nothing is under way.
THEOREM SettledTheorem == Spec => []SettledForm
  BY InitInv, StepInv, Settled, PTL DEF Spec

\* What is sent is built from its own token, and a manual exchange is never
\* started offline.
THEOREM SentTheorem == Spec => []SentIsConsistent
  <1>1. IInv => SentIsConsistent
    BY DEF IInv, FormInv
  <1> QED
    BY <1>1, InitInv, StepInv, PTL DEF Spec

\* The search for the largest amount never replaces an amount the user typed.
THEOREM TypedTheorem == Spec => []TypedAmountStands
  <1>1. IInv => TypedAmountStands
    BY DEF IInv, FormInv
  <1> QED
    BY <1>1, InitInv, StepInv, PTL DEF Spec

-----------------------------------------------------------------------------
(* A patient user.                                                         *)

\* An entry is stored under its token's wallet, an own one whole, and one with
\* the SBBS address of a token that names none has an endpoint too.
Stored(e) ==
    /\ Fits(e.token, e.peer, e.endpoint)
    /\ e.own => e.peer # Nothing
    /\ e.token \in OfflineOnly /\ e.peer # Nothing => e.endpoint # Nothing

\* Requests and answers under way while the page shows token t with receiver p:
\* lookups are of that token, and labels are only written while there is a
\* receiver to write them to.
RequestFor(t, p) ==
    {q \in RequestType :
        /\ q.op = "lookup" => q.token = t
        /\ q.op = "save" => Stored(q.entry) /\ (q.entry.own /\ t \in Tokens => p # Nothing)
        /\ q.op = "relabel" => (t \in Tokens => p # Nothing)}

ReplyFor(t, p) ==
    {r \in ReplyType :
        /\ r.op = "address" =>
              /\ r.token = t
              /\ r.entry # Nothing => Stored(r.entry) /\ FoundFor(t, r.entry)
        /\ r.op = "entry" =>
              /\ r.entry # Nothing /\ Stored(r.entry)
              /\ t \in Tokens => p # Nothing}

QueuesInv ==
    /\ requests \in Seq(RequestFor(token, peer))
    /\ replies \in Seq(ReplyFor(token, peer))

StoredInv == \A e \in Entries : Stored(e)

\* An entry of this kind can only be the first.
Front(q, op) == \A i \in 1..Len(q) : q[i].op = op => i = 1

\* There is one lookup at most, ahead of everything else.
LookupInv ==
    /\ Front(requests, "lookup") /\ Front(replies, "address")
    /\ replies # <<>> => None(requests, "lookup")

\* The address to relabel is in the book until its lookup is served.
RelabelInv ==
    /\ Front(requests, "relabel")
    /\ requests # <<>> /\ Head(requests).op = "relabel" =>
          \E e \in Entries : e.peer = Head(requests).peer

\* The next answer brings the SBBS address.
PeerIsComing ==
    /\ replies # <<>> /\ Head(replies).op = "address"
    /\ Head(replies).entry # Nothing /\ Head(replies).entry.peer # Nothing

\* The receiver is as parsed until its entry is there, then as in the book.
ReceiverInv ==
    TokenValid(token) =>
        /\ ~LookedUp(requests, replies) =>
              peer = PeerOf(token) /\ identity = EndpointOf(token)
        /\ Fits(token, peer, identity)
        /\ token \in OfflineOnly /\ peer # Nothing => identity # Nothing
        /\ TokenIsOwn /\ peer = Nothing /\ None(requests, "lookup") => PeerIsComing

Receiving == QueuesInv /\ StoredInv /\ LookupInv /\ RelabelInv /\ ReceiverInv

\* The button is on for a payment the coins suffice for, or may suffice for.
ButtonInv ==
    button => /\ TokenValid(token) /\ sum > 0
              /\ \/ sel.enough
                 \/ ~None(requests, "select") \/ ~None(replies, "selected")

Shown == [token |-> token, sum |-> sum, asset |-> asset,
          offline |-> Offline(token, choiceOffline)]

\* An open dialog shows the form as it is, with nothing under way.
DialogInv ==
    dialog # Nothing => requests = <<>> /\ replies = <<>> /\ CanSend /\ dialog = Shown

PatientInv ==
    Patient => /\ PatientMeetsNoFault
               /\ Receiving
               /\ ButtonInv
               /\ DialogInv
               /\ ConfirmedIsSent

\* With nothing under way nothing is in the queues.
LEMMA QuietIsEmpty ==
    ASSUME TypeOK
    PROVE  Quiet <=> requests = <<>> /\ replies = <<>>
  <1>1. /\ Len(requests) \in Nat /\ Len(replies) \in Nat
        /\ Len(requests) = 0 <=> requests = <<>>
        /\ Len(replies) = 0 <=> replies = <<>>
    BY DEF TypeOK
  <1> QED
    BY <1>1 DEF Quiet, Pending

\* Nothing is in an empty queue.
LEMMA EmptyHasNone == \A op : None(<<>>, op) /\ Front(<<>>, op)
  BY DEF None, Front

\* What is not there is not behind the front either.
LEMMA NoneIsFront == \A q, op : None(q, op) => Front(q, op)
  BY DEF None, Front

\* What is put at the end is only the first of its kind in an empty queue.
LEMMA FrontAppended ==
    ASSUME NEW S, NEW q \in Seq(S), NEW e \in S, NEW op, Front(q, op),
           e.op = op => q = <<>>
    PROVE  Front(Append(q, e), op)
  <1> DEFINE n == Len(q)
             r == Append(q, e)
  <1>1. /\ n \in Nat /\ Len(r) = n + 1 /\ r[n + 1] = e
        /\ \A i \in 1..n : r[i] = q[i]
        /\ q = <<>> => n = 0
    BY AppendTo
  <1>2. \A i \in 1..n : q[i].op = op => i = 1
    BY DEF Front
  <1> HIDE DEF n, r
  <1>3. ASSUME NEW i \in 1..(n + 1), r[i].op = op PROVE i = 1
    <2>1. CASE i \in 1..n
      BY <1>1, <1>2, <1>3, <2>1
    <2>2. CASE i = n + 1
      BY <1>1, <1>3, <2>2
    <2> QED
      BY <1>1, <2>1, <2>2
  <1> QED
    BY <1>1, <1>3 DEF Front, r

\* Behind the front there is none.
LEMMA FrontTaken ==
    ASSUME NEW S, NEW q \in Seq(S), q # <<>>, NEW op, Front(q, op)
    PROVE  /\ None(Tail(q), op) /\ Front(Tail(q), op)
           /\ ~None(q, op) => Head(q).op = op
  <1>1. /\ Len(q) \in Nat \ {0} /\ Len(Tail(q)) = Len(q) - 1 /\ Head(q) = q[1]
        /\ \A i \in 1..Len(q) - 1 : Tail(q)[i] = q[i + 1]
    BY TailOf
  <1>2. None(Tail(q), op)
    <2> SUFFICES ASSUME NEW i \in 1..Len(Tail(q)), Tail(q)[i].op = op
                 PROVE  FALSE
      BY DEF None
    <2>1. i \in Nat /\ i >= 1 /\ i + 1 \in 1..Len(q) /\ q[i + 1].op = op
      BY <1>1
    <2> QED
      BY <2>1 DEF Front
  <1>3. ~None(q, op) => Head(q).op = op
    BY <1>1 DEF None, Front
  <1> QED
    BY <1>2, <1>3, NoneIsFront

\* The front of a queue stays when something is put at its end.
LEMMA HeadAppended ==
    ASSUME NEW S, NEW q \in Seq(S), NEW e \in S
    PROVE  /\ Append(q, e) # <<>>
           /\ q = <<>> => Head(Append(q, e)) = e
           /\ q # <<>> => Head(Append(q, e)) = Head(q)
  OBVIOUS

\* A queue whose lookups are abandoned keeps its relabelling.
LEMMA AbandonedRelabel ==
    ASSUME NEW S, NEW q \in Seq(S), Front(q, "relabel")
    PROVE  /\ Front(Abandoned(q), "relabel")
           /\ Abandoned(q) # <<>> /\ Head(Abandoned(q)).op = "relabel" =>
                 q # <<>> /\ Head(q) = Head(Abandoned(q))
  <1>1. /\ Len(q) \in Nat /\ DOMAIN q = 1..Len(q)
        /\ q # <<>> <=> Len(q) # 0
    OBVIOUS
  <1> DEFINE r == Abandoned(q)
             a == [op |-> "abandoned"]
  <1>2. r = [i \in 1..Len(q) |-> IF q[i].op \in {"lookup", "address"} THEN a ELSE q[i]]
    BY <1>1, Zenon DEF Abandoned
  <1>3. r \in Seq(S \cup {a}) /\ Len(r) = Len(q)
    BY <1>1, <1>2
  <1>4. \A i \in 1..Len(q) : r[i].op = "relabel" => r[i] = q[i]
    BY <1>2
  <1> HIDE DEF r
  <1>5. Front(r, "relabel")
    BY <1>3, <1>4 DEF Front
  <1>6. ASSUME r # <<>>, Head(r).op = "relabel"
        PROVE  q # <<>> /\ Head(q) = Head(r)
    <2>1. Len(r) # 0 /\ Head(r) = r[1]
      BY <1>3, <1>6
    <2>2. q # <<>> /\ Head(q) = q[1] /\ 1 \in 1..Len(q)
      BY <1>1, <1>3, <2>1
    <2> QED
      BY <1>4, <1>6, <2>1, <2>2
  <1> QED
    BY <1>5, <1>6 DEF r

\* Most requests and answers do not depend on the token.
LEMMA ForAnyToken ==
    /\ \A q \in RequestType : \A t, p :
          q.op \notin {"lookup", "save", "relabel"} => q \in RequestFor(t, p)
    /\ \A r \in ReplyType : \A t, p :
          r.op \notin {"address", "entry"} => r \in ReplyFor(t, p)
    /\ \A t \in Tokens : \A p : [op |-> "lookup", token |-> t] \in RequestFor(t, p)
    /\ \A t, p : RequestFor(t, p) \subseteq RequestType /\ ReplyFor(t, p) \subseteq ReplyType
  BY RequestTypes DEF RequestFor, ReplyFor

\* A receiver that is found disturbs nothing under way.
LEMMA ForFoundPeer ==
    ASSUME NEW t, NEW p, NEW w, p # Nothing => w = p
    PROVE  /\ RequestFor(t, p) \subseteq RequestFor(t, w)
           /\ ReplyFor(t, p) \subseteq ReplyFor(t, w)
  BY DEF RequestFor, ReplyFor

\* What is abandoned with a page is nothing the next one, empty, matters to.
LEMMA AbandonedFits ==
    ASSUME NEW t, NEW p, NEW u, u \notin Tokens, NEW w,
           NEW rq \in Seq(RequestFor(t, p)), NEW rp \in Seq(ReplyFor(t, p))
    PROVE  /\ Abandoned(rq) \in Seq(RequestFor(u, w))
           /\ Abandoned(rp) \in Seq(ReplyFor(u, w))
  <1>1. /\ [op |-> "abandoned"] \in RequestFor(u, w)
        /\ [op |-> "abandoned"] \in ReplyFor(u, w)
    BY RequestTypes, ReplyTypes DEF RequestFor, ReplyFor
  <1>2. ASSUME NEW S, NEW V, NEW q \in Seq(S), [op |-> "abandoned"] \in V,
               \A e \in S : e.op \notin {"lookup", "address"} => e \in V
        PROVE  Abandoned(q) \in Seq(V)
    <2>1. /\ Len(q) \in Nat /\ DOMAIN q = 1..Len(q)
          /\ \A i \in 1..Len(q) : q[i] \in S
      OBVIOUS
    <2>2. Abandoned(q) \in [1..Len(q) -> V]
      BY <1>2, <2>1 DEF Abandoned
    <2> QED
      BY <2>1, <2>2
  <1>3. /\ \A e \in RequestFor(t, p) : e.op \notin {"lookup", "address"} => e \in RequestFor(u, w)
        /\ \A e \in ReplyFor(t, p) : e.op \notin {"lookup", "address"} => e \in ReplyFor(u, w)
    BY DEF RequestFor, ReplyFor
  <1> QED
    BY <1>1, <1>2, <1>3

\* A refresh asks for coins, which are for any token, unless there is no amount.
LEMMA RefreshFits ==
    ASSUME NEW t, NEW c, NEW s \in Amounts, NEW a \in Assets,
           NEW posted \in Seq(RequestType), RefreshCsi(t, c, s, a, posted)
    PROVE  /\ \/ requests' = posted
              \/ \E e \in RequestType : e.op = "select" /\ requests' = Append(posted, e)
           /\ s # 0 => ~None(requests', "select")
  <1> DEFINE e == [op |-> "select", sum |-> s, asset |-> a, shielded |-> Offline(t, c)]
  <1>1. e \in RequestType /\ e.op = "select"
    BY RequestTypes
  <1>2. requests' = posted \/ requests' = Append(posted, e)
    BY Zenon DEF RefreshCsi
  <1>3. s # 0 => requests' = Append(posted, e)
    BY Zenon DEF RefreshCsi
  <1> HIDE DEF e
  <1>4. ~None(Append(posted, e), "select")
    BY <1>1, SameAppended
  <1> QED
    BY <1>1, <1>2, <1>3, <1>4

\* A step that leaves the receiver and the book alone, posts neither lookup nor
\* relabelling, and delivers no entry of a token.
LEMMA QueueStep ==
    ASSUME TypeOK, Receiving, UNCHANGED <<token, peer, identity, book>>,
           \/ requests' = requests
           \/ \E e \in RequestFor(token, peer) :
                 e.op \notin {"lookup", "relabel"} /\ requests' = Append(requests, e),
           \/ replies' = replies
           \/ replies # <<>> /\ Head(replies).op # "address" /\ replies' = Tail(replies)
    PROVE  Receiving'
  <1>0. /\ requests \in Seq(RequestFor(token, peer)) /\ replies \in Seq(ReplyFor(token, peer))
        /\ QueuesInv /\ StoredInv /\ LookupInv /\ RelabelInv /\ ReceiverInv
    BY DEF Receiving, QueuesInv
  <1> DEFINE Rq == /\ requests' \in Seq(RequestFor(token, peer))
                   /\ None(requests', "lookup") <=> None(requests, "lookup")
                   /\ Front(requests', "lookup") /\ Front(requests', "relabel")
                   /\ requests' # <<>> /\ Head(requests').op = "relabel" =>
                         requests # <<>> /\ Head(requests') = Head(requests)
             Rp == /\ replies' \in Seq(ReplyFor(token, peer))
                   /\ Front(replies', "address")
                   /\ None(replies, "address") => None(replies', "address")
                   /\ replies' # <<>> => replies # <<>>
                   /\ replies # <<>> /\ Head(replies).op = "address" => replies' = replies
  <1>1. Rq
    <2>1. CASE requests' = requests
      BY <1>0, <2>1, Zenon DEF LookupInv, RelabelInv
    <2>2. ASSUME NEW e \in RequestFor(token, peer), e.op \notin {"lookup", "relabel"},
                 requests' = Append(requests, e)
          PROVE  Rq
      <3>1. e.op # "lookup" /\ e.op # "relabel"
        BY <2>2
      <3>2. requests' \in Seq(RequestFor(token, peer))
        BY <1>0, <2>2, AppendTo
      <3>3. None(requests', "lookup") <=> None(requests, "lookup")
        BY <1>0, <2>2, <3>1, AskAppended
      <3>4. Front(requests', "lookup") /\ Front(requests', "relabel")
        BY <1>0, <2>2, <3>1, FrontAppended DEF LookupInv, RelabelInv
      <3>5. requests' # <<>> /\ Head(requests').op = "relabel" =>
               requests # <<>> /\ Head(requests') = Head(requests)
        BY <1>0, <2>2, <3>1, HeadAppended
      <3> QED
        BY <3>2, <3>3, <3>4, <3>5
    <2> QED
      BY <2>1, <2>2
  <1>2. Rp
    <2>1. CASE replies' = replies
      BY <1>0, <2>1, Zenon DEF LookupInv
    <2>2. CASE replies # <<>> /\ Head(replies).op # "address" /\ replies' = Tail(replies)
      <3>1. replies' \in Seq(ReplyFor(token, peer))
        BY <1>0, <2>2, TailOf
      <3>2. Front(replies', "address") /\ None(replies', "address")
        BY <1>0, <2>2, FrontTaken DEF LookupInv
      <3> QED
        BY <2>2, <3>1, <3>2
    <2> QED
      BY <2>1, <2>2
  <1> HIDE DEF Rq, Rp
  <1>3. Entries' = Entries /\ TokenIsOwn' = TokenIsOwn
    BY Zenon DEF Entries, TokenIsOwn
  <1>4. QueuesInv'
    BY <1>1, <1>2, Zenon DEF QueuesInv, Rq, Rp
  <1>5. StoredInv'
    BY <1>0, <1>3, Zenon DEF StoredInv
  <1>6. LookupInv'
    BY <1>0, <1>1, <1>2, Zenon DEF LookupInv, Rq, Rp
  <1>7. RelabelInv'
    BY <1>0, <1>1, <1>3, Zenon DEF RelabelInv, Rq
  <1>8. ReceiverInv'
    <2>1. LookedUp(requests, replies) => LookedUp(requests', replies')
      BY <1>1, <1>2, Zenon DEF LookedUp, Rq, Rp
    <2>2. PeerIsComing => PeerIsComing'
      BY <1>2, Zenon DEF PeerIsComing, Rp
    <2>3. None(requests', "lookup") => None(requests, "lookup")
      BY <1>1, Zenon DEF Rq
    <2> QED
      BY <1>0, <1>3, <2>1, <2>2, <2>3, Zenon DEF ReceiverInv
  <1> QED
    BY <1>4, <1>5, <1>6, <1>7, <1>8 DEF Receiving

\* An address that fits the form's token trips no assertion, and what the form
\* takes from it fits the token.
LEMMA FoundMatches ==
    ASSUME token \in Tokens, peer = PeerOf(token), identity = EndpointOf(token),
           NEW e \in Address, Stored(e), FoundFor(token, e),
           NEW p, p = (IF peer = Nothing THEN e.peer ELSE peer),
           NEW i, i = (IF identity = Nothing THEN e.endpoint ELSE identity)
    PROVE  /\ Mismatch(e) = "none"
           /\ Fits(token, p, i)
           /\ token \in OfflineOnly /\ p # Nothing => i # Nothing
  <1>1. /\ e.token \in Tokens /\ WalletOf[token] # Nothing /\ WalletOf[e.token] # Nothing
    BY AddressType, Constants
  <1>2. CASE token \in OfflineOnly
    <2>1. e.token = token /\ peer = Nothing
      BY <1>2 DEF FoundFor, PeerOf
    <2>2. /\ e.peer \in {Nothing, WalletOf[token]}
          /\ e.endpoint \in {EndpointOf(token), WalletOf[token]}
          /\ e.peer # Nothing => e.endpoint # Nothing
      BY <1>2, <2>1 DEF Stored, Fits, PeerOf
    <2>3. CASE token \in NoEndpoint
      <3>1. identity = Nothing /\ e.token \in Public
        BY <1>2, <2>1, <2>3 DEF EndpointOf, Public
      <3>2. Mismatch(e) = "none"
        BY <1>2, <2>1, <3>1 DEF Mismatch, NeedsNoEndpoint
      <3> QED
        BY <1>2, <2>1, <2>2, <3>1, <3>2 DEF Fits, PeerOf
    <2>4. CASE token \notin NoEndpoint
      <3>1. identity = WalletOf[token] /\ e.endpoint = identity
        BY <2>2, <2>4 DEF EndpointOf
      <3>2. Mismatch(e) = "none"
        BY <1>1, <1>2, <2>1, <3>1 DEF Mismatch
      <3> QED
        BY <1>1, <1>2, <2>1, <2>2, <3>1, <3>2 DEF Fits, PeerOf
    <2> QED
      BY <2>3, <2>4
  <1>3. CASE token \notin OfflineOnly
    <2>1. peer = WalletOf[token] /\ e.peer = peer /\ peer # Nothing
      BY <1>1, <1>3 DEF FoundFor, PeerOf
    <2>2. WalletOf[e.token] = WalletOf[token]
      BY <2>1 DEF Stored, Fits, PeerOf
    <2>3. /\ e.endpoint \in {Nothing, WalletOf[token]}
          /\ e.endpoint = Nothing => e.token \in Online
      BY <1>1, <2>1, <2>2, Constants DEF Stored, Fits, EndpointOf
    <2>4. CASE token \in NoEndpoint
      <3>1. identity = Nothing /\ token \in Bare
        BY <1>3, <2>4, Constants DEF EndpointOf, Bare
      <3>2. Mismatch(e) = "none"
        BY <2>1, <2>3, <3>1 DEF Mismatch, NeedsNoEndpoint
      <3> QED
        BY <1>3, <2>1, <2>3, <3>1, <3>2 DEF Fits
    <2>5. CASE token \notin NoEndpoint
      <3>1. identity = WalletOf[token]
        BY <2>5 DEF EndpointOf
      <3>2. Mismatch(e) = "none"
        BY <1>1, <2>1, <2>3, <3>1 DEF Mismatch
      <3> QED
        BY <1>1, <1>3, <2>1, <3>1, <3>2 DEF Fits
    <2> QED
      BY <2>4, <2>5
  <1> QED
    BY <1>2, <1>3

\* An accepted dialog sends what it shows.
LEMMA PatientSends ==
    ASSUME Patient, TypeOK, TokenInv, CoinsInv, PatientInv, dialog # Nothing
    PROVE  /\ CanSend /\ LoadsReceiver /\ token \in Tokens
           /\ TokenIsOwn => PeerIsOwn
           /\ sum > 0 /\ sel.sum = sum /\ sel.asset = asset /\ sel.enough
           /\ sel.shielded = Offline(token, choiceOffline)
  <1>1. /\ requests = <<>> /\ replies = <<>> /\ CanSend /\ fault = "none"
        /\ ReceiverInv /\ StoredInv
    BY Zenon DEF PatientInv, DialogInv, PatientMeetsNoFault, Receiving
  <1>2. TokenValid(token) /\ sum > 0 /\ sel.enough /\ token \in Tokens
    BY <1>1, Zenon DEF CanSend, CanSendWith, TokenValid
  <1>3. LoadsReceiver
    <2>1. txParams = token
      BY <1>1, <1>2, Zenon DEF TokenInv
    <2> QED
      BY <1>2, <2>1, Constants DEF LoadsReceiver, Offline
  <1>4. None(requests, "lookup") /\ None(requests, "select") /\ None(replies, "selected")
    BY <1>1, EmptyHasNone
  <1>5. ASSUME TokenIsOwn
        PROVE  PeerIsOwn
    <2> DEFINE e == book[token]
    <2>1. e \in Entries /\ e.token = token /\ e.own
      BY <1>2, <1>5, EntriesType DEF TokenIsOwn, TypeOK
    <2>2. ~PeerIsComing
      BY <1>1, Zenon DEF PeerIsComing
    <2>3. peer # Nothing /\ Fits(token, peer, identity)
      BY <1>1, <1>2, <1>4, <1>5, <2>2, Zenon DEF ReceiverInv
    <2>4. e.peer # Nothing /\ Fits(token, e.peer, e.endpoint)
      BY <1>1, <2>1 DEF StoredInv, Stored
    <2> HIDE DEF e
    <2>5. e.peer = peer
      BY <2>3, <2>4 DEF Fits, PeerOf
    <2> QED
      BY <2>1, <2>3, <2>5 DEF PeerIsOwn
  <1>6. Newest(requests, replies, sel, sum, asset, Offline(token, choiceOffline))
    BY <1>2 DEF CoinsInv
  <1>7. sel.sum = sum /\ sel.asset = asset /\ sel.shielded = Offline(token, choiceOffline)
    BY <1>1, <1>4, <1>6 DEF Newest, LastIs
  <1> QED
    BY <1>1, <1>2, <1>3, <1>5, <1>7

\* A step that closes or never opens the dialog and sends nothing.
LEMMA FromParts ==
    ASSUME Patient, PatientInv, fault' = "none", Receiving', ButtonInv',
           dialog' = Nothing, sent' = sent \/ sent' = Nothing
    PROVE  PatientInv'
  BY Zenon DEF PatientInv, PatientMeetsNoFault, DialogInv, ConfirmedIsSent

\* An edit that refreshes the coins leaves a button that waits for them.
LEMMA RefreshPatient ==
    ASSUME Patient, TypeOK, PatientInv, dialog = Nothing,
           UNCHANGED <<token, peer, identity, replies, dialog, book, sent, fault>>,
           NEW c, RefreshCsi(token, c, sum', asset', requests), RefreshButton(sum'),
           sum' \in Amounts, asset' \in Assets
    PROVE  PatientInv'
  <1>1. /\ fault = "none" /\ Receiving /\ ButtonInv
    BY Zenon DEF PatientInv, PatientMeetsNoFault
  <1>2. /\ \/ requests' = requests
           \/ \E e \in RequestType : e.op = "select" /\ requests' = Append(requests, e)
        /\ sum' # 0 => ~None(requests', "select")
    BY RefreshFits DEF TypeOK
  <1>3. \/ requests' = requests
        \/ \E e \in RequestFor(token, peer) :
              e.op \notin {"lookup", "relabel"} /\ requests' = Append(requests, e)
    BY <1>2, ForAnyToken
  <1>4. Receiving'
    BY <1>1, <1>3, QueueStep
  <1>5. ButtonInv'
    <2>1. button' => button /\ sum' # 0
      BY Zenon DEF RefreshButton
    <2>2. sum' # 0 => sum' > 0
      BY Constants DEF Amounts
    <2>3. button => TokenValid(token)
      BY <1>1, Zenon DEF ButtonInv
    <2> QED
      BY <1>2, <2>1, <2>2, <2>3, Zenon DEF ButtonInv
  <1> QED
    BY <1>1, <1>4, <1>5, FromParts, Zenon

\* The token a patient user enters is looked up ahead of everything else.
LEMMA TokenPatient ==
    ASSUME Patient, TypeOK, PatientInv, NEW t \in Tokens \cup Text, SetToken(t)
    PROVE  Receiving'
  <1>1. /\ requests = <<>> /\ replies = <<>>
    BY QuietIsEmpty, Zenon DEF SetToken, Waits
  <1>2. token' = t /\ UNCHANGED <<replies, book>> /\ StoredInv
    BY Zenon DEF SetToken, chain, PatientInv, Receiving
  <1>3. StoredInv'
    BY <1>2, Zenon DEF StoredInv, Entries
  <1>4. replies' = <<>> /\ replies' \in Seq(ReplyFor(t, peer')) /\ Front(replies', "address")
    BY <1>1, <1>2, EmptyHasNone
  <1>5. CASE ~TokenValid(t)
    <2>1. requests' = <<>>
      BY <1>1, <1>5, Zenon DEF SetToken
    <2>2. requests' \in Seq(RequestFor(t, peer'))
      BY <2>1
    <2>3. /\ Front(requests', "lookup") /\ Front(requests', "relabel")
          /\ None(requests', "lookup")
      BY <2>1, EmptyHasNone, Zenon
    <2>4. QueuesInv' /\ LookupInv' /\ RelabelInv' /\ ReceiverInv'
      BY <1>2, <1>4, <1>5, <2>1, <2>2, <2>3, Zenon
         DEF QueuesInv, LookupInv, RelabelInv, ReceiverInv
    <2> QED
      BY <1>3, <2>4 DEF Receiving
  <1>6. CASE TokenValid(t)
    <2> DEFINE s == IF t \in Invoices THEN InvoiceSum ELSE sum
               a == IF t \in Invoices THEN InvoiceAsset ELSE asset
               e == [op |-> "lookup", token |-> t]
               q == Append(<<>>, e)
    <2>1. /\ t \in Tokens /\ RefreshCsi(t, FALSE, s, a, q)
          /\ peer' = ReceiverOf(t) /\ identity' = IdentityOf(t)
      BY <1>1, <1>6, Zenon DEF SetToken, ExtractParameters, TokenValid
    <2>2. s \in Amounts /\ a \in Assets
      BY Constants DEF TypeOK
    <2>3. e \in RequestFor(t, peer') /\ e \in RequestType /\ e.op = "lookup" /\ e.op # "relabel"
      BY <2>1, ForAnyToken, RequestTypes
    <2> HIDE DEF s, a, e
    <2>4. q \in Seq(RequestFor(t, peer')) /\ q \in Seq(RequestType) /\ q # <<>> /\ Head(q) = e
      BY <2>3
    <2>5. Front(q, "lookup") /\ Front(q, "relabel")
      <3>1. <<>> \in Seq(RequestType) /\ \A op : Front(<<>>, op)
        BY EmptyHasNone
      <3> QED
        BY <2>3, <3>1, FrontAppended
    <2> HIDE DEF q
    <2>6. PICK f \in RequestType : \/ requests' = q
                                   \/ f.op = "select" /\ requests' = Append(q, f)
      BY <2>1, <2>2, <2>3, <2>4, RefreshFits
    <2>7. /\ requests' \in Seq(RequestFor(t, peer'))
          /\ Front(requests', "lookup") /\ Front(requests', "relabel")
          /\ Head(requests') = e
      <3>1. CASE requests' = q
        BY <2>4, <2>5, <3>1
      <3>2. CASE f.op = "select" /\ requests' = Append(q, f)
        <4>1. f \in RequestFor(t, peer')
          BY <3>2, ForAnyToken
        <4>2. requests' \in Seq(RequestFor(t, peer'))
          BY <2>4, <3>2, <4>1, AppendTo
        <4>3. Front(requests', "lookup") /\ Front(requests', "relabel")
          BY <2>4, <2>5, <3>2, FrontAppended
        <4>4. Head(requests') = e
          BY <2>4, <3>2, HeadAppended
        <4> QED
          BY <4>2, <4>3, <4>4
      <3> QED
        BY <2>6, <3>1, <3>2
    <2>8. QueuesInv' /\ LookupInv' /\ RelabelInv'
      BY <1>2, <1>4, <2>3, <2>7 DEF QueuesInv, LookupInv, RelabelInv
    <2>9. ReceiverInv'
      <3>1. peer' = PeerOf(t) /\ identity' = EndpointOf(t)
        BY <2>1, ReceiverTypes
      <3>2. ~None(requests', "lookup")
        <4>1. ~LookedUp(requests', replies')
          BY <1>6, TokenIsLookedUp
        <4> QED
          BY <1>4, <4>1, EmptyHasNone DEF LookedUp
      <3>3. Fits(t, peer', identity') /\ (t \in OfflineOnly => peer' = Nothing)
        BY <3>1 DEF Fits, PeerOf
      <3> QED
        BY <1>2, <3>1, <3>2, <3>3, Zenon DEF ReceiverInv
    <2> QED
      BY <1>3, <2>8, <2>9 DEF Receiving
  <1> QED
    BY <1>5, <1>6

\* The edits of a patient user.
LEMMA EditPatient ==
    ASSUME Patient, TypeOK, TokenInv, PatientInv,
           \/ \E t \in Tokens \cup Text : SetToken(t)
           \/ \E a \in Assets : SetAssetId(a)
           \/ \E s \in Amounts : SetSendAmount(s)
           \/ SetMaxPossibleAmount
           \/ \E value \in BOOLEAN : SetChoiceOffline(value)
           \/ \E value \in BOOLEAN : SetManualExchange(value)
           \/ SetComment
    PROVE  PatientInv'
  <1>0. /\ dialog = Nothing /\ UNCHANGED <<dialog, replies, book, sent, fault>>
        /\ fault = "none"
    BY Zenon DEF SetToken, SetAssetId, SetSendAmount, SetMaxPossibleAmount,
         SetChoiceOffline, SetManualExchange, SetComment, Editing, Free, page, line,
         chain, past
  <1>1. Receiving /\ ButtonInv
    BY Zenon DEF PatientInv
  <1>2. ASSUME NEW t \in Tokens \cup Text, SetToken(t)
        PROVE  PatientInv'
    <2>1. /\ token' = t /\ button' = CanSendWith(t, sum', sel'.enough)
      BY <1>2, Zenon DEF SetToken
    <2>2. ButtonInv'
      BY <2>1, Zenon DEF ButtonInv, CanSendWith
    <2> QED
      BY <1>0, <1>2, <2>2, TokenPatient, FromParts, Zenon
  <1>3. ASSUME \/ \E a \in Assets : SetAssetId(a)
               \/ \E s \in Amounts : SetSendAmount(s)
               \/ SetMaxPossibleAmount
               \/ \E value \in BOOLEAN : SetChoiceOffline(value)
               \/ \E value \in BOOLEAN : SetManualExchange(value)
               \/ SetComment
        PROVE  PatientInv'
    <2>2. UNCHANGED <<token, peer, identity>>
      BY <1>3, Zenon DEF SetAssetId, SetSendAmount, SetMaxPossibleAmount,
           SetChoiceOffline, SetManualExchange, SetComment
    <2>3. \/ /\ \E c : RefreshCsi(token, c, sum', asset', requests)
             /\ RefreshButton(sum')
          \/ UNCHANGED <<sum, sel, button, requests>>
      <3>1. ASSUME NEW a \in Assets, SetAssetId(a)
            PROVE  /\ RefreshCsi(token, choiceOffline, sum', asset', requests)
                   /\ RefreshButton(sum')
        BY <3>1, Zenon DEF SetAssetId
      <3>2. ASSUME NEW s \in Amounts, SetSendAmount(s)
            PROVE  /\ RefreshCsi(token, choiceOffline, sum', asset', requests)
                   /\ RefreshButton(sum')
        BY <3>2, Zenon DEF SetSendAmount
      <3>3. ASSUME SetMaxPossibleAmount
            PROVE  /\ RefreshCsi(token, choiceOffline, sum', asset', requests)
                   /\ RefreshButton(sum')
        BY <3>3, Zenon DEF SetMaxPossibleAmount
      <3>4. ASSUME NEW value \in BOOLEAN, SetChoiceOffline(value)
            PROVE  /\ RefreshCsi(token, value, sum', asset', requests)
                   /\ RefreshButton(sum')
        BY <3>4, Zenon DEF SetChoiceOffline
      <3>5. ASSUME NEW value \in BOOLEAN, SetManualExchange(value)
            PROVE  \/ /\ RefreshCsi(token, FALSE, sum', asset', requests)
                      /\ RefreshButton(sum')
                   \/ UNCHANGED <<sum, sel, button, requests>>
        BY <3>5, Zenon DEF SetManualExchange
      <3>6. ASSUME SetComment
            PROVE  UNCHANGED <<sum, sel, button, requests>>
        BY <3>6, Zenon DEF SetComment, page, line
      <3> QED
        BY <1>3, <3>1, <3>2, <3>3, <3>4, <3>5, <3>6, Zenon
    <2>4. CASE UNCHANGED <<sum, sel, button, requests>>
      <3>1. Receiving'
        BY <1>0, <1>1, <2>2, <2>4, QueueStep
      <3>2. ButtonInv'
        BY <1>0, <1>1, <2>2, <2>4 DEF ButtonInv
      <3> QED
        BY <1>0, <3>1, <3>2, FromParts, Zenon
    <2>5. CASE /\ \E c : RefreshCsi(token, c, sum', asset', requests)
               /\ RefreshButton(sum')
      <3>1. sum' \in Amounts /\ asset' \in Assets
        BY EditTypes, <1>3, Zenon DEF TypeOK
      <3> QED
        BY <1>0, <2>2, <2>5, <3>1, RefreshPatient, Zenon
    <2> QED
      BY <2>3, <2>4, <2>5
  <1> QED
    BY <1>2, <1>3, Zenon

\* A patient user's dialog shows the form, and what it shows is sent.
LEMMA DialogPatient ==
    ASSUME Patient, TypeOK, TokenInv, CoinsInv, PatientInv,
           PressSend \/ CancelDialog \/ SendMoney
    PROVE  PatientInv'
  <1>1. /\ fault = "none" /\ Receiving /\ ButtonInv /\ DialogInv /\ ConfirmedIsSent
        /\ QueuesInv /\ StoredInv /\ LookupInv /\ RelabelInv /\ ReceiverInv
    BY Zenon DEF PatientInv, PatientMeetsNoFault, Receiving
  <1>2. ASSUME UNCHANGED <<form, sel, button, line, chain, past>>
        PROVE  Receiving' /\ ButtonInv' /\ fault' = "none" /\ sent' = sent
    <2>1. UNCHANGED <<token, peer, identity, sum, sel, button, requests, replies, book,
                      sent, fault>>
      BY <1>2, Zenon DEF form, line, chain, past
    <2>2. Receiving'
      BY <1>1, <2>1, QueueStep
    <2> QED
      BY <1>1, <2>1, <2>2 DEF ButtonInv
  <1>3. CASE CancelDialog
    BY <1>2, <1>3, FromParts, Zenon DEF CancelDialog
  <1>4. CASE PressSend
    <2>1. /\ UNCHANGED <<form, sel, button, line, chain, past>> /\ button
          /\ dialog' = Shown
          /\ requests = <<>> /\ replies = <<>>
      BY <1>4, QuietIsEmpty, Zenon DEF PressSend, Waits, Shown
    <2>2. CanSend
      <3>1. None(requests, "select") /\ None(replies, "selected")
        BY <2>1, EmptyHasNone
      <3> QED
        BY <1>1, <2>1, <3>1, Zenon DEF ButtonInv, CanSend, CanSendWith
    <2>3. DialogInv'
      <3>1. UNCHANGED <<token, sum, asset, choiceOffline, sel, requests, replies>>
        BY <2>1, Zenon DEF form, line
      <3>2. CanSend' /\ Shown' = Shown
        BY <2>2, <3>1, Zenon DEF CanSend, Shown
      <3> QED
        BY <2>1, <3>1, <3>2, Zenon DEF DialogInv
    <2>4. ConfirmedIsSent'
      BY <1>1, <1>2, <2>1, Zenon DEF ConfirmedIsSent
    <2> QED
      BY <1>2, <2>1, <2>3, <2>4, Zenon DEF PatientInv, PatientMeetsNoFault
  <1>5. CASE SendMoney
    <2>1. /\ dialog # Nothing /\ dialog' = Nothing
          /\ UNCHANGED <<form, sel, button, replies, chain, typed>>
      BY <1>5, Zenon DEF SendMoney
    <2>2. /\ CanSend /\ LoadsReceiver /\ token \in Tokens
          /\ TokenIsOwn => PeerIsOwn
          /\ sum > 0 /\ sel.sum = sum /\ sel.asset = asset /\ sel.enough
          /\ sel.shielded = Offline(token, choiceOffline)
      BY <2>1, PatientSends
    <2>3. /\ requests' = requests \o <<SaveReceiverAddress, [op |-> "start"]>>
          /\ sent' = Transaction /\ fault' = fault
      BY <1>5, <2>2, Zenon DEF SendMoney
    <2>4. dialog = Shown /\ requests = <<>> /\ replies = <<>>
      BY <1>1, <2>1, Zenon DEF DialogInv
    <2>5. UNCHANGED <<token, peer, identity, sum, asset, choiceOffline, sel, button,
                      replies, book>>
      BY <2>1, Zenon DEF form, chain
    <2>6. ConfirmedIsSent'
      <3>1. /\ Transaction.shown = dialog
            /\ Transaction.token = token /\ Transaction.sum = sum
            /\ Transaction.asset = asset
            /\ Transaction.offline = Offline(token, choiceOffline)
            /\ Transaction.sel = sel /\ Transaction.own = TokenIsOwn
            /\ Transaction.relabels = PeerIsOwn
        BY Zenon DEF Transaction
      <3> QED
        BY <2>2, <2>3, <2>4, <3>1, Zenon DEF ConfirmedIsSent, Shown
    <2> DEFINE x == SaveReceiverAddress
               y == [op |-> "start"]
    <2>7. requests' = <<x, y>> /\ x \in RequestType /\ y \in RequestType
      <3>1. x \in RequestType
        BY <1>1, <2>2, SaveType
      <3> QED
        BY <2>3, <2>4, <3>1, RequestTypes
    <2>8. Fits(token, peer, identity) /\ (token \in OfflineOnly /\ peer # Nothing => identity # Nothing)
      BY <1>1, <2>2, Zenon DEF ReceiverInv, TokenValid
    <2>9. /\ x \in RequestFor(token, peer) /\ x.op # "lookup"
          /\ x.op = "relabel" => \E e \in Entries : e.peer = x.peer
      <3>1. CASE PeerIsOwn
        <4>1. x = [op |-> "relabel", peer |-> peer]
          BY <3>1, Zenon DEF SaveReceiverAddress
        <4>2. x.op = "relabel" /\ x.peer = peer
          BY <4>1
        <4>3. peer # Nothing /\ \E e \in Entries : e.peer = peer
          BY <3>1, Zenon DEF PeerIsOwn
        <4> HIDE DEF x
        <4> QED
          BY <2>7, <4>2, <4>3 DEF RequestFor
      <3>2. CASE ~PeerIsOwn
        <4> DEFINE e == [token |-> token, own |-> FALSE, endpoint |-> identity,
                         peer |-> peer]
        <4>1. x = [op |-> "save", entry |-> e]
          BY <3>2, Zenon DEF SaveReceiverAddress
        <4>2. e.token = token /\ ~e.own /\ e.endpoint = identity /\ e.peer = peer
          OBVIOUS
        <4> HIDE DEF e
        <4>3. x.op = "save" /\ x.entry = e
          BY <4>1
        <4>4. Stored(e)
          BY <2>8, <4>2, Zenon DEF Stored
        <4> HIDE DEF x
        <4> QED
          BY <2>7, <4>2, <4>3, <4>4 DEF RequestFor
      <3> QED
        BY <3>1, <3>2
    <2>10. y \in RequestFor(token, peer) /\ y.op # "lookup" /\ y.op # "relabel"
      BY <2>7, ForAnyToken
    <2> HIDE DEF x, y
    <2>11. requests' \in Seq(RequestFor(token, peer))
      BY <2>7, <2>9, <2>10
    <2>12. /\ Len(requests') = 2 /\ requests'[1] = x /\ requests'[2] = y
           /\ Head(requests') = x
      BY <2>7
    <2>13. None(requests', "lookup") /\ Front(requests', "relabel")
      BY <2>9, <2>10, <2>12 DEF None, Front
    <2>14. Entries' = Entries
      BY <2>5, Zenon DEF Entries
    <2>15. QueuesInv'
      BY <1>1, <2>5, <2>11, Zenon DEF QueuesInv
    <2>16. StoredInv' /\ LookupInv'
      BY <1>1, <2>5, <2>13, <2>14, NoneIsFront, Zenon DEF StoredInv, LookupInv
    <2>17. RelabelInv'
      BY <2>9, <2>12, <2>13, <2>14, Zenon DEF RelabelInv
    <2>18. ReceiverInv'
      <3>1. LookedUp(requests', replies') /\ None(requests, "lookup") /\ ~PeerIsComing
        BY <2>4, <2>5, <2>13, EmptyHasNone, Zenon DEF LookedUp, PeerIsComing
      <3>2. TokenIsOwn' = TokenIsOwn
        BY <2>5, Zenon DEF TokenIsOwn
      <3> QED
        BY <1>1, <2>5, <3>1, <3>2, Zenon DEF ReceiverInv
    <2>19. Receiving'
      BY <2>15, <2>16, <2>17, <2>18 DEF Receiving
    <2>20. ButtonInv'
      BY <2>2, <2>5, Zenon DEF ButtonInv, CanSend, CanSendWith
    <2>21. DialogInv'
      BY <2>1, Zenon DEF DialogInv
    <2> QED
      BY <1>1, <2>3, <2>6, <2>19, <2>20, <2>21, Zenon
         DEF PatientInv, PatientMeetsNoFault
  <1> QED
    BY <1>3, <1>4, <1>5

\* The page made anew.
LEMMA NewPagePatient ==
    ASSUME Patient, PatientInv, NEW rq \in Seq(RequestFor(token, peer)),
           NEW rp \in Seq(ReplyFor(token, peer)), NewPage(rq, rp), UNCHANGED <<chain, fault>>,
           Front(rq, "relabel"),
           rq # <<>> /\ Head(rq).op = "relabel" => \E e \in Entries : e.peer = Head(rq).peer
    PROVE  PatientInv'
  <1>1. fault = "none" /\ StoredInv
    BY Zenon DEF PatientInv, PatientMeetsNoFault, Receiving
  <1>2. /\ requests' = Abandoned(rq) /\ replies' = Abandoned(rp) /\ book' = book
        /\ fault' = fault /\ dialog' = Nothing /\ sent' = Nothing
        /\ token' \in Text /\ ~button'
    BY Zenon DEF NewPage, chain
  <1>3. token' \notin Tokens
    BY <1>2, Constants
  <1>4. QueuesInv'
    BY <1>2, <1>3, AbandonedFits DEF QueuesInv
  <1>5. Entries' = Entries
    BY <1>2, Zenon DEF Entries
  <1>6. StoredInv'
    BY <1>1, <1>5, Zenon DEF StoredInv
  <1>7. LookupInv'
    <2>1. None(requests', "lookup") /\ None(replies', "address")
      <3>1. /\ rq \in Seq(RequestType \cup {[op |-> "abandoned"]})
            /\ rp \in Seq(ReplyType \cup {[op |-> "abandoned"]})
        BY ForAnyToken
      <3> QED
        BY <1>2, <3>1, AbandonedHasNone
    <2> QED
      BY <2>1, NoneIsFront, Zenon DEF LookupInv
  <1>8. RelabelInv'
    <2>1. /\ Front(requests', "relabel")
          /\ requests' # <<>> /\ Head(requests').op = "relabel" =>
                rq # <<>> /\ Head(rq) = Head(requests')
      BY <1>2, AbandonedRelabel
    <2> QED
      BY <1>5, <2>1, Zenon DEF RelabelInv
  <1>9. ReceiverInv'
    BY <1>3 DEF ReceiverInv, TokenValid
  <1>10. ButtonInv'
    BY <1>2, Zenon DEF ButtonInv
  <1>11. Receiving'
    BY <1>4, <1>6, <1>7, <1>8, <1>9 DEF Receiving
  <1> QED
    BY <1>1, <1>2, <1>10, <1>11, FromParts, Zenon

\* The answer to the lookup of a patient user's token.
LEMMA FoundPatient ==
    ASSUME Patient, TypeOK, PatientInv, OnGetAddressReturned
    PROVE  fault' = "none" /\ Receiving'
  <1> DEFINE r == Head(replies)
             e == r.entry
  <1>1. /\ fault = "none" /\ QueuesInv /\ StoredInv /\ LookupInv /\ RelabelInv /\ ReceiverInv
    BY Zenon DEF PatientInv, PatientMeetsNoFault, Receiving
  <1>2. /\ replies # <<>> /\ r.op = "address" /\ replies' = Tail(replies)
        /\ UNCHANGED <<token, book, requests>>
    BY Zenon DEF OnGetAddressReturned, Answer, Received, chain, r
  <1>3. /\ requests \in Seq(RequestFor(token, peer)) /\ replies \in Seq(ReplyFor(token, peer))
        /\ r \in ReplyFor(token, peer) /\ r \in ReplyType
        /\ Tail(replies) \in Seq(ReplyFor(token, peer))
    BY <1>1, <1>2, TailOf, ForAnyToken DEF QueuesInv
  <1>4. \/ /\ e = Nothing /\ UNCHANGED <<peer, identity, fault>>
        \/ /\ e # Nothing /\ fault' = Mismatch(e)
           /\ peer'     = IF peer = Nothing THEN e.peer ELSE peer
           /\ identity' = IF identity = Nothing THEN e.endpoint ELSE identity
    BY Zenon DEF OnGetAddressReturned, r, e
  <1>5. PeerIsComing => e # Nothing /\ e.peer # Nothing
    BY Zenon DEF PeerIsComing, r, e
  <1> HIDE DEF r
  <1>6. /\ r.token = token /\ token \in Tokens /\ e \in Address \cup {Nothing}
        /\ e # Nothing => Stored(e) /\ FoundFor(token, e)
    BY <1>2, <1>3, FieldTypes DEF ReplyFor
  <1> HIDE DEF e
  <1>7. /\ None(Tail(replies), "address") /\ Front(Tail(replies), "address")
        /\ ~None(replies, "address")
    BY <1>1, <1>2, <1>3, FrontTaken, TakenOff DEF LookupInv, r
  <1>8. None(requests, "lookup") /\ LookedUp(requests', replies')
    BY <1>1, <1>2, <1>7, Zenon DEF LookupInv, LookedUp
  <1>9. peer = PeerOf(token) /\ identity = EndpointOf(token)
    BY <1>1, <1>6, <1>7, Zenon DEF ReceiverInv, TokenValid, LookedUp
  <1>10. /\ fault' = "none" /\ Fits(token, peer', identity')
         /\ token \in OfflineOnly /\ peer' # Nothing => identity' # Nothing
    <2>1. CASE e = Nothing
      BY <1>1, <1>4, <1>9, <2>1 DEF Fits, PeerOf
    <2>2. CASE e # Nothing
      BY <1>4, <1>6, <1>9, <2>2, FoundMatches, Zenon
    <2> QED
      BY <2>1, <2>2
  <1>11. ~(TokenIsOwn' /\ peer' = Nothing)
    <2>1. SUFFICES ASSUME TokenIsOwn, peer' = Nothing
                   PROVE  FALSE
      BY <1>2, Zenon DEF TokenIsOwn
    <2>2. peer = Nothing
      BY <1>4, <2>1
    <2>3. e # Nothing /\ e.peer # Nothing
      BY <1>1, <1>5, <1>6, <1>8, <2>1, <2>2, Zenon DEF ReceiverInv, TokenValid
    <2> QED
      BY <1>4, <2>1, <2>2, <2>3
  <1>12. QueuesInv'
    <2>1. peer # Nothing => peer' = peer
      BY <1>4
    <2>2. /\ RequestFor(token, peer) \subseteq RequestFor(token, peer')
          /\ ReplyFor(token, peer) \subseteq ReplyFor(token, peer')
      BY <2>1, ForFoundPeer
    <2> QED
      BY <1>2, <1>3, <2>2 DEF QueuesInv
  <1>13. Entries' = Entries
    BY <1>2, Zenon DEF Entries
  <1>14. StoredInv' /\ RelabelInv'
    BY <1>1, <1>2, <1>13, Zenon DEF StoredInv, RelabelInv
  <1>15. LookupInv'
    BY <1>1, <1>2, <1>7, <1>8, Zenon DEF LookupInv
  <1>16. ReceiverInv'
    BY <1>2, <1>8, <1>10, <1>11, Zenon DEF ReceiverInv
  <1> QED
    BY <1>10, <1>12, <1>14, <1>15, <1>16 DEF Receiving

\* An answer is delivered to a patient user's page.
LEMMA DeliverPatient ==
    ASSUME Patient, TypeOK, TokenInv, CoinsInv, PatientInv, Deliver
    PROVE  PatientInv'
  <1> DEFINE r == Head(replies)
  <1>1. /\ fault = "none" /\ QueuesInv /\ RelabelInv /\ Receiving /\ ButtonInv /\ DialogInv
    BY Zenon DEF PatientInv, PatientMeetsNoFault, Receiving
  <1>2. replies # <<>>
    BY Zenon DEF Deliver, OnCoinsSelected, OnGetAddressReturned, OnRelabel,
                 OnSendMoneyVerified, OnAbandoned, Answer
  <1>3. dialog = Nothing
    BY <1>1, <1>2, Zenon DEF DialogInv
  <1>4. /\ requests \in Seq(RequestFor(token, peer)) /\ replies \in Seq(ReplyFor(token, peer))
        /\ r \in ReplyFor(token, peer) /\ r \in ReplyType
        /\ Tail(replies) \in Seq(ReplyFor(token, peer))
    BY <1>1, <1>2, TailOf, ForAnyToken DEF QueuesInv
  <1> HIDE DEF r
  <1>5. CASE OnSendMoneyVerified
    <2>1. NewPage(requests, Tail(replies)) /\ UNCHANGED <<chain, fault>>
      BY <1>5, Zenon DEF OnSendMoneyVerified
    <2> QED
      BY <1>1, <1>4, <2>1, NewPagePatient, Zenon DEF RelabelInv
  <1>6. CASE OnCoinsSelected
    <2> DEFINE e == [op |-> "select", sum |-> r.netto, asset |-> asset,
                     shielded |-> Offline(token, choiceOffline)]
    <2>1. /\ r.op = "selected" /\ replies' = Tail(replies)
          /\ UNCHANGED <<token, peer, identity, asset, dialog, book, sent, fault>>
      BY <1>6, Zenon DEF OnCoinsSelected, Answer, Received, chain, past, r
    <2>2. \/ /\ UNCHANGED <<sum, sel, requests, button>>
             /\ r.sum # sum \/ r.asset # asset
          \/ /\ sum' = r.netto /\ r.netto = 0
             /\ RefreshCsi(token, choiceOffline, 0, asset, requests)
             /\ button' = (button /\ r.netto # 0)
          \/ /\ sum' = r.netto /\ requests' = Append(requests, e)
             /\ button' = (button /\ r.netto # 0)
          \/ /\ sel' = r /\ UNCHANGED <<sum, requests>>
             /\ button' = CanSendWith(token, sum, r.enough)
      BY <1>6, Zenon DEF OnCoinsSelected, RefreshButton, r
    <2>3. r.netto \in Amounts
      BY <1>4, <2>1, FieldTypes
    <2>4. /\ e \in RequestFor(token, peer) /\ e.op = "select"
      BY <2>3, RequestTypes, ForAnyToken DEF TypeOK
    <2> HIDE DEF e
    <2>5. requests' = requests \/ requests' = Append(requests, e)
      <3>1. CASE RefreshCsi(token, choiceOffline, 0, asset, requests)
        BY <3>1 DEF RefreshCsi
      <3> QED
        BY <2>2, <3>1, Zenon
    <2>6. Receiving'
      <3>1. e.op \notin {"lookup", "relabel"} /\ Head(replies).op # "address"
        BY <2>1, <2>4 DEF r
      <3> QED
        BY <1>1, <1>2, <2>1, <2>4, <2>5, <3>1, QueueStep, Zenon
    <2>7. ButtonInv'
      <3>1. CASE /\ UNCHANGED <<sum, sel, requests, button>>
                 /\ r.sum # sum \/ r.asset # asset
        <4>1. SUFFICES ASSUME button
                       PROVE  /\ TokenValid(token) /\ sum > 0
                              /\ \/ ~None(requests, "select")
                                 \/ ~None(Tail(replies), "selected")
          BY <2>1, <3>1, Zenon DEF ButtonInv
        <4>2. TokenValid(token) /\ sum > 0
          BY <1>1, <4>1, Zenon DEF ButtonInv
        <4>3. Newest(requests, replies, sel, sum, asset, Offline(token, choiceOffline))
          BY <4>2 DEF CoinsInv
        <4>4. ~None(requests, "select") \/ ~None(Tail(replies), "selected")
          BY <1>2, <1>4, <2>1, <3>1, <4>3, NewestOfReplies DEF r
        <4> QED
          BY <4>2, <4>4
      <3>2. CASE r.netto = 0 /\ button' = (button /\ r.netto # 0)
        BY <3>2, Zenon DEF ButtonInv
      <3>3. CASE /\ sum' = r.netto /\ requests' = Append(requests, e)
                 /\ button' = (button /\ r.netto # 0)
        <4>1. ~None(requests', "select")
          BY <1>4, <2>4, <3>3, SameAppended
        <4>2. r.netto # 0 => sum' > 0
          BY <2>3, <3>3, Constants DEF Amounts
        <4>3. button' => r.netto # 0 /\ TokenValid(token)
          BY <1>1, <3>3, Zenon DEF ButtonInv
        <4> QED
          BY <2>1, <4>1, <4>2, <4>3, Zenon DEF ButtonInv
      <3>4. CASE /\ sel' = r /\ UNCHANGED <<sum, requests>>
                 /\ button' = CanSendWith(token, sum, r.enough)
        BY <2>1, <3>4, Zenon DEF ButtonInv, CanSendWith
      <3> QED
        BY <2>2, <3>1, <3>2, <3>3, <3>4, Zenon
    <2> QED
      BY <1>1, <1>3, <2>1, <2>6, <2>7, FromParts, Zenon
  <1>7. ASSUME NEW e \in RequestType, r.op # "selected", replies' = Tail(replies),
               UNCHANGED <<token, sum, sel, button>>,
               UNCHANGED requests \/ requests' = Append(requests, e)
        PROVE  ButtonInv'
    <2>1. None(requests', "select") => None(requests, "select")
      <3>1. requests \in Seq(RequestType)
        BY Zenon DEF TypeOK
      <3> QED
        BY <1>7, <3>1, AskAppended
    <2>2. None(Tail(replies), "selected") => None(replies, "selected")
      BY <1>2, <1>4, <1>7, TakenOff DEF r
    <2> QED
      BY <1>1, <1>7, <2>1, <2>2, Zenon DEF ButtonInv
  <1>8. [op |-> "start"] \in RequestType
    BY RequestTypes
  <1>9. CASE OnAbandoned
    <2>1. /\ r.op = "abandoned" /\ replies' = Tail(replies)
          /\ UNCHANGED <<token, peer, identity, sum, sel, button, book, dialog, requests,
                         sent, fault>>
      BY <1>9, Zenon DEF OnAbandoned, Answer, Received, form, page, chain, past, r
    <2>2. ButtonInv'
      BY <1>7, <1>8, <2>1
    <2>3. Receiving'
      BY <1>1, <1>2, <2>1, QueueStep DEF r
    <2> QED
      BY <1>1, <1>3, <2>1, <2>2, <2>3, FromParts, Zenon
  <1>10. CASE OnRelabel
    <2> DEFINE e == [op |-> "save", entry |-> r.entry]
    <2>1. /\ r.op = "entry" /\ replies' = Tail(replies)
          /\ UNCHANGED <<token, peer, identity, sum, sel, button, book, dialog, sent>>
          /\ r.entry # Nothing => requests' = Append(requests, e) /\ fault' = fault
      BY <1>10, Zenon DEF OnRelabel, Answer, Received, form, page, chain, r
    <2>2. /\ r.entry # Nothing /\ Stored(r.entry) /\ r.entry \in Address
          /\ token \in Tokens => peer # Nothing
      BY <1>4, <2>1, FieldTypes DEF ReplyFor
    <2>3. e \in RequestType /\ e.op = "save" /\ e.entry = r.entry
      BY <2>2, RequestTypes
    <2> HIDE DEF e
    <2>4. e \in RequestFor(token, peer)
      BY <2>2, <2>3 DEF RequestFor
    <2>5. ButtonInv'
      BY <1>7, <2>1, <2>2, <2>3
    <2>6. Receiving'
      <3>1. e.op \notin {"lookup", "relabel"} /\ Head(replies).op # "address"
        BY <2>1, <2>3 DEF r
      <3> QED
        BY <1>1, <1>2, <2>1, <2>2, <2>4, <3>1, QueueStep
    <2> QED
      BY <1>1, <1>3, <2>1, <2>2, <2>5, <2>6, FromParts, Zenon
  <1>11. CASE OnGetAddressReturned
    <2>1. /\ r.op = "address" /\ replies' = Tail(replies)
          /\ UNCHANGED <<token, sum, sel, button, dialog, requests, sent>>
      BY <1>11, Zenon DEF OnGetAddressReturned, Answer, Received, page, r
    <2>2. ButtonInv'
      BY <1>7, <1>8, <2>1
    <2> QED
      BY <1>3, <1>11, <2>1, <2>2, FoundPatient, FromParts, Zenon
  <1> QED
    BY <1>5, <1>6, <1>9, <1>10, <1>11, Zenon DEF Deliver

\* The wallet thread's answers are of the kind a patient user's page expects.
LEMMA AnswerFits ==
    ASSUME TypeOK, Receiving, requests # <<>>, NEW e \in ReplyType,
           AnswerTo(Head(requests), e)
    PROVE  /\ e \in ReplyFor(token, peer)
           /\ e.op = "address" => Head(requests).op = "lookup"
           /\ e.op = "selected" => Head(requests).op = "select"
           /\ Head(requests).op = "select" => e.op = "selected"
  <1> DEFINE q == Head(requests)
  <1>1. StoredInv /\ RelabelInv /\ q \in RequestFor(token, peer)
    BY TailOf DEF Receiving, QueuesInv
  <1>2. \A x \in Entries : Stored(x) /\ x # Nothing
    BY <1>1, EntriesType DEF StoredInv
  <1>3. q.op = "relabel" => \E x \in Entries : x.peer = q.peer
    BY <1>1, Zenon DEF RelabelInv
  <1> HIDE DEF q
  <1>4. AnswerTo(q, e)
    BY DEF q
  <1>5. CASE q.op = "lookup"
    <2>1. e.op = "address" /\ e.token = token
      BY <1>1, <1>4, <1>5 DEF AnswerTo, RequestFor
    <2>2. e.entry \in OneOf({x \in Entries : FoundFor(token, x)})
      BY <1>1, <1>4, <1>5 DEF AnswerTo, RequestFor
    <2>3. e.entry # Nothing => e.entry \in Entries /\ FoundFor(token, e.entry)
      BY <2>2, Zenon DEF OneOf
    <2>4. e.entry # Nothing => Stored(e.entry) /\ FoundFor(token, e.entry)
      BY <1>2, <2>3
    <2> QED
      BY <1>5, <2>1, <2>4 DEF ReplyFor, q
  <1>6. CASE q.op = "relabel"
    <2>1. e.op = "entry" /\ e.entry \in OneOf({x \in Entries : x.peer = q.peer})
      BY <1>4, <1>6 DEF AnswerTo
    <2>2. e.entry \in Entries
      BY <1>3, <1>6, <2>1 DEF OneOf
    <2>3. e.entry # Nothing /\ Stored(e.entry)
      BY <1>2, <2>2
    <2>4. token \in Tokens => peer # Nothing
      BY <1>1, <1>6 DEF RequestFor
    <2> QED
      BY <1>6, <2>1, <2>3, <2>4 DEF ReplyFor, q
  <1>7. CASE q.op \notin {"lookup", "relabel"}
    <2>1. e.op \notin {"address", "entry"} /\ (e.op = "selected" <=> q.op = "select")
      BY <1>4, <1>7 DEF AnswerTo
    <2> QED
      BY <1>7, <2>1, ForAnyToken DEF q
  <1> QED
    BY <1>5, <1>6, <1>7

\* What is in the book after a patient user's request was there before, or is
\* what the request stores.
LEMMA BookAfterPatient ==
    ASSUME TypeOK, Receiving, NEW q \in RequestFor(token, peer), book' = BookAfter(q)
    PROVE  /\ StoredInv'
           /\ token \in Tokens /\ book'[token] # Nothing /\ book'[token].own
                 => peer # Nothing \/ book'[token] = book[token]
  <1>1. StoredInv /\ book \in [Tokens -> Address \cup {Nothing}]
    BY Zenon DEF Receiving, TypeOK
  <1>2. q \in RequestType
    BY ForAnyToken
  <1>3. CASE q.op = "save"
    <2> DEFINE e == q.entry
    <2>1. /\ e \in Address /\ e.token \in Tokens /\ Stored(e)
          /\ e.own /\ token \in Tokens => peer # Nothing
      BY <1>2, <1>3, FieldTypes, AddressType DEF RequestFor
    <2> HIDE DEF e
    <2>2. book' = [book EXCEPT ![e.token] = e]
      BY <1>3, Zenon DEF BookAfter, e
    <2>3. \A t \in Tokens : book'[t] = IF t = e.token THEN e ELSE book[t]
      BY <1>1, <2>1, <2>2
    <2>4. StoredInv'
      <3>1. SUFFICES ASSUME NEW t \in Tokens, book'[t] # Nothing
                     PROVE  Stored(book'[t])
        BY Zenon DEF StoredInv, Entries
      <3>2. CASE t = e.token
        BY <2>1, <2>3, <3>2
      <3>3. CASE t # e.token
        <4>1. book'[t] = book[t] /\ book[t] \in Entries
          BY <2>3, <3>1, <3>3, EntriesType
        <4> QED
          BY <1>1, <4>1 DEF StoredInv
      <3> QED
        BY <3>2, <3>3
    <2> QED
      BY <2>1, <2>3, <2>4
  <1>4. CASE q.op = "delete"
    <2>1. q.token \in Tokens /\ book' = [book EXCEPT ![q.token] = Nothing]
      BY <1>2, <1>4, FieldTypes DEF BookAfter
    <2>2. \A t \in Tokens : book'[t] = IF t = q.token THEN Nothing ELSE book[t]
      BY <1>1, <2>1
    <2>3. StoredInv'
      <3>1. SUFFICES ASSUME NEW t \in Tokens, book'[t] # Nothing
                     PROVE  Stored(book'[t])
        BY Zenon DEF StoredInv, Entries
      <3>2. book'[t] = book[t] /\ book[t] \in Entries
        BY <2>2, <3>1, EntriesType
      <3> QED
        BY <1>1, <3>2 DEF StoredInv
    <2> QED
      BY <2>2, <2>3
  <1>5. CASE q.op \notin {"save", "delete"}
    <2>1. book' = book
      BY <1>5 DEF BookAfter
    <2> QED
      BY <1>1, <2>1, Zenon DEF StoredInv, Entries
  <1> QED
    BY <1>3, <1>4, <1>5

\* The wallet thread serves a patient user's page.
LEMMA ServePatient ==
    ASSUME Patient, TypeOK, PatientInv, Serve
    PROVE  PatientInv'
  <1> DEFINE q == Head(requests)
  <1>1. /\ fault = "none" /\ Receiving /\ ButtonInv /\ DialogInv
        /\ QueuesInv /\ StoredInv /\ LookupInv /\ RelabelInv /\ ReceiverInv
    BY Zenon DEF PatientInv, PatientMeetsNoFault, Receiving
  <1>2. /\ requests # <<>> /\ requests' = Tail(requests)
        /\ UNCHANGED <<token, peer, identity, sum, sel, button, dialog, sent, fault>>
        /\ book' = BookAfter(q)
        /\ \/ replies' = replies /\ q.op \in {"save", "delete"}
           \/ \E e \in ReplyType : replies' = Append(replies, e) /\ AnswerTo(q, e)
    BY ServeStep, Zenon DEF form, page, past
  <1>3. dialog = Nothing
    BY <1>1, <1>2, Zenon DEF DialogInv
  <1>4. /\ requests \in Seq(RequestFor(token, peer)) /\ replies \in Seq(ReplyFor(token, peer))
        /\ q \in RequestFor(token, peer) /\ requests' \in Seq(RequestFor(token, peer))
    BY <1>1, <1>2, TailOf DEF QueuesInv
  <1>5. \A e \in ReplyType : AnswerTo(q, e) =>
           /\ e \in ReplyFor(token, peer)
           /\ e.op = "address" => q.op = "lookup"
           /\ e.op = "selected" => q.op = "select"
           /\ q.op = "select" => e.op = "selected"
    BY <1>1, <1>2, AnswerFits
  <1>6. /\ None(requests', "lookup") /\ Front(requests', "lookup")
        /\ None(requests', "relabel") /\ Front(requests', "relabel")
        /\ ~None(requests, "lookup") => q.op = "lookup"
        /\ q.op = "lookup" => ~None(requests, "lookup")
    BY <1>1, <1>2, <1>4, FrontTaken, TakenOff DEF LookupInv, RelabelInv
  <1> HIDE DEF q
  <1>7. replies' \in Seq(ReplyFor(token, peer))
    BY <1>2, <1>4, <1>5, AppendTo
  <1>8. QueuesInv'
    BY <1>2, <1>4, <1>7 DEF QueuesInv
  <1>9. /\ StoredInv'
        /\ token \in Tokens /\ book'[token] # Nothing /\ book'[token].own
              => peer # Nothing \/ book'[token] = book[token]
    BY <1>1, <1>2, <1>4, BookAfterPatient
  <1>10. q.op = "lookup" => replies = <<>>
    BY <1>1, <1>6, Zenon DEF LookupInv
  <1>11. LookupInv'
    <2>1. Front(replies', "address")
      <3>1. CASE replies' = replies
        BY <1>1, <3>1, Zenon DEF LookupInv
      <3>2. ASSUME NEW e \in ReplyType, replies' = Append(replies, e), AnswerTo(q, e)
            PROVE  Front(replies', "address")
        <4>1. e \in ReplyFor(token, peer) /\ (e.op = "address" => replies = <<>>)
          BY <1>5, <1>10, <3>2
        <4>2. Front(replies, "address")
          BY <1>1, Zenon DEF LookupInv
        <4> QED
          BY <1>4, <3>2, <4>1, <4>2, FrontAppended
      <3> QED
        BY <1>2, <3>1, <3>2
    <2> QED
      BY <1>6, <2>1, Zenon DEF LookupInv
  <1>12. RelabelInv'
    <2>1. requests' # <<>> => Head(requests').op # "relabel"
      BY <1>4, <1>6, TakenOff
    <2> QED
      BY <1>6, <2>1, Zenon DEF RelabelInv
  <1>13. LookedUp(requests, replies) => LookedUp(requests', replies')
    <2>1. SUFFICES ASSUME None(requests, "lookup"), None(replies, "address")
                   PROVE  None(replies', "address")
      BY <1>6, Zenon DEF LookedUp
    <2>2. q.op # "lookup"
      BY <1>6, <2>1
    <2>3. ASSUME NEW e \in ReplyType, replies' = Append(replies, e), AnswerTo(q, e)
          PROVE  None(replies', "address")
      <3>1. e \in ReplyFor(token, peer) /\ e.op # "address"
        BY <1>5, <2>2, <2>3
      <3> QED
        BY <1>4, <2>1, <2>3, <3>1, AskAppended
    <2> QED
      BY <1>2, <2>1, <2>3
  <1>14. ASSUME token \in Tokens, TokenIsOwn', peer = Nothing
         PROVE  PeerIsComing'
    <2>1. book[token] # Nothing /\ book[token].own
      BY <1>2, <1>9, <1>14, Zenon DEF TokenIsOwn
    <2>2. CASE q.op = "lookup"
      <3>1. PICK e \in ReplyType : replies' = Append(replies, e) /\ AnswerTo(q, e)
        BY <1>2, <2>2
      <3>2. replies' # <<>> /\ Head(replies') = e /\ e.op = "address"
        <4>1. e \in ReplyFor(token, peer)
          BY <1>5, <3>1
        <4> QED
          BY <1>4, <1>10, <2>2, <3>1, <4>1, HeadAppended DEF AnswerTo
      <3>3. token \in OfflineOnly
        <4>1. peer = PeerOf(token)
          BY <1>1, <1>6, <1>14, <2>2, Zenon DEF ReceiverInv, TokenValid, LookedUp
        <4> QED
          BY <1>14, <4>1, Constants DEF PeerOf
      <3>4. e.entry \in OneOf({x \in Entries : x.token = token})
        <4>1. q.token = token
          BY <1>4, <2>2 DEF RequestFor
        <4> QED
          BY <2>2, <3>1, <3>3, <4>1 DEF AnswerTo, FoundFor
      <3>5. book[token] \in Entries /\ book[token].token = token
        BY <1>14, <2>1, EntriesType, Zenon DEF TypeOK
      <3>6. e.entry = book[token]
        <4>1. e.entry \in {x \in Entries : x.token = token}
          BY <3>4, <3>5 DEF OneOf
        <4> QED
          BY <4>1, EntriesType
      <3>7. e.entry # Nothing /\ e.entry.peer # Nothing
        BY <1>1, <2>1, <3>5, <3>6 DEF StoredInv, Stored
      <3> QED
        BY <3>2, <3>7, Zenon DEF PeerIsComing
    <2>3. CASE q.op # "lookup"
      <3>1. None(requests, "lookup")
        BY <1>6, <2>3
      <3>2. PeerIsComing
        BY <1>1, <1>14, <2>1, <3>1, Zenon DEF ReceiverInv, TokenValid, TokenIsOwn
      <3>3. replies' # <<>> /\ Head(replies') = Head(replies)
        <4>1. replies # <<>>
          BY <3>2 DEF PeerIsComing
        <4>2. ASSUME NEW e \in ReplyType, replies' = Append(replies, e), AnswerTo(q, e)
              PROVE  replies' # <<>> /\ Head(replies') = Head(replies)
          <5>1. e \in ReplyFor(token, peer)
            BY <1>5, <4>2
          <5> QED
            BY <1>4, <4>1, <4>2, <5>1, HeadAppended
        <4> QED
          BY <1>2, <4>1, <4>2
      <3> QED
        BY <3>2, <3>3, Zenon DEF PeerIsComing
    <2> QED
      BY <2>2, <2>3
  <1>15. ReceiverInv'
    BY <1>1, <1>2, <1>13, <1>14, Zenon DEF ReceiverInv, TokenValid
  <1>16. Receiving'
    BY <1>8, <1>9, <1>11, <1>12, <1>15 DEF Receiving
  <1>17. None(requests', "select") /\ None(replies', "selected")
           => None(requests, "select") /\ None(replies, "selected")
    <2>1. SUFFICES ASSUME None(requests', "select"), None(replies', "selected")
                   PROVE  None(requests, "select") /\ None(replies, "selected")
      OBVIOUS
    <2>2. None(replies, "selected") /\ q.op # "select"
      <3>1. CASE replies' = replies /\ q.op \in {"save", "delete"}
        BY <2>1, <3>1
      <3>2. ASSUME NEW e \in ReplyType, replies' = Append(replies, e), AnswerTo(q, e)
            PROVE  None(replies, "selected") /\ q.op # "select"
        <4>1. e \in ReplyFor(token, peer)
          BY <1>5, <3>2
        <4>2. None(replies, "selected") /\ e.op # "selected"
          BY <1>4, <2>1, <3>2, <4>1, AskAppended
        <4> QED
          BY <1>5, <3>2, <4>2
      <3> QED
        BY <1>2, <3>1, <3>2
    <2> QED
      BY <1>2, <1>4, <2>1, <2>2, TakenOff DEF q
  <1>18. ButtonInv'
    BY <1>1, <1>2, <1>17, Zenon DEF ButtonInv
  <1> QED
    BY <1>1, <1>2, <1>3, <1>16, <1>18, FromParts, Zenon

\* Every step keeps the invariant of a patient user.
LEMMA StepPatient ==
    ASSUME IInv, PatientInv, [Next]_vars
    PROVE  PatientInv'
  <1>1. SUFFICES ASSUME Patient
                 PROVE  PatientInv'
    BY Zenon DEF PatientInv
  <1>2. TypeOK /\ TokenInv /\ CoinsInv
    BY DEF IInv
  <1>3. /\ fault = "none" /\ Receiving /\ ButtonInv /\ DialogInv /\ ConfirmedIsSent
        /\ QueuesInv /\ LookupInv /\ RelabelInv
    BY <1>1, Zenon DEF PatientInv, PatientMeetsNoFault, Receiving
  <1>4. /\ requests \in Seq(RequestFor(token, peer))
        /\ replies \in Seq(ReplyFor(token, peer))
    BY <1>3, Zenon DEF QueuesInv
  <1>5. CASE BalanceChange \/ UNCHANGED vars
    <2>1. UNCHANGED <<form, sel, page, line, book, past>>
      BY <1>5, Zenon DEF BalanceChange, BalanceChanges, vars, chain
    <2>2. UNCHANGED <<token, peer, identity, sum, asset, choiceOffline, sel, button,
                      dialog, requests, replies, book, sent, fault>>
      BY <2>1, Zenon DEF form, page, line, past
    <2>3. Receiving'
      BY <1>2, <1>3, <2>2, QueueStep
    <2>4. ButtonInv'
      BY <1>3, <2>2 DEF ButtonInv
    <2>5. DialogInv' /\ ConfirmedIsSent' /\ fault' = "none"
      BY <1>3, <2>2, Zenon DEF DialogInv, ConfirmedIsSent, CanSend, Shown
    <2> QED
      BY <2>3, <2>4, <2>5, Zenon DEF PatientInv, PatientMeetsNoFault
  <1>6. CASE Leave
    <2>1. NewPage(requests, replies) /\ UNCHANGED <<chain, fault>>
      BY <1>6, Zenon DEF Leave
    <2> QED
      BY <1>1, <1>3, <1>4, <2>1, NewPagePatient, Zenon DEF RelabelInv
  <1>7. ASSUME NEW t \in Tokens, LeaveAndDelete(t)
        PROVE  PatientInv'
    <2> DEFINE e == [op |-> "delete", token |-> t]
               rq == Append(requests, e)
    <2>1. NewPage(rq, replies) /\ UNCHANGED <<chain, fault>>
      BY <1>7, Zenon DEF LeaveAndDelete
    <2>2. e \in RequestType /\ e.op = "delete"
      BY RequestTypes
    <2> HIDE DEF e
    <2>3. e \in RequestFor(token, peer)
      BY <2>2, ForAnyToken
    <2>4. rq \in Seq(RequestFor(token, peer))
      BY <1>4, <2>3, AppendTo
    <2>5. Front(rq, "relabel")
      BY <1>3, <1>4, <2>2, <2>3, FrontAppended DEF RelabelInv
    <2>6. rq # <<>> /\ Head(rq).op = "relabel" => \E x \in Entries : x.peer = Head(rq).peer
      <3>1. CASE requests = <<>>
        BY <1>4, <2>2, <2>3, <3>1, HeadAppended
      <3>2. CASE requests # <<>>
        <4>1. Head(rq) = Head(requests)
          BY <1>4, <2>3, <3>2, HeadAppended
        <4> QED
          BY <1>3, <3>2, <4>1 DEF RelabelInv
      <3> QED
        BY <3>1, <3>2
    <2> HIDE DEF rq
    <2> QED
      BY <1>1, <1>4, <2>1, <2>4, <2>5, <2>6, NewPagePatient, Zenon
  <1>8. CASE User
    <2>1. CASE PressSend \/ CancelDialog \/ SendMoney
      BY <1>1, <1>2, <2>1, DialogPatient
    <2>2. CASE ~(PressSend \/ CancelDialog \/ SendMoney \/ Leave
                   \/ \E t \in Tokens : LeaveAndDelete(t))
      BY <1>1, <1>2, <1>8, <2>2, EditPatient, Zenon DEF User
    <2> QED
      BY <1>6, <1>7, <2>1, <2>2
  <1>9. CASE Deliver
    BY <1>1, <1>2, <1>9, DeliverPatient
  <1>10. CASE Serve
    BY <1>1, <1>2, <1>10, ServePatient
  <1> QED
    BY <1>5, <1>8, <1>9, <1>10, Zenon DEF Next

\* Nothing is under way when the page is first opened.
LEMMA InitPatient == Init => PatientInv
  <1> SUFFICES ASSUME Init
               PROVE  PatientInv
    OBVIOUS
  <1>1. /\ requests = <<>> /\ replies = <<>>
        /\ ~button /\ dialog = Nothing /\ sent = Nothing /\ fault = "none"
    BY Zenon DEF Init
  <1>2. ~TokenValid(token)
    BY Constants DEF Init, TokenValid
  <1>3. QueuesInv
    BY <1>1 DEF QueuesInv
  <1>4. \A op : None(requests, op) /\ Front(requests, op) /\ Front(replies, op)
    BY <1>1, EmptyHasNone
  <1>5. LookupInv /\ RelabelInv
    BY <1>1, <1>4, Zenon DEF LookupInv, RelabelInv
  <1>6. StoredInv
    <2>1. PICK known \in SUBSET Tokens :
             book = [t \in Tokens |-> IF t \in known THEN EntryOf(t) ELSE Nothing]
      BY DEF Init
    <2>2. SUFFICES ASSUME NEW t \in Tokens
                   PROVE  Stored(EntryOf(t))
      BY <2>1 DEF StoredInv, Entries
    <2>3. /\ EntryOf(t).token = t /\ EntryOf(t).endpoint = EndpointOf(t)
          /\ EntryOf(t).own <=> t \in Own
          /\ EntryOf(t).peer = IF t \in Own THEN WalletOf[t] ELSE PeerOf(t)
      BY EntryType
    <2>4. /\ WalletOf[t] # Nothing
          /\ t \in Own => EndpointOf(t) = WalletOf[t]
      BY Constants DEF EndpointOf
    <2>5. t \in OfflineOnly /\ t \notin Own => EntryOf(t).peer = Nothing
      BY <2>3 DEF PeerOf
    <2>6. Fits(t, EntryOf(t).peer, EntryOf(t).endpoint)
      BY <2>3 DEF Fits
    <2> QED
      BY <2>3, <2>4, <2>5, <2>6, Zenon DEF Stored
  <1>7. Receiving
    BY <1>2, <1>3, <1>5, <1>6, Zenon DEF Receiving, ReceiverInv
  <1> QED
    BY <1>1, <1>7, Zenon DEF PatientInv, PatientMeetsNoFault, ButtonInv, DialogInv,
                             ConfirmedIsSent

\* What the dialog showed a user who waits for pending answers is what is sent,
\* on coins selected for exactly that payment, and an own address is relabelled.
THEOREM ConfirmedTheorem == Spec => [](Patient => ConfirmedIsSent)
  <1>1. PatientInv => (Patient => ConfirmedIsSent)
    BY DEF PatientInv
  <1> QED
    BY <1>1, InitInv, StepInv, InitPatient, StepPatient, PTL DEF Spec

\* Whatever addresses are saved and deleted meanwhile, a user who waits for
\* pending answers trips none of the page's assertions, on the address, type
\* and endpoint of an entry, in sendMoney, or in the relabelling.
THEOREM NoFaultTheorem == Spec => [](Patient => PatientMeetsNoFault)
  <1>1. PatientInv => (Patient => PatientMeetsNoFault)
    BY DEF PatientInv
  <1> QED
    BY <1>1, InitInv, StepInv, InitPatient, StepPatient, PTL DEF Spec

\* The address book of such a user holds every address under the wallet of its
\* token.
THEOREM BookTheorem == Spec => [](Patient => BookFits)
  <1>1. PatientInv => (Patient => BookFits)
    BY DEF PatientInv, Receiving, StoredInv, Stored, BookFits
  <1> QED
    BY <1>1, InitInv, StepInv, InitPatient, StepPatient, PTL DEF Spec

=============================================================================
