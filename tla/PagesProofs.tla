---------------------------- MODULE PagesProofs -----------------------------
(***************************************************************************)
(* The pages and the keeper of a list, for all coins, transactions and     *)
(* assets and any number of events and answers under way:                  *)
(* UtxoPageShowsCoins, TxPagesMirrorWallet, AssetsListIsHeld and           *)
(* RequestedIsUnderWay. They share no state, only what ListModel does: each *)
(* is proved of its own specification.                                     *)
(***************************************************************************)
EXTENDS UtxoPage, TxPages, Assets, ListModelProofs

-----------------------------------------------------------------------------
(* The dialogs that list coins.                                            *)

CoinIds(list) == {list[i].id : i \in DOMAIN list}

UseOf(now) == {c \in Coins : now[c] \in CoinStatus}

CoinRow(c, s) == [id |-> c, status |-> s]

\* An event says something of a coin, be it that it is not among all coins.
OfCoin(e, c) ==
    \/ e.action = "Reset" /\ (e.shielded <=> c \in Shielded)
    \/ c \in CoinIds(e.of)

\* What an event says of a coin is how the coin is now.
TellsOfCoin(e, c, now) ==
    /\ c \in UseOf(now) => e.action # "Removed" /\ CoinRow(c, now[c]) \in ToSet(e.of)
    /\ c \notin UseOf(now) =>
           e.action = "Removed" \/ (e.action = "Reset" /\ c \notin CoinIds(e.of))

CoinEventType == [action: {"Reset", "Added", "Updated", "Removed"},
                  shielded: BOOLEAN, of: Seq(CoinItem)]

CoinEventShape(e) ==
    /\ DistinctIds(e.of)
    /\ e.action # "Reset" =>
           \E x \in CoinItem : e.of = <<x>> /\ (e.shielded <=> x.id \in Shielded)
    /\ e.action = "Reset" => \A c \in CoinIds(e.of) : e.shielded <=> c \in Shielded

CoinTypes ==
    /\ coinStatus \in [Coins -> CoinStatus \cup {"unborn", "spent"}]
    /\ coinCalls \in Nat
    /\ coinEvents \in Seq(CoinEventType)
    /\ coinPage \in CoinPage
    /\ coinRows \in Seq(CoinItem)

CoinShapes ==
    /\ \A i \in DOMAIN coinEvents : CoinEventShape(coinEvents[i])
    /\ DistinctIds(coinRows)
    /\ ~coinPage.open => coinRows = <<>>

\* The last event of a coin tells how it is.
LastTellsCoin(events, now) ==
    \A i \in DOMAIN events : \A c \in Coins :
        /\ OfCoin(events[i], c)
        /\ \A j \in DOMAIN events : j > i => ~OfCoin(events[j], c)
        => TellsOfCoin(events[i], c, now)

\* A coin comes in once, before anything else is said of it.
CoinAddedFirst(events, rows) ==
    \A i \in DOMAIN events : \A c \in CoinIds(events[i].of) :
        events[i].action = "Added" =>
            /\ c \notin CoinIds(rows)
            /\ \A j \in DOMAIN events : j < i => c \notin CoinIds(events[j].of)

UnbornUnheard(events, rows, now) ==
    \A c \in Coins : now[c] = "unborn" =>
        /\ c \notin CoinIds(rows)
        /\ \A j \in DOMAIN events : c \notin CoinIds(events[j].of)

\* The shielded coins follow the regular ones.
ShieldedFollow(events) ==
    \A i \in DOMAIN events :
        events[i].action = "Reset" /\ ~events[i].shielded =>
            \E j \in DOMAIN events : j > i /\ events[j].action = "Reset" /\ events[j].shielded

ShownIn(c, page, rows, now) ==
    /\ ~page.maxPrivacy =>
           \A s : CoinRow(c, s) \in ToSet(rows) <=> c \in UseOf(now) /\ s = now[c]
    /\ /\ page.maxPrivacy /\ c \in Shielded /\ CoinAsset[c] = page.asset
       /\ now[c] = "maturing"
       => CoinRow(c, "maturing") \in ToSet(rows)

\* A coin nothing more is said of is shown as it is.
SettledShown ==
    coinPage.open /\ coinCalls = 0 =>
        \A c \in Coins :
            (\A i \in DOMAIN coinEvents : ~OfCoin(coinEvents[i], c))
            => ShownIn(c, coinPage, coinRows, coinStatus)

CoinInv ==
    /\ CoinTypes
    /\ CoinShapes
    /\ LastTellsCoin(coinEvents, coinStatus)
    /\ CoinAddedFirst(coinEvents, coinRows)
    /\ UnbornUnheard(coinEvents, coinRows, coinStatus)
    /\ ShieldedFollow(coinEvents)
    /\ SettledShown

-----------------------------------------------------------------------------
\* The ids of a list are those of its rows.
LEMMA CoinIdsOf ==
    ASSUME NEW list \in Seq(CoinItem)
    PROVE  /\ \A c : c \in CoinIds(list) <=> \E r \in ToSet(list) : r.id = c
           /\ \A r \in ToSet(list) : r \in CoinItem /\ r.id \in CoinIds(list) /\ r.id \in Coins
                                     /\ r = CoinRow(r.id, r.status)
           /\ CoinIds(list) \subseteq Coins
  <1>1. ToSet(list) \subseteq CoinItem
    BY SeqFacts
  <1>2. \A r \in CoinItem : r.id \in Coins /\ r = CoinRow(r.id, r.status)
    BY DEF CoinItem, CoinRow
  <1>3. \A c : c \in CoinIds(list) <=> \E r \in ToSet(list) : r.id = c
    BY DEF CoinIds, ToSet
  <1> QED
    BY <1>1, <1>2, <1>3

\* Where ids are distinct, a coin has one row.
LEMMA OneCoinRow ==
    ASSUME NEW list \in Seq(CoinItem), DistinctIds(list), NEW r \in ToSet(list), NEW q \in ToSet(list),
           r.id = q.id
    PROVE  r = q
  BY SeqFacts DEF DistinctIds

LEMMA OneCoinItem ==
    ASSUME NEW x \in CoinItem
    PROVE  /\ <<x>> \in Seq(CoinItem) /\ ToSet(<<x>>) = {x} /\ CoinIds(<<x>>) = {x.id}
           /\ DistinctIds(<<x>>)
  BY DEF ToSet, CoinIds, DistinctIds

\* All coins of a kind, each once, as they are.
LEMMA AllCoinsOf ==
    ASSUME NEW kind \in SUBSET Coins, CoinTypes
    PROVE  /\ AllCoins(kind) \in Seq(CoinItem)
           /\ DistinctIds(AllCoins(kind))
           /\ \A r : r \in ToSet(AllCoins(kind)) <=>
                         \E c \in kind : c \in UseOf(coinStatus) /\ r = CoinRow(c, coinStatus[c])
           /\ \A c : c \in CoinIds(AllCoins(kind)) <=> c \in kind /\ c \in UseOf(coinStatus)
  <1> DEFINE S == kind \cap InUse
             N == Cardinality(S)
             q == SetToSeq(S)
             a == AllCoins(kind)
  <1>1. IsFiniteSet(S)
    BY UtxoPageAssumption, FS_Subset DEF InUse
  <1>2. /\ N \in Nat /\ q \in [1..N -> S]
        /\ \A i, j \in 1..N : i # j => q[i] # q[j]
        /\ \A x \in S : \E i \in 1..N : q[i] = x
    BY <1>1, SetToSeqOf
  <1>3. S = {c \in kind : c \in UseOf(coinStatus)}
    BY DEF InUse, UseOf
  <1>4. \A c \in S : c \in Coins /\ coinStatus[c] \in CoinStatus
    BY DEF InUse
  <1>5. a = [i \in DOMAIN q |-> [id |-> q[i], status |-> coinStatus[q[i]]]]
    BY DEF AllCoins
  <1> HIDE DEF S, N, q, a
  <1>6. DOMAIN q = 1..N
    BY <1>2
  <1>7. a = [i \in 1..N |-> CoinRow(q[i], coinStatus[q[i]])]
    BY <1>5, <1>6 DEF CoinRow
  <1>8. \A i \in 1..N : CoinRow(q[i], coinStatus[q[i]]) \in CoinItem
    BY <1>2, <1>4 DEF CoinRow, CoinItem
  <1>9. a \in Seq(CoinItem) /\ DOMAIN a = 1..N
    BY <1>2, <1>7, <1>8
  <1>10. \A i \in 1..N : a[i] = CoinRow(q[i], coinStatus[q[i]]) /\ a[i].id = q[i]
    BY <1>7 DEF CoinRow
  <1>11. DistinctIds(a)
    BY <1>2, <1>9, <1>10 DEF DistinctIds
  <1>12. \A r : r \in ToSet(a) <=> \E c \in S : r = CoinRow(c, coinStatus[c])
    BY <1>2, <1>9, <1>10 DEF ToSet
  <1>13. \A c : c \in CoinIds(a) <=> c \in S
    BY <1>2, <1>9, <1>10 DEF CoinIds
  <1> QED
    BY <1>3, <1>9, <1>11, <1>12, <1>13 DEF a

\* What is told of one coin, or kept from the dialog, changes no other row.
OneRowAfter(after, list, x, items, action) ==
    /\ after \in Seq(CoinItem) /\ DistinctIds(after)
    /\ \A r : r.id # x.id => (r \in ToSet(after) <=> r \in ToSet(list))
    /\ items = <<x>> /\ action # "Removed" =>
           \A r : r.id = x.id => (r \in ToSet(after) <=> r = x)
    /\ items = <<x>> /\ action = "Removed" =>
           \A r : r.id = x.id => r \notin ToSet(after)
    /\ \A r \in ToSet(after) : r \in ToSet(list) \/ r.id = x.id

LEMMA CoinListAfterOf ==
    ASSUME NEW list \in Seq(CoinItem), DistinctIds(list), NEW x \in CoinItem,
           NEW items \in {<<>>, <<x>>}, NEW action \in {"Added", "Updated", "Removed"},
           action = "Added" => x.id \notin CoinIds(list)
    PROVE  OneRowAfter(CoinListAfter(list, action, items), list, x, items, action)
  <1> DEFINE s == CoinListAfter(list, action, items)
  <1>1. /\ <<x>> \in Seq(CoinItem) /\ ToSet(<<x>>) = {x} /\ DistinctIds(<<x>>)
        /\ <<x>> # <<>>
    BY OneCoinItem
  <1>2. CASE items = <<>>
    <2>1. s = list
      <3>1. CASE action = "Added"
        <4>1. list \o <<>> = list
          OBVIOUS
        <4> QED
          BY <1>2, <3>1, <4>1 DEF CoinListAfter, ListInsert
      <3>2. CASE action = "Updated"
        BY <1>2, <3>2, ListUpdateOne DEF CoinListAfter
      <3>3. CASE action = "Removed"
        BY <1>2, <3>3, ListRemoveOne DEF CoinListAfter
      <3> QED
        BY <3>1, <3>2, <3>3
    <2> QED
      BY <1>1, <1>2, <2>1 DEF OneRowAfter
  <1>3. CASE items = <<x>>
    <2>0. /\ (\A r \in ToSet(list) : r.id # x.id) =>
                 /\ ListInsert(list, <<x>>) \in Seq(CoinItem)
                 /\ DistinctIds(ListInsert(list, <<x>>))
                 /\ ToSet(ListInsert(list, <<x>>)) = ToSet(list) \cup {x}
          /\ ListUpdate(list, <<x>>) \in Seq(CoinItem) /\ DistinctIds(ListUpdate(list, <<x>>))
          /\ ToSet(ListUpdate(list, <<x>>)) = {r \in ToSet(list) : r.id # x.id} \cup {x}
          /\ ListRemove(list, <<x>>) \in Seq(CoinItem) /\ DistinctIds(ListRemove(list, <<x>>))
          /\ ToSet(ListRemove(list, <<x>>)) = {r \in ToSet(list) : r.id # x.id}
      <3>1. OneRow(CoinItem, list, x)
        BY OneRowChanges
      <3> QED
        BY <3>1 DEF OneRow
    <2>1. CASE action = "Added"
      <3>1. s = ListInsert(list, <<x>>)
        BY <1>3, <2>1 DEF CoinListAfter
      <3>2. \A r \in ToSet(list) : r.id # x.id
        BY <2>1, CoinIdsOf
      <3> HIDE DEF s
      <3> QED
        BY <1>3, <2>0, <2>1, <3>1, <3>2 DEF s, OneRowAfter
    <2>2. CASE action = "Updated"
      <3>1. s = ListUpdate(list, <<x>>)
        BY <1>3, <2>2 DEF CoinListAfter
      <3> HIDE DEF s
      <3> QED
        BY <1>3, <2>0, <2>2, <3>1 DEF s, OneRowAfter
    <2>3. CASE action = "Removed"
      <3>1. s = ListRemove(list, <<x>>)
        BY <1>3, <2>3 DEF CoinListAfter
      <3> HIDE DEF s
      <3> QED
        BY <1>3, <2>0, <2>3, <3>1 DEF s, OneRowAfter
    <2> QED
      BY <2>1, <2>2, <2>3
  <1> QED
    BY <1>2, <1>3

-----------------------------------------------------------------------------
(* What is told is put at the end. *)

\* An event that tells how things are now becomes the last of its coins.
LEMMA LastTellsAppended ==
    ASSUME NEW q \in Seq(CoinEventType), NEW e \in CoinEventType, NEW now, NEW then,
           LastTellsCoin(q, now),
           \A c \in Coins : OfCoin(e, c) => TellsOfCoin(e, c, then),
           \A c \in Coins : ~OfCoin(e, c) => now[c] = then[c]
    PROVE  LastTellsCoin(Append(q, e), then)
  <1> DEFINE s == Append(q, e)
             n == Len(q) + 1
  <1>1. /\ n \in DOMAIN s /\ s[n] = e
        /\ \A i \in DOMAIN q : i \in DOMAIN s /\ s[i] = q[i] /\ i < n
        /\ \A i \in DOMAIN s : i \in DOMAIN q \/ i = n
    BY AppendPlaces
  <1> HIDE DEF s, n
  <1> SUFFICES ASSUME NEW i \in DOMAIN s, NEW c \in Coins, OfCoin(s[i], c),
                      \A j \in DOMAIN s : j > i => ~OfCoin(s[j], c)
               PROVE  TellsOfCoin(s[i], c, then)
    BY DEF LastTellsCoin, s
  <1>2. CASE i = n
    BY <1>1, <1>2
  <1>3. CASE i \in DOMAIN q
    <2>1. n > i /\ ~OfCoin(e, c)
      BY <1>1, <1>3
    <2>2. \A j \in DOMAIN q : j > i => ~OfCoin(q[j], c)
      BY <1>1
    <2>3. TellsOfCoin(q[i], c, now)
      BY <1>1, <1>3, <2>2 DEF LastTellsCoin
    <2>4. now[c] = then[c]
      BY <2>1
    <2> QED
      BY <1>1, <1>3, <2>3, <2>4 DEF TellsOfCoin, UseOf
  <1> QED
    BY <1>1, <1>2, <1>3

\* An event put at the end adds nothing twice and is of coins that are there.
LEMMA OrderAppended ==
    ASSUME NEW q \in Seq(CoinEventType), NEW e \in CoinEventType, NEW rows, NEW now, NEW then,
           CoinAddedFirst(q, rows), UnbornUnheard(q, rows, now),
           \A c \in CoinIds(e.of) : e.action = "Added" => c \in Coins /\ now[c] = "unborn",
           \A c \in Coins : then[c] = "unborn" => now[c] = "unborn" /\ c \notin CoinIds(e.of),
           \A i \in DOMAIN q : CoinEventShape(q[i]),
           CoinEventShape(e)
    PROVE  /\ CoinAddedFirst(Append(q, e), rows)
           /\ UnbornUnheard(Append(q, e), rows, then)
           /\ \A i \in DOMAIN Append(q, e) : CoinEventShape(Append(q, e)[i])
  <1> DEFINE s == Append(q, e)
             n == Len(q) + 1
  <1>1. /\ n \in DOMAIN s /\ s[n] = e
        /\ \A i \in DOMAIN q : i \in DOMAIN s /\ s[i] = q[i] /\ i < n
        /\ \A i \in DOMAIN s : i \in DOMAIN q \/ i = n
        /\ DOMAIN q \subseteq Nat /\ n \in Nat
    BY AppendPlaces
  <1> HIDE DEF s, n
  <1>2. CoinAddedFirst(s, rows)
    <2> SUFFICES ASSUME NEW i \in DOMAIN s, NEW c \in CoinIds(s[i].of), s[i].action = "Added"
                 PROVE  /\ c \notin CoinIds(rows)
                        /\ \A j \in DOMAIN s : j < i => c \notin CoinIds(s[j].of)
      BY DEF CoinAddedFirst
    <2>1. CASE i = n
      <3>1. c \in Coins /\ now[c] = "unborn"
        BY <1>1, <2>1
      <3>2. \A j \in DOMAIN s : j < n => j \in DOMAIN q
        BY <1>1
      <3> QED
        BY <1>1, <2>1, <3>1, <3>2 DEF UnbornUnheard
    <2>2. CASE i \in DOMAIN q
      <3>1. \A j \in DOMAIN s : j < i => j \in DOMAIN q
        BY <1>1, <2>2
      <3> QED
        BY <1>1, <2>2, <3>1 DEF CoinAddedFirst
    <2> QED
      BY <1>1, <2>1, <2>2
  <1>3. UnbornUnheard(s, rows, then)
    BY <1>1 DEF UnbornUnheard
  <1>4. \A i \in DOMAIN s : CoinEventShape(s[i])
    BY <1>1
  <1> QED
    BY <1>2, <1>3, <1>4 DEF s

-----------------------------------------------------------------------------
LEMMA CoinChangesKeeps ==
    ASSUME CoinInv, NEW c \in Coins, NEW st \in CoinStatus \cup {"spent"},
           CoinChanges(c, st)
    PROVE  CoinInv'
  <1> DEFINE told(a, s) == CoinEvent(a, c \in Shielded, <<CoinRow(c, s)>>)
  <1>1. PICK a \in {"Added", "Updated", "Removed"}, s \in CoinStatus :
            /\ coinEvents' = Append(coinEvents, told(a, s))
            /\ a # "Removed" => s = st
            /\ a = "Removed" <=> st = "spent"
            /\ a = "Added" => c \notin UseOf(coinStatus)
    <2>1. c \in InUse <=> coinStatus[c] \in CoinStatus
      BY DEF InUse
    <2> QED
      BY <2>1 DEF CoinChanges, TellsCoin, CoinRow, UseOf, CoinStatus
  <1> DEFINE e == told(a, s)
  <1>2. /\ e.action = a /\ e.shielded = (c \in Shielded) /\ e.of = <<CoinRow(c, s)>>
        /\ e \in CoinEventType /\ CoinRow(c, s) \in CoinItem
    <2>1. CoinRow(c, s) \in CoinItem
      BY DEF CoinRow, CoinItem
    <2>2. (c \in Shielded) \in BOOLEAN
      OBVIOUS
    <2> QED
      BY <2>1, <2>2 DEF CoinEvent, CoinEventType
  <1>3. /\ DistinctIds(e.of) /\ CoinIds(e.of) = {c} /\ ToSet(e.of) = {CoinRow(c, s)}
        /\ CoinRow(c, s).id = c
    BY <1>2, OneCoinItem DEF CoinRow
  <1>4. CoinEventShape(e)
    BY <1>1, <1>2, <1>3 DEF CoinEventShape
  <1>5. \A d \in Coins : OfCoin(e, d) <=> d = c
    BY <1>1, <1>2, <1>3 DEF OfCoin
  <1>6. /\ coinStatus' = [coinStatus EXCEPT ![c] = st]
        /\ UNCHANGED <<coinCalls, coinPage, coinRows>>
        /\ coinStatus[c] # "spent"
    BY DEF CoinChanges
  <1>7. /\ coinStatus'[c] = st
        /\ \A d \in Coins : d # c => coinStatus'[d] = coinStatus[d]
    BY <1>6 DEF CoinInv, CoinTypes
  <1>8. TellsOfCoin(e, c, coinStatus')
    BY <1>1, <1>2, <1>3, <1>7 DEF TellsOfCoin, UseOf, CoinStatus
  <1>9. coinEvents' = Append(coinEvents, e) /\ coinEvents \in Seq(CoinEventType)
    BY <1>1 DEF CoinInv, CoinTypes
  <1>10. a = "Added" => coinStatus[c] = "unborn"
    BY <1>1, <1>6 DEF UseOf, CoinInv, CoinTypes
  <1> HIDE DEF e
  <1>11. CoinTypes'
    <2>1. coinEvents' \in Seq(CoinEventType)
      BY <1>2, <1>9
    <2> QED
      BY <1>6, <2>1 DEF CoinTypes, CoinInv
  <1>12. LastTellsCoin(coinEvents', coinStatus')
    BY <1>2, <1>5, <1>7, <1>8, <1>9, LastTellsAppended DEF CoinInv
  <1>13. \A d \in Coins : coinStatus'[d] = "unborn" =>
             coinStatus[d] = "unborn" /\ d \notin CoinIds(e.of)
    BY <1>3, <1>7 DEF CoinStatus
  <1>14. /\ CoinAddedFirst(coinEvents', coinRows)
         /\ UnbornUnheard(coinEvents', coinRows, coinStatus')
         /\ \A i \in DOMAIN coinEvents' : CoinEventShape(coinEvents'[i])
    <2>1. \A d \in CoinIds(e.of) : e.action = "Added" => d \in Coins /\ coinStatus[d] = "unborn"
      BY <1>2, <1>3, <1>10
    <2>2. /\ CoinAddedFirst(coinEvents, coinRows)
          /\ UnbornUnheard(coinEvents, coinRows, coinStatus)
          /\ \A i \in DOMAIN coinEvents : CoinEventShape(coinEvents[i])
      BY DEF CoinInv, CoinShapes
    <2>3. e \in CoinEventType /\ coinEvents \in Seq(CoinEventType)
      BY <1>2, <1>9
    <2>4. /\ CoinAddedFirst(Append(coinEvents, e), coinRows)
          /\ UnbornUnheard(Append(coinEvents, e), coinRows, coinStatus')
          /\ \A i \in DOMAIN Append(coinEvents, e) : CoinEventShape(Append(coinEvents, e)[i])
      BY <1>4, <1>13, <2>1, <2>2, <2>3, OrderAppended
    <2> QED
      BY <1>9, <2>4
  <1>15. /\ Len(coinEvents) + 1 \in DOMAIN coinEvents' /\ coinEvents'[Len(coinEvents) + 1] = e
         /\ \A i \in DOMAIN coinEvents : i \in DOMAIN coinEvents' /\ coinEvents'[i] = coinEvents[i]
         /\ \A i \in DOMAIN coinEvents' : i \in DOMAIN coinEvents \/ i = Len(coinEvents) + 1
    BY <1>2, <1>9, AppendPlaces
  <1>16. ShieldedFollow(coinEvents')
    BY <1>1, <1>2, <1>15 DEF ShieldedFollow, CoinInv
  <1>17. SettledShown'
    <2> SUFFICES ASSUME coinPage.open, coinCalls = 0, NEW d \in Coins,
                        \A i \in DOMAIN coinEvents' : ~OfCoin(coinEvents'[i], d)
                 PROVE  ShownIn(d, coinPage, coinRows, coinStatus')
      BY <1>6 DEF SettledShown
    <2>1. d # c
      BY <1>5, <1>15
    <2>2. ShownIn(d, coinPage, coinRows, coinStatus)
      BY <1>15 DEF CoinInv, SettledShown
    <2> QED
      BY <1>7, <2>1, <2>2 DEF ShownIn, UseOf
  <1>18. CoinShapes'
    BY <1>6, <1>14 DEF CoinShapes, CoinInv
  <1> QED
    BY <1>6, <1>11, <1>12, <1>14, <1>16, <1>17, <1>18 DEF CoinInv

LEMMA RunGetAllUtxosKeeps ==
    ASSUME CoinInv, RunGetAllUtxos
    PROVE  CoinInv'
  <1> DEFINE regular == CoinEvent("Reset", FALSE, AllCoins(Coins \ Shielded))
             shielded == CoinEvent("Reset", TRUE, AllCoins(Shielded))
             q == Append(coinEvents, regular)
             now == coinStatus
  <1>0. CoinTypes
    BY DEF CoinInv
  <1>1. Shielded \subseteq Coins
    BY UtxoPageAssumption
  <1>2. /\ AllCoins(Coins \ Shielded) \in Seq(CoinItem)
        /\ DistinctIds(AllCoins(Coins \ Shielded))
        /\ \A r : r \in ToSet(AllCoins(Coins \ Shielded)) <=>
               \E c \in Coins \ Shielded : c \in UseOf(now) /\ r = CoinRow(c, now[c])
        /\ \A c : c \in CoinIds(AllCoins(Coins \ Shielded)) <=>
               c \in Coins \ Shielded /\ c \in UseOf(now)
    BY <1>0, AllCoinsOf
  <1>3. /\ AllCoins(Shielded) \in Seq(CoinItem)
        /\ DistinctIds(AllCoins(Shielded))
        /\ \A r : r \in ToSet(AllCoins(Shielded)) <=>
               \E c \in Shielded : c \in UseOf(now) /\ r = CoinRow(c, now[c])
        /\ \A c : c \in CoinIds(AllCoins(Shielded)) <=> c \in Shielded /\ c \in UseOf(now)
    BY <1>0, <1>1, AllCoinsOf
  <1>4. /\ regular.action = "Reset" /\ regular.shielded = FALSE
        /\ regular.of = AllCoins(Coins \ Shielded) /\ regular \in CoinEventType
        /\ shielded.action = "Reset" /\ shielded.shielded = TRUE
        /\ shielded.of = AllCoins(Shielded) /\ shielded \in CoinEventType
    BY <1>2, <1>3 DEF CoinEvent, CoinEventType
  <1>5. coinEvents \in Seq(CoinEventType) /\ q \in Seq(CoinEventType)
    <2>1. coinEvents \in Seq(CoinEventType)
      BY <1>0 DEF CoinTypes
    <2> HIDE DEF regular
    <2> QED
      BY <1>4, <2>1
  <1>6. coinEvents' = Append(q, shielded)
    <2> HIDE DEF regular, shielded
    <2>1. coinEvents \o <<regular, shielded>> = Append(Append(coinEvents, regular), shielded)
      BY <1>4, <1>5
    <2> QED
      BY <2>1 DEF RunGetAllUtxos, regular, shielded
  <1> HIDE DEF regular, shielded
  <1>7. CoinEventShape(regular) /\ CoinEventShape(shielded)
    BY <1>2, <1>3, <1>4 DEF CoinEventShape
  <1>8. \A c \in Coins : /\ OfCoin(regular, c) <=> c \notin Shielded
                         /\ OfCoin(shielded, c) <=> c \in Shielded
    BY <1>2, <1>3, <1>4 DEF OfCoin
  <1>9. \A c \in Coins : /\ c \notin Shielded => TellsOfCoin(regular, c, now)
                         /\ c \in Shielded => TellsOfCoin(shielded, c, now)
    BY <1>2, <1>3, <1>4 DEF TellsOfCoin
  <1>10. LastTellsCoin(q, now)
    BY <1>4, <1>5, <1>8, <1>9, LastTellsAppended DEF CoinInv
  <1>11. LastTellsCoin(coinEvents', now)
    <2> HIDE DEF q
    <2> QED
      BY <1>4, <1>5, <1>6, <1>8, <1>9, <1>10, LastTellsAppended
  <1>12. \A c \in Coins : now[c] = "unborn" =>
             c \notin CoinIds(regular.of) /\ c \notin CoinIds(shielded.of)
    BY <1>2, <1>3, <1>4 DEF UseOf, CoinStatus
  <1>13. /\ CoinAddedFirst(q, coinRows) /\ UnbornUnheard(q, coinRows, now)
         /\ \A i \in DOMAIN q : CoinEventShape(q[i])
    BY <1>4, <1>5, <1>7, <1>12, OrderAppended DEF CoinInv, CoinShapes
  <1>14. /\ CoinAddedFirst(coinEvents', coinRows) /\ UnbornUnheard(coinEvents', coinRows, now)
         /\ \A i \in DOMAIN coinEvents' : CoinEventShape(coinEvents'[i])
    <2> HIDE DEF q
    <2> QED
      BY <1>4, <1>5, <1>6, <1>7, <1>12, <1>13, OrderAppended
  <1>15. /\ Len(coinEvents) + 1 \in DOMAIN q /\ q[Len(coinEvents) + 1] = regular
         /\ \A i \in DOMAIN coinEvents : i \in DOMAIN q /\ q[i] = coinEvents[i]
         /\ \A i \in DOMAIN q : i \in DOMAIN coinEvents \/ i = Len(coinEvents) + 1
    BY <1>4, <1>5, AppendPlaces
  <1>16. /\ Len(q) + 1 \in DOMAIN coinEvents' /\ coinEvents'[Len(q) + 1] = shielded
         /\ \A i \in DOMAIN q : i \in DOMAIN coinEvents' /\ coinEvents'[i] = q[i] /\ i < Len(q) + 1
         /\ \A i \in DOMAIN coinEvents' : i \in DOMAIN q \/ i = Len(q) + 1
    <2> HIDE DEF q
    <2> QED
      BY <1>4, <1>5, <1>6, AppendPlaces
  <1> HIDE DEF q
  <1>17. ShieldedFollow(coinEvents')
    <2> SUFFICES ASSUME NEW i \in DOMAIN coinEvents',
                        coinEvents'[i].action = "Reset", ~coinEvents'[i].shielded
                 PROVE  \E j \in DOMAIN coinEvents' :
                            j > i /\ coinEvents'[j].action = "Reset" /\ coinEvents'[j].shielded
      BY DEF ShieldedFollow
    <2>1. i # Len(q) + 1
      BY <1>4, <1>16
    <2>2. i < Len(q) + 1
      BY <1>16, <2>1
    <2> QED
      BY <1>4, <1>16, <2>2
  <1>18. \A c \in Coins : \E i \in DOMAIN coinEvents' : OfCoin(coinEvents'[i], c)
    BY <1>8, <1>15, <1>16
  <1>19. UNCHANGED <<coinStatus, coinPage, coinRows>> /\ coinCalls' \in Nat
    BY <1>0 DEF RunGetAllUtxos, CoinTypes
  <1>20. coinEvents' \in Seq(CoinEventType)
    BY <1>4, <1>5, <1>6
  <1>21. CoinTypes'
    BY <1>0, <1>19, <1>20 DEF CoinTypes
  <1>22. CoinShapes'
    BY <1>14, <1>19 DEF CoinShapes, CoinInv
  <1>23. SettledShown'
    BY <1>18 DEF SettledShown
  <1> QED
    BY <1>11, <1>14, <1>17, <1>19, <1>21, <1>22, <1>23 DEF CoinInv

-----------------------------------------------------------------------------
(* What is told is taken from the front. *)

\* What an event makes of the rows of an open dialog.
RowsFollow(rows, after, e, page) ==
    /\ after \in Seq(CoinItem) /\ DistinctIds(after)
    /\ CoinIds(after) \subseteq CoinIds(rows) \cup CoinIds(e.of)
    /\ \A c \in Coins : ~OfCoin(e, c) /\ (e.action = "Reset" => e.shielded) =>
           \A s : CoinRow(c, s) \in ToSet(after) <=> CoinRow(c, s) \in ToSet(rows)
    /\ \A c \in Coins : OfCoin(e, c) /\ ~page.maxPrivacy =>
           \A s : CoinRow(c, s) \in ToSet(after) <=>
                      e.action # "Removed" /\ CoinRow(c, s) \in ToSet(e.of)
    /\ \A c \in Shielded :
           /\ OfCoin(e, c) /\ page.maxPrivacy /\ CoinAsset[c] = page.asset
           /\ e.action # "Removed" /\ CoinRow(c, "maturing") \in ToSet(e.of)
           => CoinRow(c, "maturing") \in ToSet(after)

\* Rows that follow show every coin nothing more is said of.
LEMMA SettledFollows ==
    ASSUME CoinInv, coinEvents # <<>>, coinEvents' = Tail(coinEvents),
           UNCHANGED <<coinStatus, coinCalls, coinPage>>,
           coinPage.open,
           \/ RowsFollow(coinRows, coinRows', Head(coinEvents), coinPage)
           \/ /\ coinRows' = coinRows /\ coinPage.maxPrivacy
              /\ \A c \in Shielded : ~OfCoin(Head(coinEvents), c)
    PROVE  SettledShown'
  <1> DEFINE e == Head(coinEvents)
  <1>1. /\ e = coinEvents[1] /\ 1 \in DOMAIN coinEvents /\ e \in CoinEventType
        /\ DOMAIN coinEvents \subseteq Nat
        /\ \A i \in DOMAIN coinEvents : i # 1 =>
               i - 1 \in DOMAIN coinEvents' /\ coinEvents'[i - 1] = coinEvents[i]
    <2>1. coinEvents \in Seq(CoinEventType)
      BY DEF CoinInv, CoinTypes
    <2> QED
      BY <2>1, TailPlaces
  <1> HIDE DEF e
  <1> SUFFICES ASSUME coinCalls = 0, NEW c \in Coins,
                      \A i \in DOMAIN coinEvents' : ~OfCoin(coinEvents'[i], c)
               PROVE  ShownIn(c, coinPage, coinRows', coinStatus)
    BY DEF SettledShown
  <1>2. \A i \in DOMAIN coinEvents : i # 1 => ~OfCoin(coinEvents[i], c)
    BY <1>1
  <1>3. CASE OfCoin(e, c)
    <2>1. TellsOfCoin(e, c, coinStatus)
      BY <1>1, <1>2, <1>3 DEF CoinInv, LastTellsCoin
    <2>2. CASE coinRows' = coinRows /\ coinPage.maxPrivacy
               /\ \A d \in Shielded : ~OfCoin(e, d)
      BY <1>3, <2>2 DEF ShownIn
    <2>3. CASE RowsFollow(coinRows, coinRows', e, coinPage)
      <3>1. CoinEventShape(e) /\ e.of \in Seq(CoinItem)
        BY <1>1 DEF CoinInv, CoinShapes, CoinEventType
      <3>2. \A s : CoinRow(c, s) \in ToSet(e.of) => c \in CoinIds(e.of)
        BY <3>1, CoinIdsOf DEF CoinRow
      <3>3. \A r, q \in ToSet(e.of) : r.id = q.id => r = q
        BY <3>1, OneCoinRow DEF CoinEventShape
      <3>4. \A s : CoinRow(c, s).id = c /\ CoinRow(c, s).status = s
        BY DEF CoinRow
      <3>5. ~coinPage.maxPrivacy =>
                \A s : CoinRow(c, s) \in ToSet(coinRows') <=> c \in UseOf(coinStatus) /\ s = coinStatus[c]
        <4> SUFFICES ASSUME ~coinPage.maxPrivacy, NEW s
                     PROVE  CoinRow(c, s) \in ToSet(coinRows') <=>
                                c \in UseOf(coinStatus) /\ s = coinStatus[c]
          OBVIOUS
        <4>1. CoinRow(c, s) \in ToSet(coinRows') <=>
                  e.action # "Removed" /\ CoinRow(c, s) \in ToSet(e.of)
          BY <1>3, <2>3 DEF RowsFollow
        <4>2. CASE c \in UseOf(coinStatus)
          <5>1. e.action # "Removed" /\ CoinRow(c, coinStatus[c]) \in ToSet(e.of)
            BY <2>1, <4>2 DEF TellsOfCoin
          <5>2. CoinRow(c, s) \in ToSet(e.of) => s = coinStatus[c]
            BY <3>3, <3>4, <5>1
          <5> QED
            BY <4>1, <4>2, <5>1, <5>2
        <4>3. CASE c \notin UseOf(coinStatus)
          <5>1. e.action = "Removed" \/ c \notin CoinIds(e.of)
            BY <2>1, <4>3 DEF TellsOfCoin
          <5> QED
            BY <3>2, <4>1, <4>3, <5>1
        <4> QED
          BY <4>2, <4>3
      <3>6. /\ coinPage.maxPrivacy /\ c \in Shielded /\ CoinAsset[c] = coinPage.asset
            /\ coinStatus[c] = "maturing"
            => CoinRow(c, "maturing") \in ToSet(coinRows')
        <4> SUFFICES ASSUME coinPage.maxPrivacy, c \in Shielded, CoinAsset[c] = coinPage.asset,
                            coinStatus[c] = "maturing"
                     PROVE  CoinRow(c, "maturing") \in ToSet(coinRows')
          OBVIOUS
        <4>1. c \in UseOf(coinStatus)
          BY DEF UseOf, CoinStatus
        <4>2. e.action # "Removed" /\ CoinRow(c, "maturing") \in ToSet(e.of)
          BY <2>1, <4>1 DEF TellsOfCoin
        <4> QED
          BY <1>3, <2>3, <4>2 DEF RowsFollow
      <3> QED
        BY <3>5, <3>6 DEF ShownIn
    <2> QED
      BY <2>2, <2>3 DEF e
  <1>4. CASE ~OfCoin(e, c)
    <2>1. \A i \in DOMAIN coinEvents : ~OfCoin(coinEvents[i], c)
      BY <1>1, <1>2, <1>4
    <2>2. ShownIn(c, coinPage, coinRows, coinStatus)
      BY <2>1 DEF CoinInv, SettledShown
    <2>3. CASE coinRows' = coinRows
      BY <2>2, <2>3
    <2>4. CASE RowsFollow(coinRows, coinRows', e, coinPage)
      <3>1. e.action = "Reset" => e.shielded
        <4> SUFFICES ASSUME e.action = "Reset", ~e.shielded
                     PROVE  FALSE
          OBVIOUS
        <4>1. PICK j \in DOMAIN coinEvents : coinEvents[j].action = "Reset" /\ coinEvents[j].shielded
          BY <1>1 DEF CoinInv, ShieldedFollow
        <4>2. c \in Shielded
          BY <1>4 DEF OfCoin
        <4> QED
          BY <2>1, <4>1, <4>2 DEF OfCoin
      <3>2. \A s : CoinRow(c, s) \in ToSet(coinRows') <=> CoinRow(c, s) \in ToSet(coinRows)
        BY <1>4, <2>4, <3>1 DEF RowsFollow
      <3> QED
        BY <2>2, <3>2 DEF ShownIn
    <2> QED
      BY <2>3, <2>4 DEF e
  <1> QED
    BY <1>3, <1>4

\* Taking an event away leaves what the others say.
LEMMA TakenKeeps ==
    ASSUME CoinInv, coinEvents # <<>>, coinEvents' = Tail(coinEvents),
           UNCHANGED <<coinStatus, coinCalls, coinPage>>,
           coinRows' \in Seq(CoinItem), DistinctIds(coinRows'),
           CoinIds(coinRows') \subseteq CoinIds(coinRows) \cup CoinIds(Head(coinEvents).of),
           ~coinPage.open => coinRows' = <<>>,
           SettledShown'
    PROVE  CoinInv'
  <1> DEFINE e == Head(coinEvents)
  <1>1. coinEvents \in Seq(CoinEventType)
    BY DEF CoinInv, CoinTypes
  <1>2. /\ e = coinEvents[1] /\ 1 \in DOMAIN coinEvents
        /\ DOMAIN coinEvents \subseteq Nat
        /\ coinEvents' \in Seq(CoinEventType)
        /\ \A i \in DOMAIN coinEvents' :
               i + 1 \in DOMAIN coinEvents /\ coinEvents'[i] = coinEvents[i + 1]
        /\ \A i \in DOMAIN coinEvents : i # 1 =>
               i - 1 \in DOMAIN coinEvents' /\ coinEvents'[i - 1] = coinEvents[i]
    BY <1>1, TailPlaces
  <1> HIDE DEF e
  <1>3. DOMAIN coinEvents' \subseteq Nat /\ \A i \in DOMAIN coinEvents' : i >= 1
    BY <1>2
  <1>4. CoinTypes'
    BY <1>2 DEF CoinInv, CoinTypes
  <1>5. CoinShapes'
    BY <1>2 DEF CoinInv, CoinShapes
  <1>6. LastTellsCoin(coinEvents', coinStatus)
    <2> SUFFICES ASSUME NEW i \in DOMAIN coinEvents', NEW c \in Coins,
                        OfCoin(coinEvents'[i], c),
                        \A j \in DOMAIN coinEvents' : j > i => ~OfCoin(coinEvents'[j], c)
                 PROVE  TellsOfCoin(coinEvents'[i], c, coinStatus)
      BY DEF LastTellsCoin
    <2>1. ASSUME NEW j \in DOMAIN coinEvents, j > i + 1
          PROVE  ~OfCoin(coinEvents[j], c)
      <3>1. j # 1 /\ j - 1 > i
        BY <1>2, <1>3, <2>1
      <3> QED
        BY <1>2, <3>1
    <2> QED
      BY <1>2, <2>1 DEF CoinInv, LastTellsCoin
  <1>7. CoinAddedFirst(coinEvents', coinRows')
    <2> SUFFICES ASSUME NEW i \in DOMAIN coinEvents', NEW c \in CoinIds(coinEvents'[i].of),
                        coinEvents'[i].action = "Added"
                 PROVE  /\ c \notin CoinIds(coinRows')
                        /\ \A j \in DOMAIN coinEvents' : j < i => c \notin CoinIds(coinEvents'[j].of)
      BY DEF CoinAddedFirst
    <2>1. /\ i + 1 \in DOMAIN coinEvents /\ coinEvents[i + 1] = coinEvents'[i] /\ 1 < i + 1
      BY <1>2, <1>3
    <2>2. /\ c \notin CoinIds(coinRows)
          /\ \A j \in DOMAIN coinEvents : j < i + 1 => c \notin CoinIds(coinEvents[j].of)
      BY <2>1 DEF CoinInv, CoinAddedFirst
    <2>3. \A j \in DOMAIN coinEvents' : j < i => j + 1 < i + 1
      BY <1>3
    <2> QED
      BY <1>2, <2>1, <2>2, <2>3 DEF e
  <1>8. UnbornUnheard(coinEvents', coinRows', coinStatus)
    BY <1>2 DEF UnbornUnheard, CoinInv, e
  <1>9. ShieldedFollow(coinEvents')
    <2> SUFFICES ASSUME NEW i \in DOMAIN coinEvents',
                        coinEvents'[i].action = "Reset", ~coinEvents'[i].shielded
                 PROVE  \E j \in DOMAIN coinEvents' :
                            j > i /\ coinEvents'[j].action = "Reset" /\ coinEvents'[j].shielded
      BY DEF ShieldedFollow
    <2>1. PICK j \in DOMAIN coinEvents :
              j > i + 1 /\ coinEvents[j].action = "Reset" /\ coinEvents[j].shielded
      BY <1>2 DEF CoinInv, ShieldedFollow
    <2>2. j # 1 /\ j - 1 > i
      BY <1>2, <1>3, <2>1
    <2>3. j - 1 \in DOMAIN coinEvents' /\ coinEvents'[j - 1] = coinEvents[j]
      BY <1>2, <2>2
    <2> QED
      BY <2>1, <2>2, <2>3
  <1> QED
    BY <1>4, <1>5, <1>6, <1>7, <1>8, <1>9 DEF CoinInv

\* The first event of a queue that is not empty.
LEMMA HeadCoinEvent ==
    ASSUME CoinInv, coinEvents # <<>>
    PROVE  /\ Head(coinEvents) \in CoinEventType /\ CoinEventShape(Head(coinEvents))
           /\ Head(coinEvents).of \in Seq(CoinItem)
           /\ Head(coinEvents).action = "Added" =>
                  \A c \in CoinIds(Head(coinEvents).of) : c \notin CoinIds(coinRows)
  <1>1. coinEvents \in Seq(CoinEventType)
    BY DEF CoinInv, CoinTypes
  <1>2. Head(coinEvents) = coinEvents[1] /\ 1 \in DOMAIN coinEvents
    BY <1>1, TailPlaces
  <1>3. coinEvents[1] \in CoinEventType
    BY <1>1, <1>2
  <1> QED
    BY <1>2, <1>3 DEF CoinInv, CoinShapes, CoinAddedFirst, CoinEventType

\* What is told of one coin, or kept from the dialog, is followed.
LEMMA OneCoinFollows ==
    ASSUME NEW rows \in Seq(CoinItem), DistinctIds(rows), NEW e \in CoinEventType, NEW page,
           e.action # "Reset", CoinEventShape(e),
           e.action = "Added" => \A c \in CoinIds(e.of) : c \notin CoinIds(rows),
           NEW items \in {<<>>, e.of},
           ~page.maxPrivacy => items = e.of,
           items # e.of => \A x \in ToSet(e.of) :
                               ~(CoinAsset[x.id] = page.asset /\ x.status = "maturing")
    PROVE  RowsFollow(rows, CoinListAfter(rows, e.action, items), e, page)
  <1> DEFINE s == CoinListAfter(rows, e.action, items)
  <1>1. PICK x \in CoinItem : e.of = <<x>> /\ (e.shielded <=> x.id \in Shielded)
    BY DEF CoinEventShape
  <1>2. /\ ToSet(e.of) = {x} /\ CoinIds(e.of) = {x.id} /\ e.of \in Seq(CoinItem)
        /\ x = CoinRow(x.id, x.status)
    BY <1>1, OneCoinItem DEF CoinRow, CoinItem
  <1>3. e.action \in {"Added", "Updated", "Removed"}
    BY DEF CoinEventType
  <1>4. OneRowAfter(s, rows, x, items, e.action)
    <2>1. items \in {<<>>, <<x>>}
      BY <1>1
    <2>2. e.action = "Added" => x.id \notin CoinIds(rows)
      BY <1>2
    <2> QED
      BY <1>3, <2>1, <2>2, CoinListAfterOf
  <1>4a. /\ s \in Seq(CoinItem) /\ DistinctIds(s)
         /\ \A r : r.id # x.id => (r \in ToSet(s) <=> r \in ToSet(rows))
         /\ items = <<x>> /\ e.action # "Removed" =>
                \A r : r.id = x.id => (r \in ToSet(s) <=> r = x)
         /\ items = <<x>> /\ e.action = "Removed" =>
                \A r : r.id = x.id => r \notin ToSet(s)
         /\ \A r \in ToSet(s) : r \in ToSet(rows) \/ r.id = x.id
    <2> HIDE DEF s
    <2> QED
      BY <1>4 DEF OneRowAfter
  <1> HIDE DEF s
  <1>5. \A c \in Coins : OfCoin(e, c) <=> c = x.id
    BY <1>2 DEF OfCoin
  <1>6. \A c, t : CoinRow(c, t).id = c /\ CoinRow(c, t).status = t
    BY DEF CoinRow
  <1>7. CoinIds(s) \subseteq CoinIds(rows) \cup CoinIds(e.of)
    <2> SUFFICES ASSUME NEW c \in CoinIds(s)
                 PROVE  c \in CoinIds(rows) \cup CoinIds(e.of)
      OBVIOUS
    <2>1. PICK r \in ToSet(s) : r.id = c
      BY <1>4a, CoinIdsOf
    <2>2. r \in ToSet(rows) => c \in CoinIds(rows)
      BY <2>1, CoinIdsOf
    <2> QED
      BY <1>2, <1>4a, <2>1, <2>2
  <1>8. \A c \in Coins : ~OfCoin(e, c) =>
            \A t : CoinRow(c, t) \in ToSet(s) <=> CoinRow(c, t) \in ToSet(rows)
    BY <1>4a, <1>5, <1>6
  <1>9. \A c \in Coins : OfCoin(e, c) /\ ~page.maxPrivacy =>
            \A t : CoinRow(c, t) \in ToSet(s) <=>
                       e.action # "Removed" /\ CoinRow(c, t) \in ToSet(e.of)
    BY <1>1, <1>2, <1>4a, <1>5, <1>6
  <1>10. ASSUME NEW c \in Shielded, OfCoin(e, c), page.maxPrivacy, CoinAsset[c] = page.asset,
                e.action # "Removed", CoinRow(c, "maturing") \in ToSet(e.of)
         PROVE  CoinRow(c, "maturing") \in ToSet(s)
    <2>1. x = CoinRow(c, "maturing") /\ x.id = c /\ x.status = "maturing"
      BY <1>2, <1>6, <1>10
    <2>2. items = <<x>>
      BY <1>1, <1>2, <1>10, <2>1
    <2> QED
      BY <1>4a, <1>10, <2>1, <2>2
  <1> QED
    BY <1>4a, <1>7, <1>8, <1>9, <1>10 DEF RowsFollow, s

LEMMA OnNormalCoinsChangedKeeps ==
    ASSUME CoinInv, OnNormalCoinsChanged
    PROVE  CoinInv'
  <1> DEFINE e == Head(coinEvents)
  <1>1. /\ e \in CoinEventType /\ CoinEventShape(e) /\ e.of \in Seq(CoinItem)
        /\ e.action = "Added" => \A c \in CoinIds(e.of) : c \notin CoinIds(coinRows)
        /\ coinEvents # <<>> /\ coinEvents' = Tail(coinEvents) /\ e.shielded = FALSE
        /\ UNCHANGED <<coinStatus, coinCalls, coinPage>>
    BY HeadCoinEvent DEF OnNormalCoinsChanged, CoinsArrive
  <1>2. coinRows' = IF ~coinPage.open \/ coinPage.maxPrivacy THEN coinRows
                    ELSE IF e.action = "Reset" THEN ListReset(e.of)
                    ELSE CoinListAfter(coinRows, e.action, e.of)
    BY DEF OnNormalCoinsChanged
  <1>3. /\ coinRows \in Seq(CoinItem) /\ DistinctIds(coinRows)
        /\ ~coinPage.open => coinRows = <<>>
    BY DEF CoinInv, CoinTypes, CoinShapes
  <1> HIDE DEF e
  <1>4. CASE ~coinPage.open
    <2>1. coinRows' = coinRows
      BY <1>2, <1>4
    <2>2. SettledShown'
      BY <1>1, <1>4 DEF SettledShown
    <2> QED
      BY <1>1, <1>3, <2>1, <2>2, TakenKeeps
  <1>5. CASE coinPage.open /\ coinPage.maxPrivacy
    <2>1. coinRows' = coinRows
      BY <1>2, <1>5
    <2>2. \A c \in Shielded : ~OfCoin(e, c)
      <3> SUFFICES ASSUME NEW c \in Shielded, OfCoin(e, c)
                   PROVE  FALSE
        OBVIOUS
      <3>1. e.action # "Reset" /\ c \in CoinIds(e.of)
        BY <1>1 DEF OfCoin, CoinEventShape
      <3>2. PICK x \in CoinItem : e.of = <<x>> /\ (e.shielded <=> x.id \in Shielded)
        BY <1>1, <3>1 DEF CoinEventShape
      <3> QED
        BY <1>1, <3>1, <3>2, OneCoinItem
    <2>3. SettledShown'
      BY <1>1, <1>5, <2>1, <2>2, SettledFollows DEF e
    <2> QED
      BY <1>1, <1>3, <1>5, <2>1, <2>3, TakenKeeps
  <1>6. CASE coinPage.open /\ ~coinPage.maxPrivacy
    <2>1. RowsFollow(coinRows, coinRows', e, coinPage)
      <3>1. CASE e.action = "Reset"
        <4>1. coinRows' = ListReset(e.of)
          BY <1>2, <1>6, <3>1
        <4>2. /\ coinRows' \in Seq(CoinItem) /\ ToSet(coinRows') = ToSet(e.of)
              /\ DistinctIds(coinRows')
          <5>1. DistinctIds(e.of)
            BY <1>1 DEF CoinEventShape
          <5>2. /\ ListReset(e.of) \in Seq(CoinItem) /\ ToSet(ListReset(e.of)) = ToSet(e.of)
                /\ DistinctIds(e.of) => DistinctIds(ListReset(e.of))
            BY <1>1, ListResetOf
          <5> QED
            BY <4>1, <5>1, <5>2
        <4>3. CoinIds(coinRows') \subseteq CoinIds(e.of)
          BY <1>1, <4>2, CoinIdsOf
        <4> QED
          BY <1>1, <1>6, <3>1, <4>2, <4>3 DEF RowsFollow
      <3>2. CASE e.action # "Reset"
        <4>1. coinRows' = CoinListAfter(coinRows, e.action, e.of)
          BY <1>2, <1>6, <3>2
        <4>2. RowsFollow(coinRows, CoinListAfter(coinRows, e.action, e.of), e, coinPage)
          BY <1>1, <1>3, <1>6, <3>2, OneCoinFollows
        <4> QED
          BY <4>1, <4>2
      <3> QED
        BY <3>1, <3>2
    <2>2. SettledShown'
      BY <1>1, <1>6, <2>1, SettledFollows DEF e
    <2>3. /\ coinRows' \in Seq(CoinItem) /\ DistinctIds(coinRows')
          /\ CoinIds(coinRows') \subseteq CoinIds(coinRows) \cup CoinIds(e.of)
      BY <2>1 DEF RowsFollow
    <2> QED
      BY <1>1, <1>6, <2>2, <2>3, TakenKeeps DEF e
  <1> QED
    BY <1>4, <1>5, <1>6

LEMMA OnShieldedCoinChangedKeeps ==
    ASSUME CoinInv, OnShieldedCoinChanged
    PROVE  CoinInv'
  <1> DEFINE e == Head(coinEvents)
             concerns(x) == coinPage.maxPrivacy =>
                                CoinAsset[x.id] = coinPage.asset /\ x.status = "maturing"
             kept == {i \in DOMAIN e.of : concerns(e.of[i])}
             items == ItemsAt(e.of, kept)
             places == {i \in DOMAIN coinRows : coinRows[i].id \in Shielded}
             shieldedRows == ItemsAt(coinRows, places)
  <1>1. /\ e \in CoinEventType /\ CoinEventShape(e) /\ e.of \in Seq(CoinItem)
        /\ e.action = "Added" => \A c \in CoinIds(e.of) : c \notin CoinIds(coinRows)
        /\ coinEvents # <<>> /\ coinEvents' = Tail(coinEvents) /\ e.shielded = TRUE
        /\ UNCHANGED <<coinStatus, coinCalls, coinPage>>
    BY HeadCoinEvent DEF OnShieldedCoinChanged, CoinsArrive
  <1>2. coinRows' = IF ~coinPage.open THEN coinRows
                    ELSE IF e.action = "Reset"
                         THEN ListInsert(ListRemove(coinRows, shieldedRows), items)
                    ELSE CoinListAfter(coinRows, e.action, items)
    BY DEF OnShieldedCoinChanged
  <1>3. /\ coinRows \in Seq(CoinItem) /\ DistinctIds(coinRows)
        /\ ~coinPage.open => coinRows = <<>>
    BY DEF CoinInv, CoinTypes, CoinShapes
  <1> HIDE DEF e
  <1>4. CASE ~coinPage.open
    <2>1. coinRows' = coinRows
      BY <1>2, <1>4
    <2>2. SettledShown'
      BY <1>1, <1>4 DEF SettledShown
    <2> QED
      BY <1>1, <1>3, <2>1, <2>2, TakenKeeps
  <1>5. CASE coinPage.open
    <2>1. RowsFollow(coinRows, coinRows', e, coinPage)
      <3>0. DistinctIds(e.of)
        BY <1>1 DEF CoinEventShape
      <3>1. /\ items \in Seq(CoinItem) /\ DistinctIds(items)
            /\ ToSet(items) = {e.of[i] : i \in kept}
        <4>1. kept \in SUBSET DOMAIN e.of
          OBVIOUS
        <4> HIDE DEF kept
        <4> QED
          BY <1>1, <3>0, <4>1, ItemsAtSet, ItemsAtDistinct
      <3>2. \A r : r \in ToSet(items) <=> r \in ToSet(e.of) /\ concerns(r)
        BY <3>1 DEF ToSet
      <3>3. CASE e.action = "Reset"
        <4>1. /\ shieldedRows \in Seq(CoinItem)
              /\ ToSet(shieldedRows) = {coinRows[i] : i \in places}
          <5>1. places \in SUBSET DOMAIN coinRows
            OBVIOUS
          <5> HIDE DEF places
          <5> QED
            BY <1>3, <5>1, ItemsAtSet
        <4>2. \A r : r \in ToSet(shieldedRows) <=> r \in ToSet(coinRows) /\ r.id \in Shielded
          BY <4>1 DEF ToSet
        <4> DEFINE left == ListRemove(coinRows, shieldedRows)
        <4> HIDE DEF items, shieldedRows, places
        <4>3. /\ left \in Seq(CoinItem) /\ DistinctIds(left)
              /\ ToSet(left) = {r \in ToSet(coinRows) : \A x \in ToSet(shieldedRows) : r.id # x.id}
          BY <1>3, <4>1, ListRemoveOf
        <4>4. \A r : r \in ToSet(left) <=> r \in ToSet(coinRows) /\ r.id \notin Shielded
          BY <4>2, <4>3
        <4> HIDE DEF left
        <4>5. \A x \in ToSet(e.of) : x.id \in Shielded
          BY <1>1, <3>3, CoinIdsOf DEF CoinEventShape
        <4>6. \A r \in ToSet(left), x \in ToSet(items) : r.id # x.id
          BY <3>2, <4>4, <4>5
        <4> DEFINE s == ListInsert(left, items)
        <4>7. /\ s \in Seq(CoinItem) /\ DistinctIds(s)
              /\ ToSet(s) = ToSet(left) \cup ToSet(items)
          <5>1. s \in Seq(CoinItem) /\ ToSet(s) = ToSet(left) \cup ToSet(items)
            BY <3>1, <4>3, ListInsertOf
          <5>2. DistinctIds(s)
            BY <3>1, <4>3, <4>6, ListInsertOf
          <5> QED
            BY <5>1, <5>2
        <4>8. s = coinRows'
          BY <1>2, <1>5, <3>3 DEF left
        <4> HIDE DEF s
        <4>9. \A r : r \in ToSet(s) <=> \/ r \in ToSet(coinRows) /\ r.id \notin Shielded
                                        \/ r \in ToSet(e.of) /\ concerns(r)
          BY <3>2, <4>4, <4>7
        <4>10. \A c, t : CoinRow(c, t).id = c /\ CoinRow(c, t).status = t
          BY DEF CoinRow
        <4>11. \A c \in Coins : OfCoin(e, c) <=> c \in Shielded
          BY <1>1, <3>3 DEF OfCoin, CoinEventShape
        <4>12. CoinIds(s) \subseteq CoinIds(coinRows) \cup CoinIds(e.of)
          BY <1>1, <1>3, <4>7, <4>9, CoinIdsOf
        <4>13. \A c \in Coins : ~OfCoin(e, c) =>
                   \A t : CoinRow(c, t) \in ToSet(s) <=> CoinRow(c, t) \in ToSet(coinRows)
          BY <4>5, <4>9, <4>10, <4>11
        <4>14. \A c \in Coins : OfCoin(e, c) /\ ~coinPage.maxPrivacy =>
                   \A t : CoinRow(c, t) \in ToSet(s) <=> CoinRow(c, t) \in ToSet(e.of)
          BY <4>9, <4>10, <4>11
        <4>15. \A c \in Shielded :
                   /\ coinPage.maxPrivacy /\ CoinAsset[c] = coinPage.asset
                   /\ CoinRow(c, "maturing") \in ToSet(e.of)
                   => CoinRow(c, "maturing") \in ToSet(s)
          BY <4>9, <4>10
        <4>16. RowsFollow(coinRows, s, e, coinPage)
          <5> HIDE DEF concerns
          <5> QED
            BY <3>3, <4>7, <4>12, <4>13, <4>14, <4>15 DEF RowsFollow
        <4> QED
          BY <4>8, <4>16
      <3>4. CASE e.action # "Reset"
        <4>1. PICK x \in CoinItem : e.of = <<x>>
          BY <1>1, <3>4 DEF CoinEventShape
        <4>2. ToSet(e.of) = {x}
          BY <4>1, OneCoinItem
        <4>3. CASE concerns(x)
          <5>1. kept = {1}
            BY <4>1, <4>3
          <5>2. items = e.of
            <6> HIDE DEF kept
            <6> QED
              BY <4>1, <5>1, ItemsAtOne
          <5>3. RowsFollow(coinRows, CoinListAfter(coinRows, e.action, e.of), e, coinPage)
            BY <1>1, <1>3, <3>4, OneCoinFollows
          <5> QED
            BY <1>2, <1>5, <3>4, <5>2, <5>3
        <4>4. CASE ~concerns(x)
          <5>1. kept = {}
            BY <4>1, <4>4
          <5>2. items = <<>>
            <6> HIDE DEF kept
            <6> QED
              BY <4>1, <5>1, ItemsAtOne
          <5>3. coinPage.maxPrivacy /\ ~(CoinAsset[x.id] = coinPage.asset /\ x.status = "maturing")
            BY <4>4
          <5>4. RowsFollow(coinRows, CoinListAfter(coinRows, e.action, <<>>), e, coinPage)
            BY <1>1, <1>3, <3>4, <4>2, <5>3, OneCoinFollows
          <5> QED
            BY <1>2, <1>5, <3>4, <5>2, <5>4
        <4> QED
          BY <4>3, <4>4
      <3> QED
        BY <3>3, <3>4
    <2>2. SettledShown'
      BY <1>1, <1>5, <2>1, SettledFollows DEF e
    <2>3. /\ coinRows' \in Seq(CoinItem) /\ DistinctIds(coinRows')
          /\ CoinIds(coinRows') \subseteq CoinIds(coinRows) \cup CoinIds(e.of)
      BY <2>1 DEF RowsFollow
    <2> HIDE DEF items, shieldedRows
    <2> QED
      BY <1>1, <1>5, <2>2, <2>3, TakenKeeps DEF e
  <1> QED
    BY <1>4, <1>5

-----------------------------------------------------------------------------
LEMMA CoinInitInv == UtxoPageInit => CoinInv
  <1> SUFFICES ASSUME UtxoPageInit
               PROVE  CoinInv
    OBVIOUS
  <1>1. /\ coinEvents = <<>> /\ coinRows = <<>> /\ coinCalls = 0 /\ ~coinPage.open
        /\ coinPage \in CoinPage /\ coinStatus \in [Coins -> CoinStatus \cup {"unborn"}]
    BY DEF UtxoPageInit
  <1>2. /\ DOMAIN coinEvents = {} /\ CoinIds(coinRows) = {} /\ DistinctIds(coinRows)
        /\ coinEvents \in Seq(CoinEventType) /\ coinRows \in Seq(CoinItem)
    BY <1>1 DEF CoinIds, DistinctIds
  <1>3. coinStatus \in [Coins -> CoinStatus \cup {"unborn", "spent"}]
    BY <1>1
  <1>4. CoinTypes
    BY <1>1, <1>2, <1>3 DEF CoinTypes
  <1>5. CoinShapes
    BY <1>1, <1>2 DEF CoinShapes
  <1>6. /\ LastTellsCoin(coinEvents, coinStatus)
        /\ CoinAddedFirst(coinEvents, coinRows)
        /\ UnbornUnheard(coinEvents, coinRows, coinStatus)
        /\ ShieldedFollow(coinEvents)
    BY <1>2 DEF LastTellsCoin, CoinAddedFirst, UnbornUnheard, ShieldedFollow
  <1> QED
    BY <1>1, <1>4, <1>5, <1>6 DEF CoinInv, SettledShown

\* An open page starts empty and asks; a closed one has no rows.
LEMMA CoinPageKeeps ==
    ASSUME CoinInv, UNCHANGED <<coinStatus, coinEvents>>, coinRows' = <<>>,
           coinPage' \in CoinPage, coinCalls' \in Nat, ~coinPage'.open \/ coinCalls' # 0
    PROVE  CoinInv'
  <1>1. CoinIds(coinRows') = {} /\ DistinctIds(coinRows') /\ coinRows' \in Seq(CoinItem)
    BY DEF CoinIds, DistinctIds
  <1>2. CoinTypes' /\ CoinShapes' /\ SettledShown'
    BY <1>1 DEF CoinInv, CoinTypes, CoinShapes, SettledShown
  <1>3. CoinAddedFirst(coinEvents, coinRows') /\ UnbornUnheard(coinEvents, coinRows', coinStatus)
    BY <1>1 DEF CoinInv, CoinAddedFirst, UnbornUnheard
  <1> QED
    BY <1>2, <1>3 DEF CoinInv

LEMMA CoinNextInv == CoinInv /\ [UtxoPageNext]_utxoPageVars => CoinInv'
  <1> SUFFICES ASSUME CoinInv, [UtxoPageNext]_utxoPageVars
               PROVE  CoinInv'
    OBVIOUS
  <1>1. ASSUME NEW c \in Coins, NEW st \in CoinStatus \cup {"spent"}, CoinChanges(c, st)
        PROVE  CoinInv'
    BY <1>1, CoinChangesKeeps
  <1>2. CASE RunGetAllUtxos
    BY <1>2, RunGetAllUtxosKeeps
  <1>3. ASSUME NEW maxPrivacy \in BOOLEAN, NEW asset \in {CoinAsset[c] : c \in Coins},
               OpenUtxoPage(maxPrivacy, asset)
        PROVE  CoinInv'
    <2>1. coinCalls \in Nat
      BY DEF CoinInv, CoinTypes
    <2>2. coinCalls' \in Nat /\ coinCalls' # 0
      BY <1>3, <2>1 DEF OpenUtxoPage
    <2>3. coinPage' \in CoinPage
      BY <1>3 DEF OpenUtxoPage, CoinPage
    <2> QED
      BY <1>3, <2>2, <2>3, CoinPageKeeps DEF OpenUtxoPage
  <1>4. CASE CloseUtxoPage
    <2>1. coinCalls \in Nat /\ coinPage \in CoinPage
      BY DEF CoinInv, CoinTypes
    <2>2. coinPage' \in CoinPage /\ ~coinPage'.open
      BY <1>4, <2>1 DEF CloseUtxoPage, CoinPage
    <2> QED
      BY <1>4, <2>1, <2>2, CoinPageKeeps DEF CloseUtxoPage
  <1>5. CASE OnNormalCoinsChanged
    BY <1>5, OnNormalCoinsChangedKeeps
  <1>6. CASE OnShieldedCoinChanged
    BY <1>6, OnShieldedCoinChangedKeeps
  <1>7. CASE UNCHANGED utxoPageVars
    BY <1>7 DEF utxoPageVars, CoinInv, CoinTypes, CoinShapes, SettledShown
  <1> QED
    BY <1>1, <1>2, <1>3, <1>4, <1>5, <1>6, <1>7 DEF UtxoPageNext

LEMMA CoinInvShows == CoinInv => UtxoPageShowsCoins
  <1> SUFFICES ASSUME CoinInv, coinPage.open, coinCalls = 0, coinEvents = <<>>
               PROVE  LET shown == {coinRows[i] : i \in DOMAIN coinRows}
                      IN  /\ \A i, j \in DOMAIN coinRows : i # j => coinRows[i].id # coinRows[j].id
                          /\ ~coinPage.maxPrivacy =>
                                 shown = {[id |-> c, status |-> coinStatus[c]] : c \in InUse}
                          /\ coinPage.maxPrivacy =>
                                 \A c \in Shielded :
                                     coinStatus[c] = "maturing" /\ CoinAsset[c] = coinPage.asset
                                     => [id |-> c, status |-> "maturing"] \in shown
    BY DEF UtxoPageShowsCoins
  <1>1. {coinRows[i] : i \in DOMAIN coinRows} = ToSet(coinRows)
    BY DEF ToSet
  <1>2. coinRows \in Seq(CoinItem) /\ DistinctIds(coinRows)
    BY DEF CoinInv, CoinTypes, CoinShapes
  <1>3. \A c \in Coins : ShownIn(c, coinPage, coinRows, coinStatus)
    BY DEF CoinInv, SettledShown
  <1>4. InUse = UseOf(coinStatus)
    BY DEF InUse, UseOf
  <1>5. ASSUME ~coinPage.maxPrivacy
        PROVE  ToSet(coinRows) = {CoinRow(c, coinStatus[c]) : c \in UseOf(coinStatus)}
    <2>1. \A c \in Coins : \A s : CoinRow(c, s) \in ToSet(coinRows) <=>
              c \in UseOf(coinStatus) /\ s = coinStatus[c]
      BY <1>3, <1>5 DEF ShownIn
    <2>2. \A r \in ToSet(coinRows) : r.id \in Coins /\ r = CoinRow(r.id, r.status)
      BY <1>2, CoinIdsOf
    <2>3. UseOf(coinStatus) \subseteq Coins
      BY DEF UseOf
    <2> QED
      BY <2>1, <2>2, <2>3
  <1>6. Shielded \subseteq Coins
    BY UtxoPageAssumption
  <1>7. ASSUME coinPage.maxPrivacy, NEW c \in Shielded,
               coinStatus[c] = "maturing", CoinAsset[c] = coinPage.asset
        PROVE  CoinRow(c, "maturing") \in ToSet(coinRows)
    BY <1>3, <1>6, <1>7 DEF ShownIn
  <1> QED
    BY <1>1, <1>2, <1>4, <1>5, <1>7 DEF DistinctIds, CoinRow

\* Once everything has arrived, the dialog of all coins lists exactly the
\* wallet's, that of max privacy coins those of its asset that mature, and
\* neither lists one twice (utxo_view.cpp: onNormalCoinsChanged,
\* onShieldedCoinChanged; helpers/list_model.h: reset, insert, update, remove).
THEOREM UtxoPageShowsCoinsAlways == UtxoPageSpec => []UtxoPageShowsCoins
  <1> QED
    BY CoinInitInv, CoinNextInv, CoinInvShows, PTL DEF UtxoPageSpec

-----------------------------------------------------------------------------
(* The pages that list transactions.                                       *)

TxRow(t, s) == [id |-> t, status |-> s]

UnfinishedStatus == {"pending", "active"}

\* An event says something of a transaction, be it that it is not there.
OfTx(e, t) == e.action = "Reset" \/ t \in IdsOfItems(e.of)

\* What an event says of a transaction is how it is now.
TellsOfTx(e, t, s) ==
    /\ s \in Living => e.action # "Removed" /\ TxRow(t, s) \in ToSet(e.of)
    /\ s \notin Living =>
           e.action = "Removed" \/ (e.action = "Reset" /\ t \notin IdsOfItems(e.of))

Adds(e, t) == e.action = "Added" /\ t \in IdsOfItems(e.of)
Removes(e, t) == e.action = "Removed" /\ t \in IdsOfItems(e.of)
Finishes(e, t) == e.action = "Updated" /\ TxRow(t, "done") \in ToSet(e.of)
Mentions(e, t) == e.action # "Removed" /\ t \in IdsOfItems(e.of)
LacksIn(e, t) == e.action = "Reset" /\ t \notin IdsOfItems(e.of)
HasUnfinished(e, t) == \E s \in UnfinishedStatus : TxRow(t, s) \in ToSet(e.of)

TxEventShape(e) ==
    /\ DistinctIds(e.of)
    /\ e.action # "Reset" => \E x \in TxItem : e.of = <<x>>
    /\ e.action = "Added" => \A r \in ToSet(e.of) : r.status # "done"

TxTypes ==
    /\ txStatus \in [Txs -> Living \cup {"unborn", "gone"}]
    /\ txCalls \in Nat
    /\ txEvents \in Seq(TxEvent)
    /\ txPage \in {"none", "wallet", "swaps", "addresses"}
    /\ txRows \in Seq(TxItem)
    /\ activeTx \subseteq Txs
    /\ activeCounter \in Int
    /\ busyAddresses \in [TxAddresses -> Nat]

PageKind(page) == IF page = "wallet" THEN "simple" ELSE "swap"

TxShapes ==
    /\ \A i \in DOMAIN txEvents : TxEventShape(txEvents[i])
    /\ DistinctIds(txRows)
    /\ txPage \notin {"wallet", "swaps"} => txRows = <<>>
    /\ \A r \in ToSet(txRows) : KindOf[r.id] = PageKind(txPage)

\* The last event of a transaction tells how it is.
LastTellsTx(q, now) ==
    \A i \in DOMAIN q : \A t \in Txs :
        /\ OfTx(q[i], t)
        /\ \A j \in DOMAIN q : j > i => ~OfTx(q[j], t)
        => TellsOfTx(q[i], t, now[t])

\* A transaction comes in once, before anything else is said of it.
AddedOnce(q, now) ==
    \A t \in Txs :
        /\ \A i, j \in DOMAIN q : j < i /\ Adds(q[i], t) => t \notin IdsOfItems(q[j].of)
        /\ now[t] = "unborn" => \A j \in DOMAIN q : t \notin IdsOfItems(q[j].of)

\* One that was there and is no longer has been said to be removed.
Withdrawn(q, now) ==
    \A t \in Txs : \A k \in DOMAIN q : Mentions(q[k], t) =>
        /\ now[t] \notin Living => \E j \in DOMAIN q : j > k /\ Removes(q[j], t)
        /\ \A i \in DOMAIN q : i > k /\ LacksIn(q[i], t) =>
               \E j \in DOMAIN q : k < j /\ j < i /\ Removes(q[j], t)

\* Nothing says that a transaction is over that is not, and one that was said
\* to be under way and no longer is will be said to be done.
OverIsTold(q, now) ==
    \A t \in Txs : \A i \in DOMAIN q :
        /\ now[t] \in UnfinishedStatus => ~Finishes(q[i], t) /\ ~Removes(q[i], t)
        /\ /\ now[t] \notin UnfinishedStatus
           /\ Adds(q[i], t) \/ (q[i].action = "Reset" /\ HasUnfinished(q[i], t))
           => \E j \in DOMAIN q : j > i /\ Finishes(q[j], t)
        /\ /\ now[t] \in UnfinishedStatus /\ q[i].action = "Reset"
           /\ \A j \in DOMAIN q : j > i => ~Adds(q[j], t)
           => HasUnfinished(q[i], t)

TxQueueInv(q, now) ==
    LastTellsTx(q, now) /\ AddedOnce(q, now) /\ Withdrawn(q, now) /\ OverIsTold(q, now)

\* What the rows of the page have to do with the events.
RowsKnown(q, rows, now) ==
    \A t \in Txs :
        /\ \A i \in DOMAIN q : Adds(q[i], t) => t \notin IdsOfItems(rows)
        /\ now[t] = "unborn" => t \notin IdsOfItems(rows)
        /\ t \in IdsOfItems(rows) =>
               /\ now[t] \notin Living => \E j \in DOMAIN q : Removes(q[j], t)
               /\ \A i \in DOMAIN q : LacksIn(q[i], t) =>
                      \E j \in DOMAIN q : j < i /\ Removes(q[j], t)

\* A transaction nothing more is said of has its row.
TxSettled ==
    txPage \in {"wallet", "swaps"} /\ txCalls = 0 =>
        \A t \in Txs :
            /\ KindOf[t] = PageKind(txPage)
            /\ \A i \in DOMAIN txEvents : ~OfTx(txEvents[i], t)
            => \A s \in Living : TxRow(t, s) \in ToSet(txRows) <=> s = txStatus[t]

ActiveIds(rows) == {r.id : r \in {r \in ToSet(rows) : r.status = "active"}}

SwapsCounted ==
    txPage = "swaps" =>
        activeTx = ActiveIds(txRows) /\ activeCounter = Cardinality(activeTx)

\* Those of an address that may still be counted.
Countable(q, now, a) ==
    {t \in UsesOf(a) :
        /\ now[t] \in UnfinishedStatus \/ \E i \in DOMAIN q : Finishes(q[i], t)
        /\ \A i \in DOMAIN q : ~Adds(q[i], t)}

BusyCounted(q, now, busy) ==
    /\ \A a \in TxAddresses : busy[a] <= Cardinality(Countable(q, now, a))
    /\ \A t \in Txs :
           /\ UsesOf(MyAddr[t]) = {t} /\ now[t] \in UnfinishedStatus
           /\ \A i \in DOMAIN q : ~Adds(q[i], t)
           => busy[MyAddr[t]] > 0

AddressesCounted ==
    /\ txPage = "addresses" /\ txCalls = 0
    /\ \A i \in DOMAIN txEvents : txEvents[i].action # "Reset"
    => BusyCounted(txEvents, txStatus, busyAddresses)

TxInv ==
    /\ TxTypes
    /\ TxShapes
    /\ TxQueueInv(txEvents, txStatus)
    /\ RowsKnown(txEvents, txRows, txStatus)
    /\ TxSettled
    /\ SwapsCounted
    /\ AddressesCounted

-----------------------------------------------------------------------------
\* The ids of a list are those of its rows.
LEMMA TxIdsOf ==
    ASSUME NEW list \in Seq(TxItem)
    PROVE  /\ \A t : t \in IdsOfItems(list) <=> \E r \in ToSet(list) : r.id = t
           /\ \A r \in ToSet(list) : /\ r \in TxItem /\ r.id \in IdsOfItems(list)
                                     /\ r.id \in Txs /\ r.status \in Living
                                     /\ r = TxRow(r.id, r.status)
           /\ IdsOfItems(list) \subseteq Txs
  <1>1. ToSet(list) \subseteq TxItem
    BY SeqFacts
  <1>2. \A r \in TxItem : r.id \in Txs /\ r.status \in Living /\ r = TxRow(r.id, r.status)
    BY DEF TxItem, TxRow
  <1>3. \A t : t \in IdsOfItems(list) <=> \E r \in ToSet(list) : r.id = t
    BY DEF IdsOfItems, ToSet
  <1> QED
    BY <1>1, <1>2, <1>3

\* Where ids are distinct, a transaction has one row.
LEMMA OneTxRow ==
    ASSUME NEW list \in Seq(TxItem), DistinctIds(list), NEW r \in ToSet(list), NEW q \in ToSet(list),
           r.id = q.id
    PROVE  r = q
  BY SeqFacts DEF DistinctIds

LEMMA OneTxItem ==
    ASSUME NEW x \in TxItem
    PROVE  /\ <<x>> \in Seq(TxItem) /\ ToSet(<<x>>) = {x} /\ IdsOfItems(<<x>>) = {x.id}
           /\ DistinctIds(<<x>>) /\ x = TxRow(x.id, x.status)
  BY DEF ToSet, IdsOfItems, DistinctIds, TxItem, TxRow

\* What the events of a queue are.
LEMMA TxEventsOf ==
    ASSUME NEW q \in Seq(TxEvent)
    PROVE  \A i \in DOMAIN q : q[i] \in TxEvent /\ q[i].of \in Seq(TxItem)
  <1>1. \A i \in DOMAIN q : q[i] \in TxEvent
    OBVIOUS
  <1>2. \A e \in TxEvent : e.of \in Seq(TxItem)
    BY DEF TxEvent
  <1> QED
    BY <1>1, <1>2

LEMMA TxRowParts == \A t, s : TxRow(t, s).id = t /\ TxRow(t, s).status = s
  BY DEF TxRow

-----------------------------------------------------------------------------
(* What is told is put at the end. *)

\* What an event says of a transaction as it becomes another.
Fits(e, t, was, is) ==
    /\ OfTx(e, t) => TellsOfTx(e, t, is)
    /\ ~OfTx(e, t) => was = is
    /\ Adds(e, t) => was = "unborn"
    /\ is = "unborn" => was = "unborn" /\ t \notin IdsOfItems(e.of)
    /\ is \notin Living => (was \in Living => Removes(e, t)) /\ ~Mentions(e, t)
    /\ LacksIn(e, t) => was \notin Living
    /\ is \in UnfinishedStatus =>
           /\ was \in UnfinishedStatus \/ (was = "unborn" /\ Adds(e, t))
           /\ ~Finishes(e, t) /\ ~Removes(e, t)
           /\ e.action = "Reset" => HasUnfinished(e, t)
    /\ is \notin UnfinishedStatus =>
           /\ was \in UnfinishedStatus => Finishes(e, t)
           /\ ~Adds(e, t) /\ ~(e.action = "Reset" /\ HasUnfinished(e, t))

LEMMA TxQueueAppended ==
    ASSUME NEW q \in Seq(TxEvent), NEW e \in TxEvent, NEW now, NEW then,
           TxQueueInv(q, now), \A t \in Txs : Fits(e, t, now[t], then[t])
    PROVE  TxQueueInv(Append(q, e), then)
  <1> DEFINE s == Append(q, e)
             n == Len(q) + 1
  <1>1. /\ n \in DOMAIN s /\ s[n] = e
        /\ \A i \in DOMAIN q : i \in DOMAIN s /\ s[i] = q[i] /\ i < n
        /\ \A i \in DOMAIN s : i \in DOMAIN q \/ i = n
        /\ DOMAIN q \subseteq Nat /\ n \in Nat
    BY AppendPlaces
  <1>1a. \A i \in DOMAIN s : ~(i > n) /\ (i < n => i \in DOMAIN q)
    BY <1>1
  <1> HIDE DEF s, n
  <1>0. \A i \in DOMAIN q : q[i] \in TxEvent /\ q[i].of \in Seq(TxItem)
    BY TxEventsOf
  <1>2. LastTellsTx(s, then)
    <2> SUFFICES ASSUME NEW i \in DOMAIN s, NEW t \in Txs, OfTx(s[i], t),
                        \A j \in DOMAIN s : j > i => ~OfTx(s[j], t)
                 PROVE  TellsOfTx(s[i], t, then[t])
      BY DEF LastTellsTx
    <2>1. CASE i = n
      BY <1>1, <2>1 DEF Fits
    <2>2. CASE i \in DOMAIN q
      <3>1. n > i /\ ~OfTx(e, t)
        BY <1>1, <2>2
      <3>2. \A j \in DOMAIN q : j > i => ~OfTx(q[j], t)
        BY <1>1
      <3>3. TellsOfTx(q[i], t, now[t])
        BY <1>1, <2>2, <3>2 DEF LastTellsTx, TxQueueInv
      <3> QED
        BY <1>1, <2>2, <3>1, <3>3 DEF Fits
    <2> QED
      BY <1>1, <2>1, <2>2
  <1>3. AddedOnce(s, then)
    <2> SUFFICES ASSUME NEW t \in Txs
                 PROVE  /\ \A i, j \in DOMAIN s : j < i /\ Adds(s[i], t) => t \notin IdsOfItems(s[j].of)
                        /\ then[t] = "unborn" => \A j \in DOMAIN s : t \notin IdsOfItems(s[j].of)
      BY DEF AddedOnce
    <2>1. /\ \A i, j \in DOMAIN q : j < i /\ Adds(q[i], t) => t \notin IdsOfItems(q[j].of)
          /\ now[t] = "unborn" => \A j \in DOMAIN q : t \notin IdsOfItems(q[j].of)
      BY DEF TxQueueInv, AddedOnce
    <2>2. /\ Adds(e, t) => now[t] = "unborn"
          /\ then[t] = "unborn" => now[t] = "unborn" /\ t \notin IdsOfItems(e.of)
      BY DEF Fits
    <2>3. ASSUME NEW i \in DOMAIN s, NEW j \in DOMAIN s, j < i, Adds(s[i], t)
          PROVE  t \notin IdsOfItems(s[j].of)
      <3>1. j \in DOMAIN q
        BY <1>1, <2>3
      <3> QED
        BY <1>1, <2>1, <2>2, <2>3, <3>1
    <2> QED
      BY <1>1, <2>1, <2>2, <2>3
  <1>4. Withdrawn(s, then)
    <2> SUFFICES ASSUME NEW t \in Txs, NEW k \in DOMAIN s, Mentions(s[k], t)
                 PROVE  /\ then[t] \notin Living => \E j \in DOMAIN s : j > k /\ Removes(s[j], t)
                        /\ \A i \in DOMAIN s : i > k /\ LacksIn(s[i], t) =>
                               \E j \in DOMAIN s : k < j /\ j < i /\ Removes(s[j], t)
      BY DEF Withdrawn
    <2>1. /\ then[t] \notin Living => (now[t] \in Living => Removes(e, t)) /\ ~Mentions(e, t)
          /\ LacksIn(e, t) => now[t] \notin Living
      BY DEF Fits
    <2>2. CASE k = n
      BY <1>1, <1>1a, <2>1, <2>2
    <2>3. CASE k \in DOMAIN q
      <3>1. /\ now[t] \notin Living => \E j \in DOMAIN q : j > k /\ Removes(q[j], t)
            /\ \A i \in DOMAIN q : i > k /\ LacksIn(q[i], t) =>
                   \E j \in DOMAIN q : k < j /\ j < i /\ Removes(q[j], t)
        BY <1>1, <2>3 DEF TxQueueInv, Withdrawn
      <3>2. then[t] \notin Living => \E j \in DOMAIN s : j > k /\ Removes(s[j], t)
        BY <1>1, <2>1, <2>3, <3>1
      <3>3. ASSUME NEW i \in DOMAIN s, i > k, LacksIn(s[i], t)
            PROVE  \E j \in DOMAIN s : k < j /\ j < i /\ Removes(s[j], t)
        <4>1. CASE i = n
          <5>1. PICK j \in DOMAIN q : j > k /\ Removes(q[j], t)
            BY <1>1, <2>1, <3>1, <3>3, <4>1
          <5> QED
            BY <1>1, <4>1, <5>1
        <4>2. CASE i \in DOMAIN q
          <5>1. PICK j \in DOMAIN q : k < j /\ j < i /\ Removes(q[j], t)
            BY <1>1, <3>1, <3>3, <4>2
          <5> QED
            BY <1>1, <5>1
        <4> QED
          BY <1>1, <4>1, <4>2
      <3> QED
        BY <3>2, <3>3
    <2> QED
      BY <1>1, <2>2, <2>3
  <1>5. OverIsTold(s, then)
    <2> SUFFICES ASSUME NEW t \in Txs, NEW i \in DOMAIN s
                 PROVE  /\ then[t] \in UnfinishedStatus => ~Finishes(s[i], t) /\ ~Removes(s[i], t)
                        /\ /\ then[t] \notin UnfinishedStatus
                           /\ Adds(s[i], t) \/ (s[i].action = "Reset" /\ HasUnfinished(s[i], t))
                           => \E j \in DOMAIN s : j > i /\ Finishes(s[j], t)
                        /\ /\ then[t] \in UnfinishedStatus /\ s[i].action = "Reset"
                           /\ \A j \in DOMAIN s : j > i => ~Adds(s[j], t)
                           => HasUnfinished(s[i], t)
      BY DEF OverIsTold
    <2>1. Fits(e, t, now[t], then[t])
      OBVIOUS
    <2>2. CASE i = n
      BY <1>1, <2>1, <2>2 DEF Fits
    <2>3. CASE i \in DOMAIN q
      <3>1. /\ now[t] \in UnfinishedStatus => ~Finishes(q[i], t) /\ ~Removes(q[i], t)
            /\ /\ now[t] \notin UnfinishedStatus
               /\ Adds(q[i], t) \/ (q[i].action = "Reset" /\ HasUnfinished(q[i], t))
               => \E j \in DOMAIN q : j > i /\ Finishes(q[j], t)
            /\ /\ now[t] \in UnfinishedStatus /\ q[i].action = "Reset"
               /\ \A j \in DOMAIN q : j > i => ~Adds(q[j], t)
               => HasUnfinished(q[i], t)
        BY <2>3 DEF TxQueueInv, OverIsTold
      <3>2. now[t] = "unborn" => ~Finishes(q[i], t) /\ ~Removes(q[i], t)
        <4>1. now[t] = "unborn" => t \notin IdsOfItems(q[i].of)
          BY <2>3 DEF TxQueueInv, AddedOnce
        <4>2. Finishes(q[i], t) => t \in IdsOfItems(q[i].of)
          BY <1>0, <2>3, TxIdsOf, TxRowParts DEF Finishes
        <4> QED
          BY <4>1, <4>2 DEF Removes
      <3>3. CASE then[t] \in UnfinishedStatus
        <4>1. /\ now[t] \in UnfinishedStatus \/ (now[t] = "unborn" /\ Adds(e, t))
          BY <2>1, <3>3 DEF Fits
        <4>2. ~Finishes(s[i], t) /\ ~Removes(s[i], t)
          BY <1>1, <2>3, <3>1, <3>2, <4>1
        <4>3. ASSUME s[i].action = "Reset", \A j \in DOMAIN s : j > i => ~Adds(s[j], t)
              PROVE  HasUnfinished(s[i], t)
          <5>1. ~Adds(e, t)
            BY <1>1, <2>3, <4>3
          <5>2. \A j \in DOMAIN q : j > i => ~Adds(q[j], t)
            BY <1>1, <4>3
          <5> QED
            BY <1>1, <2>3, <3>1, <4>1, <4>3, <5>1, <5>2
        <4> QED
          BY <3>3, <4>2, <4>3
      <3>4. CASE then[t] \notin UnfinishedStatus
        <4>1. now[t] \in UnfinishedStatus => Finishes(e, t)
          BY <2>1, <3>4 DEF Fits
        <4> QED
          BY <1>1, <2>3, <3>1, <3>4, <4>1
      <3> QED
        BY <3>3, <3>4
    <2> QED
      BY <1>1, <2>2, <2>3
  <1> QED
    BY <1>2, <1>3, <1>4, <1>5 DEF TxQueueInv, s

LEMMA RowsKnownAppended ==
    ASSUME NEW q \in Seq(TxEvent), NEW e \in TxEvent, NEW now, NEW then, NEW rows,
           RowsKnown(q, rows, now), \A t \in Txs : Fits(e, t, now[t], then[t])
    PROVE  RowsKnown(Append(q, e), rows, then)
  <1> DEFINE s == Append(q, e)
             n == Len(q) + 1
  <1>1. /\ n \in DOMAIN s /\ s[n] = e
        /\ \A i \in DOMAIN q : i \in DOMAIN s /\ s[i] = q[i] /\ i < n
        /\ \A i \in DOMAIN s : i \in DOMAIN q \/ i = n
    BY AppendPlaces
  <1> HIDE DEF s, n
  <1> SUFFICES ASSUME NEW t \in Txs
               PROVE  /\ \A i \in DOMAIN s : Adds(s[i], t) => t \notin IdsOfItems(rows)
                      /\ then[t] = "unborn" => t \notin IdsOfItems(rows)
                      /\ t \in IdsOfItems(rows) =>
                             /\ then[t] \notin Living => \E j \in DOMAIN s : Removes(s[j], t)
                             /\ \A i \in DOMAIN s : LacksIn(s[i], t) =>
                                    \E j \in DOMAIN s : j < i /\ Removes(s[j], t)
    BY DEF RowsKnown, s
  <1>2. /\ \A i \in DOMAIN q : Adds(q[i], t) => t \notin IdsOfItems(rows)
        /\ now[t] = "unborn" => t \notin IdsOfItems(rows)
        /\ t \in IdsOfItems(rows) =>
               /\ now[t] \notin Living => \E j \in DOMAIN q : Removes(q[j], t)
               /\ \A i \in DOMAIN q : LacksIn(q[i], t) =>
                      \E j \in DOMAIN q : j < i /\ Removes(q[j], t)
    BY DEF RowsKnown
  <1>3. /\ Adds(e, t) => now[t] = "unborn"
        /\ then[t] = "unborn" => now[t] = "unborn"
        /\ then[t] \notin Living => (now[t] \in Living => Removes(e, t))
        /\ LacksIn(e, t) => now[t] \notin Living
    BY DEF Fits
  <1>4. t \in IdsOfItems(rows) /\ then[t] \notin Living => \E j \in DOMAIN s : Removes(s[j], t)
    BY <1>1, <1>2, <1>3
  <1>5. ASSUME t \in IdsOfItems(rows), NEW i \in DOMAIN s, LacksIn(s[i], t)
        PROVE  \E j \in DOMAIN s : j < i /\ Removes(s[j], t)
    <2>1. CASE i = n
      <3>1. PICK j \in DOMAIN q : Removes(q[j], t)
        BY <1>1, <1>2, <1>3, <1>5, <2>1
      <3> QED
        BY <1>1, <2>1, <3>1
    <2>2. CASE i \in DOMAIN q
      <3>1. PICK j \in DOMAIN q : j < i /\ Removes(q[j], t)
        BY <1>1, <1>2, <1>5, <2>2
      <3> QED
        BY <1>1, <3>1
    <2> QED
      BY <1>1, <2>1, <2>2
  <1> QED
    BY <1>1, <1>2, <1>3, <1>4, <1>5

\* Those that may be counted are finitely many.
LEMMA CountableFinite ==
    ASSUME NEW q, NEW now, NEW a
    PROVE  IsFiniteSet(Countable(q, now, a)) /\ Cardinality(Countable(q, now, a)) \in Nat
  <1>1. Countable(q, now, a) \subseteq Txs
    BY DEF Countable, UsesOf
  <1> QED
    BY <1>1, TxPagesAssumption, FS_Subset, FS_CardinalityType

LEMMA BusyCountedAppended ==
    ASSUME NEW q \in Seq(TxEvent), NEW e \in TxEvent, NEW now, NEW then,
           NEW busy \in [TxAddresses -> Nat],
           TxQueueInv(q, now), BusyCounted(q, now, busy),
           \A t \in Txs : Fits(e, t, now[t], then[t])
    PROVE  BusyCounted(Append(q, e), then, busy)
  <1> DEFINE s == Append(q, e)
             n == Len(q) + 1
  <1>1. /\ n \in DOMAIN s /\ s[n] = e
        /\ \A i \in DOMAIN q : i \in DOMAIN s /\ s[i] = q[i] /\ i < n
        /\ \A i \in DOMAIN s : i \in DOMAIN q \/ i = n
    BY AppendPlaces
  <1> HIDE DEF s, n
  <1>0. \A i \in DOMAIN q : q[i] \in TxEvent /\ q[i].of \in Seq(TxItem)
    BY TxEventsOf
  <1>2. ASSUME NEW a \in TxAddresses
        PROVE  busy[a] <= Cardinality(Countable(s, then, a))
    <2>1. Countable(q, now, a) \subseteq Countable(s, then, a)
      <3> SUFFICES ASSUME NEW t \in Countable(q, now, a)
                   PROVE  t \in Countable(s, then, a)
        OBVIOUS
      <3>1. /\ t \in UsesOf(a) /\ t \in Txs
            /\ now[t] \in UnfinishedStatus \/ \E i \in DOMAIN q : Finishes(q[i], t)
            /\ \A i \in DOMAIN q : ~Adds(q[i], t)
        BY DEF Countable, UsesOf
      <3>2. Fits(e, t, now[t], then[t])
        BY <3>1
      <3>3. now[t] # "unborn"
        <4> SUFFICES ASSUME now[t] = "unborn"
                     PROVE  FALSE
          OBVIOUS
        <4>1. PICK i \in DOMAIN q : Finishes(q[i], t)
          BY <3>1 DEF UnfinishedStatus
        <4>2. t \in IdsOfItems(q[i].of)
          BY <1>0, <4>1, TxIdsOf, TxRowParts DEF Finishes
        <4> QED
          BY <3>1, <4>2 DEF TxQueueInv, AddedOnce
      <3>4. ~Adds(e, t)
        BY <3>2, <3>3 DEF Fits
      <3>5. then[t] \in UnfinishedStatus \/ \E i \in DOMAIN s : Finishes(s[i], t)
        BY <1>1, <3>1, <3>2 DEF Fits
      <3> QED
        BY <1>1, <3>1, <3>4, <3>5 DEF Countable
    <2>2. Cardinality(Countable(q, now, a)) <= Cardinality(Countable(s, then, a))
      BY <2>1, CountableFinite, FS_Subset
    <2>3. busy[a] \in Nat /\ busy[a] <= Cardinality(Countable(q, now, a))
      BY DEF BusyCounted
    <2> QED
      BY <2>2, <2>3, CountableFinite
  <1>3. ASSUME NEW t \in Txs, UsesOf(MyAddr[t]) = {t}, then[t] \in UnfinishedStatus,
               \A i \in DOMAIN s : ~Adds(s[i], t)
        PROVE  busy[MyAddr[t]] > 0
    <2>1. now[t] \in UnfinishedStatus
      BY <1>1, <1>3 DEF Fits
    <2> QED
      BY <1>1, <1>3, <2>1 DEF BusyCounted
  <1> QED
    BY <1>2, <1>3 DEF BusyCounted, s

\* An event is told as the wallet changes, or answers.
LEMMA TxToldKeeps ==
    ASSUME TxInv, NEW e \in TxEvent, TxEventShape(e), txEvents' = Append(txEvents, e),
           txStatus' \in [Txs -> Living \cup {"unborn", "gone"}],
           txCalls' \in Nat, e.action # "Reset" => txCalls' = txCalls,
           UNCHANGED <<txPage, ofPage>>,
           \A t \in Txs : Fits(e, t, txStatus[t], txStatus'[t])
    PROVE  TxInv'
  <1> DEFINE n == Len(txEvents) + 1
  <1>1. txEvents \in Seq(TxEvent)
    BY DEF TxInv, TxTypes
  <1>2. /\ txEvents' \in Seq(TxEvent)
        /\ n \in DOMAIN txEvents' /\ txEvents'[n] = e
        /\ \A i \in DOMAIN txEvents : i \in DOMAIN txEvents' /\ txEvents'[i] = txEvents[i] /\ i < n
        /\ \A i \in DOMAIN txEvents' : i \in DOMAIN txEvents \/ i = n
    BY <1>1, AppendPlaces
  <1> HIDE DEF n
  <1>3. TxTypes'
    BY <1>2 DEF TxInv, TxTypes, ofPage
  <1>4. TxShapes'
    BY <1>2 DEF TxInv, TxShapes, ofPage
  <1>5. TxQueueInv(txEvents', txStatus')
    BY <1>1, TxQueueAppended DEF TxInv
  <1>6. RowsKnown(txEvents', txRows', txStatus')
    <2>1. RowsKnown(Append(txEvents, e), txRows, txStatus')
      BY <1>1, RowsKnownAppended DEF TxInv
    <2> QED
      BY <2>1 DEF ofPage
  <1>7. TxSettled'
    <2> SUFFICES ASSUME txPage \in {"wallet", "swaps"}, txCalls' = 0, NEW t \in Txs,
                        KindOf[t] = PageKind(txPage),
                        \A i \in DOMAIN txEvents' : ~OfTx(txEvents'[i], t)
                 PROVE  \A s \in Living : TxRow(t, s) \in ToSet(txRows) <=> s = txStatus'[t]
      BY DEF TxSettled, ofPage
    <2>1. ~OfTx(e, t)
      BY <1>2
    <2>2. txStatus'[t] = txStatus[t]
      BY <2>1 DEF Fits
    <2>3. txCalls = 0
      BY <2>1 DEF OfTx
    <2>4. \A i \in DOMAIN txEvents : ~OfTx(txEvents[i], t)
      BY <1>2
    <2> QED
      BY <2>2, <2>3, <2>4 DEF TxInv, TxSettled
  <1>8. SwapsCounted'
    BY DEF TxInv, SwapsCounted, ofPage
  <1>9. AddressesCounted'
    <2> SUFFICES ASSUME txPage = "addresses", txCalls' = 0,
                        \A i \in DOMAIN txEvents' : txEvents'[i].action # "Reset"
                 PROVE  BusyCounted(txEvents', txStatus', busyAddresses)
      BY DEF AddressesCounted, ofPage
    <2>1. txCalls = 0 /\ \A i \in DOMAIN txEvents : txEvents[i].action # "Reset"
      BY <1>2
    <2>2. BusyCounted(txEvents, txStatus, busyAddresses)
      BY <2>1 DEF TxInv, AddressesCounted
    <2> QED
      BY <1>1, <2>2, BusyCountedAppended DEF TxInv, TxTypes
  <1> QED
    BY <1>3, <1>4, <1>5, <1>6, <1>7, <1>8, <1>9 DEF TxInv

\* An event of one transaction says nothing of the others.
LEMMA OneTxTold ==
    ASSUME TxInv, NEW t \in Txs, NEW was, NEW s \in Living, NEW action \in {"Added", "Updated", "Removed"},
           txEvents' = Append(txEvents, [action |-> action, of |-> <<[id |-> t, status |-> s]>>]),
           NEW is \in Living \cup {"gone"}, txStatus' = [txStatus EXCEPT ![t] = is],
           was = txStatus[t],
           UNCHANGED <<txCalls, txPage, ofPage>>,
           action = "Added" => was = "unborn" /\ is = s /\ s \in UnfinishedStatus,
           action = "Updated" => /\ was \in Living /\ is = s
                                 /\ s \in UnfinishedStatus => was \in UnfinishedStatus,
           action = "Removed" => was = "done" /\ is = "gone"
    PROVE  TxInv'
  <1> DEFINE e == [action |-> action, of |-> <<TxRow(t, s)>>]
  <1>1. /\ e \in TxEvent /\ e.action = action /\ e.of = <<TxRow(t, s)>>
        /\ TxRow(t, s) \in TxItem /\ txEvents' = Append(txEvents, e)
    <2>1. TxRow(t, s) \in TxItem
      BY DEF TxRow, TxItem
    <2>2. <<TxRow(t, s)>> \in Seq(TxItem)
      BY <2>1
    <2> QED
      BY <2>1, <2>2 DEF TxEvent, TxRow
  <1> HIDE DEF e
  <1>2. /\ TxEventShape(e) /\ ToSet(e.of) = {TxRow(t, s)} /\ IdsOfItems(e.of) = {t}
    BY <1>1, OneTxItem, TxRowParts DEF TxEventShape, UnfinishedStatus
  <1>3. /\ txStatus' \in [Txs -> Living \cup {"unborn", "gone"}] /\ txStatus'[t] = is
        /\ \A u \in Txs : u # t => txStatus'[u] = txStatus[u]
        /\ txCalls \in Nat
    BY DEF TxInv, TxTypes
  <1>5. ASSUME NEW u \in Txs
        PROVE  Fits(e, u, txStatus[u], txStatus'[u])
    <2>1. CASE u = t
      <3>1. /\ t \in IdsOfItems(e.of) /\ TxRow(t, s) \in ToSet(e.of)
            /\ TxRow(t, "done") \in ToSet(e.of) <=> s = "done"
        BY <1>2, TxRowParts
      <3>2. CASE action = "Added"
        BY <1>1, <1>3, <2>1, <3>1, <3>2
           DEF Fits, OfTx, TellsOfTx, Adds, Removes, Mentions, LacksIn, Finishes, UnfinishedStatus, Living
      <3>3. CASE action = "Updated"
        BY <1>1, <1>3, <2>1, <3>1, <3>3
           DEF Fits, OfTx, TellsOfTx, Adds, Removes, Mentions, LacksIn, Finishes, UnfinishedStatus, Living
      <3>4. CASE action = "Removed"
        BY <1>1, <1>3, <2>1, <3>1, <3>4
           DEF Fits, OfTx, TellsOfTx, Adds, Removes, Mentions, LacksIn, Finishes, UnfinishedStatus, Living
      <3> QED
        BY <3>2, <3>3, <3>4
    <2>2. CASE u # t
      <3>1. u \notin IdsOfItems(e.of) /\ \A r : TxRow(u, r) \notin ToSet(e.of)
        BY <1>2, <2>2, TxRowParts
      <3>2. txStatus'[u] = txStatus[u] /\ txStatus[u] \in Living \cup {"unborn", "gone"}
        BY <1>3, <2>2 DEF TxInv, TxTypes
      <3> QED
        BY <1>1, <3>1, <3>2
           DEF Fits, OfTx, TellsOfTx, Adds, Removes, Mentions, LacksIn, Finishes, UnfinishedStatus, Living
    <2> QED
      BY <2>1, <2>2
  <1> QED
    BY <1>1, <1>2, <1>3, <1>5, TxToldKeeps

LEMMA TxWalletKeeps ==
    ASSUME TxInv, NEW t \in Txs,
           \/ \E s \in {"pending", "active"} : TxAdded(t, s)
           \/ \E s \in Living : TxUpdated(t, s)
           \/ TxRemoved(t)
    PROVE  TxInv'
  <1>1. CASE \E s \in {"pending", "active"} : TxAdded(t, s)
    <2>1. PICK s \in {"pending", "active"} : TxAdded(t, s)
      BY <1>1
    <2>2. s \in Living /\ s \in UnfinishedStatus
      BY DEF Living, UnfinishedStatus
    <2> QED
      BY <2>1, <2>2, OneTxTold DEF TxAdded, TellsOf
  <1>2. CASE \E s \in Living : TxUpdated(t, s)
    <2>1. PICK s \in Living : TxUpdated(t, s)
      BY <1>2
    <2>2. txStatus[t] \in Living /\ (s \in UnfinishedStatus => txStatus[t] \in UnfinishedStatus)
      BY <2>1 DEF TxUpdated, InWallet, Living, UnfinishedStatus
    <2> QED
      BY <2>1, <2>2, OneTxTold DEF TxUpdated, TellsOf
  <1>3. CASE TxRemoved(t)
    <2>1. "done" \in Living
      BY DEF Living
    <2> QED
      BY <1>3, <2>1, OneTxTold DEF TxRemoved, TellsOf
  <1> QED
    BY <1>1, <1>2, <1>3

LEMMA RunGetTransactionsKeeps ==
    ASSUME TxInv, RunGetTransactions
    PROVE  TxInv'
  <1> DEFINE N == Cardinality(InWallet)
             q == SetToSeq(InWallet)
             a == [i \in DOMAIN q |-> TxRow(q[i], txStatus[q[i]])]
             e == [action |-> "Reset", of |-> a]
  <1>1. InWallet \subseteq Txs /\ \A t \in Txs : t \in InWallet <=> txStatus[t] \in Living
    BY DEF InWallet
  <1>2. IsFiniteSet(InWallet)
    BY <1>1, TxPagesAssumption, FS_Subset
  <1>3. /\ N \in Nat /\ q \in [1..N -> InWallet]
        /\ \A i, j \in 1..N : i # j => q[i] # q[j]
        /\ \A t \in InWallet : \E i \in 1..N : q[i] = t
    BY <1>2, SetToSeqOf
  <1>4. txEvents' = Append(txEvents, e)
    BY DEF RunGetTransactions, TxRow
  <1>4a. UNCHANGED <<txStatus, txPage, ofPage>> /\ txCalls' \in Nat
    BY DEF RunGetTransactions, TxInv, TxTypes
  <1> HIDE DEF N, q
  <1>5. DOMAIN q = 1..N
    BY <1>3
  <1>6. \A i \in 1..N : TxRow(q[i], txStatus[q[i]]) \in TxItem
    BY <1>1, <1>3 DEF TxRow, TxItem
  <1>7. a \in Seq(TxItem) /\ DOMAIN a = 1..N /\ \A i \in 1..N : a[i] = TxRow(q[i], txStatus[q[i]])
    BY <1>3, <1>5, <1>6
  <1> HIDE DEF a
  <1>8. DistinctIds(a)
    BY <1>3, <1>7, TxRowParts DEF DistinctIds
  <1>9. \A t : t \in IdsOfItems(a) <=> t \in InWallet
    BY <1>3, <1>7, TxRowParts DEF IdsOfItems
  <1>10. \A t \in Txs : \A s \in Living : TxRow(t, s) \in ToSet(a) <=> s = txStatus[t]
    <2> SUFFICES ASSUME NEW t \in Txs, NEW s \in Living
                 PROVE  TxRow(t, s) \in ToSet(a) <=> s = txStatus[t]
      OBVIOUS
    <2>1. TxRow(t, s) \in ToSet(a) <=> \E i \in 1..N : a[i] = TxRow(t, s)
      <3>1. Len(a) = N /\ a \in Seq(TxItem)
        BY <1>3, <1>7
      <3>2. TxRow(t, s) \in ToSet(a) <=> \E i \in 1..Len(a) : a[i] = TxRow(t, s)
        BY <3>1, SeqFacts
      <3> QED
        BY <3>1, <3>2
    <2>2. \A i \in 1..N : a[i] = TxRow(t, s) <=> q[i] = t /\ txStatus[q[i]] = s
      BY <1>7, TxRowParts
    <2>3. s = txStatus[t] => t \in InWallet
      BY <1>1
    <2> QED
      BY <1>3, <2>1, <2>2, <2>3
  <1>11. /\ e.action = "Reset" /\ e.of = a /\ e \in TxEvent
    BY <1>7 DEF TxEvent
  <1> HIDE DEF e
  <1>12. TxEventShape(e)
    BY <1>8, <1>11 DEF TxEventShape
  <1>13. ASSUME NEW t \in Txs
         PROVE  Fits(e, t, txStatus[t], txStatus[t])
    <2>1. t \in IdsOfItems(e.of) <=> txStatus[t] \in Living
      BY <1>1, <1>9, <1>11
    <2>2. \A s \in Living : TxRow(t, s) \in ToSet(e.of) <=> s = txStatus[t]
      BY <1>10, <1>11
    <2>3. HasUnfinished(e, t) <=> txStatus[t] \in UnfinishedStatus
      BY <2>2 DEF HasUnfinished, UnfinishedStatus, Living
    <2>4. txStatus[t] \in UnfinishedStatus => txStatus[t] \in Living
      BY DEF UnfinishedStatus, Living
    <2>5. txStatus[t] = "unborn" => txStatus[t] \notin Living
      BY DEF Living
    <2> QED
      BY <1>11, <2>1, <2>2, <2>3, <2>4, <2>5
         DEF Fits, OfTx, TellsOfTx, Adds, Removes, Mentions, LacksIn, Finishes
  <1>14. txStatus \in [Txs -> Living \cup {"unborn", "gone"}]
    BY DEF TxInv, TxTypes
  <1> QED
    BY <1>4, <1>4a, <1>11, <1>12, <1>13, <1>14, TxToldKeeps

-----------------------------------------------------------------------------
(* What is told is taken from the front. *)

LEMMA TxQueueTaken ==
    ASSUME NEW q \in Seq(TxEvent), q # <<>>, NEW now, TxQueueInv(q, now)
    PROVE  TxQueueInv(Tail(q), now)
  <1> DEFINE s == Tail(q)
  <1>1. /\ s \in Seq(TxEvent) /\ 1 \in DOMAIN q /\ DOMAIN q \subseteq Nat
        /\ \A i \in DOMAIN s : i + 1 \in DOMAIN q /\ s[i] = q[i + 1]
        /\ \A i \in DOMAIN q : i # 1 => i - 1 \in DOMAIN s /\ s[i - 1] = q[i]
    BY TailPlaces
  <1> HIDE DEF s
  <1>2. DOMAIN s \subseteq Nat /\ \A i \in DOMAIN s : i >= 1
    BY <1>1
  <1>3. \A i \in DOMAIN s : \A j \in DOMAIN q : j > i + 1 =>
            j - 1 \in DOMAIN s /\ s[j - 1] = q[j] /\ j - 1 > i
    <2> SUFFICES ASSUME NEW i \in DOMAIN s, NEW j \in DOMAIN q, j > i + 1
                 PROVE  j - 1 \in DOMAIN s /\ s[j - 1] = q[j] /\ j - 1 > i
      OBVIOUS
    <2>1. j # 1 /\ j - 1 > i
      BY <1>1, <1>2
    <2> QED
      BY <1>1, <2>1
  <1>4. LastTellsTx(s, now)
    <2> SUFFICES ASSUME NEW i \in DOMAIN s, NEW t \in Txs, OfTx(s[i], t),
                        \A j \in DOMAIN s : j > i => ~OfTx(s[j], t)
                 PROVE  TellsOfTx(s[i], t, now[t])
      BY DEF LastTellsTx
    <2>1. \A j \in DOMAIN q : j > i + 1 => ~OfTx(q[j], t)
      BY <1>3
    <2> QED
      BY <1>1, <2>1 DEF TxQueueInv, LastTellsTx
  <1>5. AddedOnce(s, now)
    <2> SUFFICES ASSUME NEW t \in Txs
                 PROVE  /\ \A i, j \in DOMAIN s : j < i /\ Adds(s[i], t) => t \notin IdsOfItems(s[j].of)
                        /\ now[t] = "unborn" => \A j \in DOMAIN s : t \notin IdsOfItems(s[j].of)
      BY DEF AddedOnce
    <2>1. /\ \A i, j \in DOMAIN q : j < i /\ Adds(q[i], t) => t \notin IdsOfItems(q[j].of)
          /\ now[t] = "unborn" => \A j \in DOMAIN q : t \notin IdsOfItems(q[j].of)
      BY DEF TxQueueInv, AddedOnce
    <2>2. \A i, j \in DOMAIN s : j < i => j + 1 < i + 1
      BY <1>2
    <2> QED
      BY <1>1, <2>1, <2>2
  <1>6. Withdrawn(s, now)
    <2> SUFFICES ASSUME NEW t \in Txs, NEW k \in DOMAIN s, Mentions(s[k], t)
                 PROVE  /\ now[t] \notin Living => \E j \in DOMAIN s : j > k /\ Removes(s[j], t)
                        /\ \A i \in DOMAIN s : i > k /\ LacksIn(s[i], t) =>
                               \E j \in DOMAIN s : k < j /\ j < i /\ Removes(s[j], t)
      BY DEF Withdrawn
    <2>1. /\ now[t] \notin Living => \E j \in DOMAIN q : j > k + 1 /\ Removes(q[j], t)
          /\ \A i \in DOMAIN q : i > k + 1 /\ LacksIn(q[i], t) =>
                 \E j \in DOMAIN q : k + 1 < j /\ j < i /\ Removes(q[j], t)
      BY <1>1 DEF TxQueueInv, Withdrawn
    <2>2. now[t] \notin Living => \E j \in DOMAIN s : j > k /\ Removes(s[j], t)
      BY <1>3, <2>1
    <2>3. ASSUME NEW i \in DOMAIN s, i > k, LacksIn(s[i], t)
          PROVE  \E j \in DOMAIN s : k < j /\ j < i /\ Removes(s[j], t)
      <3>1. i + 1 \in DOMAIN q /\ i + 1 > k + 1 /\ q[i + 1] = s[i]
        BY <1>1, <1>2, <2>3
      <3>2. PICK j \in DOMAIN q : k + 1 < j /\ j < i + 1 /\ Removes(q[j], t)
        BY <2>1, <2>3, <3>1
      <3>3. j - 1 \in DOMAIN s /\ s[j - 1] = q[j] /\ j - 1 > k
        BY <1>3, <3>2
      <3>4. j - 1 < i
        <4>1. \A m, n \in Nat : m < n + 1 => m - 1 < n
          OBVIOUS
        <4>2. j \in Nat /\ i \in Nat /\ j < i + 1
          BY <1>1, <1>2, <3>2
        <4> QED
          BY <4>1, <4>2, Zenon
      <3> QED
        BY <3>2, <3>3, <3>4
    <2> QED
      BY <2>2, <2>3
  <1>7. OverIsTold(s, now)
    <2> SUFFICES ASSUME NEW t \in Txs, NEW i \in DOMAIN s
                 PROVE  /\ now[t] \in UnfinishedStatus => ~Finishes(s[i], t) /\ ~Removes(s[i], t)
                        /\ /\ now[t] \notin UnfinishedStatus
                           /\ Adds(s[i], t) \/ (s[i].action = "Reset" /\ HasUnfinished(s[i], t))
                           => \E j \in DOMAIN s : j > i /\ Finishes(s[j], t)
                        /\ /\ now[t] \in UnfinishedStatus /\ s[i].action = "Reset"
                           /\ \A j \in DOMAIN s : j > i => ~Adds(s[j], t)
                           => HasUnfinished(s[i], t)
      BY DEF OverIsTold
    <2>1. /\ now[t] \in UnfinishedStatus => ~Finishes(q[i + 1], t) /\ ~Removes(q[i + 1], t)
          /\ /\ now[t] \notin UnfinishedStatus
             /\ Adds(q[i + 1], t) \/ (q[i + 1].action = "Reset" /\ HasUnfinished(q[i + 1], t))
             => \E j \in DOMAIN q : j > i + 1 /\ Finishes(q[j], t)
          /\ /\ now[t] \in UnfinishedStatus /\ q[i + 1].action = "Reset"
             /\ \A j \in DOMAIN q : j > i + 1 => ~Adds(q[j], t)
             => HasUnfinished(q[i + 1], t)
      BY <1>1 DEF TxQueueInv, OverIsTold
    <2>2. (\A j \in DOMAIN s : j > i => ~Adds(s[j], t))
              => \A j \in DOMAIN q : j > i + 1 => ~Adds(q[j], t)
      BY <1>3
    <2>3. (\E j \in DOMAIN q : j > i + 1 /\ Finishes(q[j], t))
              => \E j \in DOMAIN s : j > i /\ Finishes(s[j], t)
      BY <1>3
    <2> QED
      BY <1>1, <2>1, <2>2, <2>3
  <1> QED
    BY <1>4, <1>5, <1>6, <1>7 DEF TxQueueInv, s

\* Rows stay known to the events where none comes or stays that should not.
LEMMA RowsKnownTaken ==
    ASSUME NEW q \in Seq(TxEvent), q # <<>>, NEW now, TxQueueInv(q, now), NEW rows, NEW after,
           RowsKnown(q, rows, now),
           \A t \in IdsOfItems(after) : \/ t \in IdsOfItems(rows) /\ ~Removes(Head(q), t)
                                        \/ Mentions(Head(q), t)
    PROVE  RowsKnown(Tail(q), after, now)
  <1> DEFINE s == Tail(q)
  <1>1. /\ s \in Seq(TxEvent) /\ 1 \in DOMAIN q /\ DOMAIN q \subseteq Nat /\ Head(q) = q[1]
        /\ \A i \in DOMAIN s : i + 1 \in DOMAIN q /\ s[i] = q[i + 1]
        /\ \A i \in DOMAIN q : i # 1 => i - 1 \in DOMAIN s /\ s[i - 1] = q[i]
    BY TailPlaces
  <1> HIDE DEF s
  <1>2. DOMAIN s \subseteq Nat /\ \A i \in DOMAIN s : i >= 1
    BY <1>1
  <1> SUFFICES ASSUME NEW t \in Txs
               PROVE  /\ \A i \in DOMAIN s : Adds(s[i], t) => t \notin IdsOfItems(after)
                      /\ now[t] = "unborn" => t \notin IdsOfItems(after)
                      /\ t \in IdsOfItems(after) =>
                             /\ now[t] \notin Living => \E j \in DOMAIN s : Removes(s[j], t)
                             /\ \A i \in DOMAIN s : LacksIn(s[i], t) =>
                                    \E j \in DOMAIN s : j < i /\ Removes(s[j], t)
    BY DEF RowsKnown, s
  <1>3. t \in IdsOfItems(after) =>
            \/ t \in IdsOfItems(rows) /\ ~Removes(q[1], t)
            \/ Mentions(q[1], t)
    BY <1>1
  <1>4. /\ \A i \in DOMAIN q : Adds(q[i], t) => t \notin IdsOfItems(rows)
        /\ now[t] = "unborn" => t \notin IdsOfItems(rows)
        /\ t \in IdsOfItems(rows) =>
               /\ now[t] \notin Living => \E j \in DOMAIN q : Removes(q[j], t)
               /\ \A i \in DOMAIN q : LacksIn(q[i], t) =>
                      \E j \in DOMAIN q : j < i /\ Removes(q[j], t)
    BY DEF RowsKnown
  <1>5. /\ \A i, j \in DOMAIN q : j < i /\ Adds(q[i], t) => t \notin IdsOfItems(q[j].of)
        /\ now[t] = "unborn" => \A j \in DOMAIN q : t \notin IdsOfItems(q[j].of)
    BY DEF TxQueueInv, AddedOnce
  <1>6. Mentions(q[1], t) =>
            /\ now[t] \notin Living => \E j \in DOMAIN q : j > 1 /\ Removes(q[j], t)
            /\ \A i \in DOMAIN q : i > 1 /\ LacksIn(q[i], t) =>
                   \E j \in DOMAIN q : 1 < j /\ j < i /\ Removes(q[j], t)
    BY <1>1 DEF TxQueueInv, Withdrawn
  <1>7. ASSUME NEW i \in DOMAIN s, Adds(s[i], t), t \in IdsOfItems(after)
        PROVE  FALSE
    <2>1. i + 1 \in DOMAIN q /\ Adds(q[i + 1], t) /\ 1 < i + 1
      BY <1>1, <1>2, <1>7
    <2>2. t \notin IdsOfItems(rows) /\ t \notin IdsOfItems(q[1].of)
      BY <1>1, <1>4, <1>5, <2>1
    <2> QED
      BY <1>3, <1>7, <2>2 DEF Mentions
  <1>8. now[t] = "unborn" => t \notin IdsOfItems(after)
    BY <1>1, <1>3, <1>4, <1>5 DEF Mentions
  <1>9. ASSUME t \in IdsOfItems(after), now[t] \notin Living
        PROVE  \E j \in DOMAIN s : Removes(s[j], t)
    <2>1. PICK j \in DOMAIN q : j # 1 /\ Removes(q[j], t)
      BY <1>1, <1>3, <1>4, <1>6, <1>9
    <2> QED
      BY <1>1, <2>1
  <1>10. ASSUME t \in IdsOfItems(after), NEW i \in DOMAIN s, LacksIn(s[i], t)
         PROVE  \E j \in DOMAIN s : j < i /\ Removes(s[j], t)
    <2>1. i + 1 \in DOMAIN q /\ LacksIn(q[i + 1], t) /\ i + 1 > 1 /\ i \in Nat
      BY <1>1, <1>2, <1>10
    <2>2. PICK j \in DOMAIN q : j # 1 /\ j < i + 1 /\ Removes(q[j], t)
      <3>1. CASE t \in IdsOfItems(rows) /\ ~Removes(q[1], t)
        BY <1>4, <2>1, <3>1
      <3>2. CASE Mentions(q[1], t)
        <4>1. PICK j \in DOMAIN q : 1 < j /\ j < i + 1 /\ Removes(q[j], t)
          BY <1>6, <2>1, <3>2
        <4>2. j # 1
          BY <1>1, <4>1
        <4> QED
          BY <4>1, <4>2
      <3> QED
        BY <1>3, <1>10, <3>1, <3>2
    <2>3. j - 1 \in DOMAIN s /\ s[j - 1] = q[j]
      BY <1>1, <2>2
    <2>4. j - 1 < i
      <3>1. \A m, n \in Nat : m < n + 1 => m - 1 < n
        OBVIOUS
      <3>2. j \in Nat /\ i \in Nat /\ j < i + 1
        BY <1>1, <2>1, <2>2
      <3> QED
        BY <3>1, <3>2, Zenon
    <2> QED
      BY <2>2, <2>3, <2>4
  <1> QED
    BY <1>7, <1>8, <1>9, <1>10

-----------------------------------------------------------------------------
(* The rows of the wallet page's table and of the swaps. *)

\* What an event makes of the rows of one kind.
TxRowsFollow(rows, after, e, kind) ==
    /\ after \in Seq(TxItem) /\ DistinctIds(after)
    /\ \A r \in ToSet(after) : KindOf[r.id] = kind
    /\ \A t \in IdsOfItems(after) : \/ t \in IdsOfItems(rows) /\ ~Removes(e, t)
                                    \/ Mentions(e, t)
    /\ \A t \in Txs : KindOf[t] = kind =>
           \A s \in Living :
               TxRow(t, s) \in ToSet(after) <=>
                   \/ OfTx(e, t) /\ e.action # "Removed" /\ TxRow(t, s) \in ToSet(e.of)
                   \/ ~OfTx(e, t) /\ TxRow(t, s) \in ToSet(rows)

\* Those of a kind are some of the items, each as it was.
LEMMA OfKindOf ==
    ASSUME NEW items \in Seq(TxItem), NEW kind
    PROVE  /\ OfKind(items, kind) \in Seq(TxItem)
           /\ DistinctIds(items) => DistinctIds(OfKind(items, kind))
           /\ \A r : r \in ToSet(OfKind(items, kind)) <=> r \in ToSet(items) /\ KindOf[r.id] = kind
  <1> DEFINE P == {i \in DOMAIN items : KindOf[items[i].id] = kind}
  <1>1. P \in SUBSET DOMAIN items
    OBVIOUS
  <1>2. OfKind(items, kind) = ItemsAt(items, P)
    BY DEF OfKind
  <1>3. \A r : r \in {items[i] : i \in P} <=> r \in ToSet(items) /\ KindOf[r.id] = kind
    BY DEF ToSet
  <1> HIDE DEF P
  <1>4. /\ ItemsAt(items, P) \in Seq(TxItem) /\ ToSet(ItemsAt(items, P)) = {items[i] : i \in P}
    BY <1>1, ItemsAtSet
  <1>5. DistinctIds(items) => DistinctIds(ItemsAt(items, P))
    BY <1>1, ItemsAtDistinct
  <1> QED
    BY <1>2, <1>3, <1>4, <1>5

\* Of a single transaction there is one of its kind, or none.
LEMMA OneOfKind ==
    ASSUME NEW x \in TxItem, NEW kind
    PROVE  OfKind(<<x>>, kind) = IF KindOf[x.id] = kind THEN <<x>> ELSE <<>>
  <1> DEFINE P == {i \in DOMAIN <<x>> : KindOf[<<x>>[i].id] = kind}
  <1>1. OfKind(<<x>>, kind) = ItemsAt(<<x>>, P)
    BY DEF OfKind
  <1>2. P = IF KindOf[x.id] = kind THEN {1} ELSE {}
    OBVIOUS
  <1> HIDE DEF P
  <1> QED
    BY <1>1, <1>2, ItemsAtOne

\* What one transaction of the kind is to the rows.
TxRowAfter(after, rows, x, action) ==
    /\ after \in Seq(TxItem) /\ DistinctIds(after)
    /\ action # "Removed" => ToSet(after) = {r \in ToSet(rows) : r.id # x.id} \cup {x}
    /\ action = "Removed" => ToSet(after) = {r \in ToSet(rows) : r.id # x.id}

LEMMA TxRowAfterOf ==
    ASSUME NEW rows \in Seq(TxItem), DistinctIds(rows), NEW x \in TxItem,
           NEW action \in {"Added", "Updated", "Removed"},
           action = "Added" => x.id \notin IdsOfItems(rows)
    PROVE  TxRowAfter(ListAfter(rows, action, <<x>>), rows, x, action)
  <1>1. OneRow(TxItem, rows, x)
    BY OneRowChanges
  <1>2. CASE action = "Added"
    <2>1. \A r \in ToSet(rows) : r.id # x.id
      BY <1>2, TxIdsOf
    <2>2. ListAfter(rows, action, <<x>>) = ListInsert(rows, <<x>>)
      BY <1>2 DEF ListAfter
    <2>3. ToSet(rows) = {r \in ToSet(rows) : r.id # x.id}
      BY <2>1
    <2> QED
      BY <1>1, <1>2, <2>1, <2>2, <2>3 DEF OneRow, TxRowAfter
  <1>3. CASE action = "Updated"
    <2>1. ListAfter(rows, action, <<x>>) = ListUpdate(rows, <<x>>)
      BY <1>3 DEF ListAfter
    <2> QED
      BY <1>1, <1>3, <2>1 DEF OneRow, TxRowAfter
  <1>4. CASE action = "Removed"
    <2>1. ListAfter(rows, action, <<x>>) = ListRemove(rows, <<x>>)
      BY <1>4 DEF ListAfter
    <2> QED
      BY <1>1, <1>4, <2>1 DEF OneRow, TxRowAfter
  <1> QED
    BY <1>2, <1>3, <1>4

LEMMA NoneOfKind ==
    ASSUME NEW rows \in Seq(TxItem), NEW x \in TxItem,
           NEW action \in {"Added", "Updated", "Removed"}
    PROVE  ListAfter(rows, action, <<>>) = rows
  <1>1. rows \o <<>> = rows
    OBVIOUS
  <1>2. CASE action = "Added"
    BY <1>1, <1>2 DEF ListAfter, ListInsert
  <1>3. CASE action = "Updated"
    <2>1. ListAfter(rows, action, <<>>) = ListUpdate(rows, <<>>)
      BY <1>3 DEF ListAfter
    <2>2. ListUpdate(rows, <<>>) = rows
      BY ListUpdateOne
    <2> QED
      BY <2>1, <2>2
  <1>4. CASE action = "Removed"
    <2>1. ListAfter(rows, action, <<>>) = ListRemove(rows, <<>>)
      BY <1>4 DEF ListAfter
    <2>2. ListRemove(rows, <<>>) = rows
      BY ListRemoveOne
    <2> QED
      BY <2>1, <2>2
  <1> QED
    BY <1>2, <1>3, <1>4

LEMMA ListAfterFollows ==
    ASSUME NEW rows \in Seq(TxItem), DistinctIds(rows), NEW e \in TxEvent, TxEventShape(e),
           NEW kind, \A r \in ToSet(rows) : KindOf[r.id] = kind,
           \A t \in Txs : Adds(e, t) => t \notin IdsOfItems(rows)
    PROVE  TxRowsFollow(rows, ListAfter(rows, e.action, OfKind(e.of, kind)), e, kind)
  <1> DEFINE items == OfKind(e.of, kind)
             after == ListAfter(rows, e.action, items)
  <1>0. e.of \in Seq(TxItem) /\ DistinctIds(e.of) /\ e.action \in {"Reset", "Added", "Updated", "Removed"}
    BY DEF TxEvent, TxEventShape
  <1>1. CASE e.action = "Reset"
    <2>1. /\ items \in Seq(TxItem) /\ DistinctIds(items)
          /\ \A r : r \in ToSet(items) <=> r \in ToSet(e.of) /\ KindOf[r.id] = kind
      BY <1>0, OfKindOf
    <2>2. after = ListReset(items)
      BY <1>1 DEF ListAfter
    <2> HIDE DEF items, after
    <2>3. after \in Seq(TxItem) /\ ToSet(after) = ToSet(items) /\ DistinctIds(after)
      BY <2>1, <2>2, ListResetOf
    <2>4. \A t \in IdsOfItems(after) : Mentions(e, t)
      BY <1>0, <1>1, <2>1, <2>3, TxIdsOf DEF Mentions
    <2> QED
      BY <1>1, <2>1, <2>3, <2>4, TxRowParts DEF TxRowsFollow, OfTx, after, items
  <1>2. CASE e.action # "Reset"
    <2>1. PICK x \in TxItem : e.of = <<x>>
      BY <1>2 DEF TxEventShape
    <2>2. /\ ToSet(e.of) = {x} /\ IdsOfItems(e.of) = {x.id} /\ x = TxRow(x.id, x.status)
          /\ x.id \in Txs
      BY <2>1, OneTxItem DEF TxItem
    <2>3. e.action \in {"Added", "Updated", "Removed"}
      BY <1>0, <1>2
    <2>4. items = IF KindOf[x.id] = kind THEN <<x>> ELSE <<>>
      BY <2>1, OneOfKind
    <2> HIDE DEF items
    <2>5. CASE KindOf[x.id] = kind
      <3>1. e.action = "Added" => x.id \notin IdsOfItems(rows)
        BY <2>2 DEF Adds
      <3>2. TxRowAfter(after, rows, x, e.action)
        BY <2>3, <2>4, <2>5, <3>1, TxRowAfterOf
      <3> HIDE DEF after
      <3>3. /\ after \in Seq(TxItem) /\ DistinctIds(after)
            /\ \A r : r \in ToSet(after) <=> \/ r \in ToSet(rows) /\ r.id # x.id
                                             \/ r = x /\ e.action # "Removed"
        BY <3>2 DEF TxRowAfter
      <3>4. \A t \in IdsOfItems(after) : \/ t \in IdsOfItems(rows) /\ ~Removes(e, t)
                                         \/ Mentions(e, t)
        <4> SUFFICES ASSUME NEW t \in IdsOfItems(after)
                     PROVE  \/ t \in IdsOfItems(rows) /\ ~Removes(e, t)
                            \/ Mentions(e, t)
          OBVIOUS
        <4>1. PICK r \in ToSet(after) : r.id = t
          BY <3>3, TxIdsOf
        <4>2. r \in ToSet(rows) => t \in IdsOfItems(rows)
          BY <4>1, TxIdsOf
        <4> QED
          BY <2>2, <3>3, <4>1, <4>2 DEF Removes, Mentions
      <3>5. \A t \in Txs : OfTx(e, t) <=> t = x.id
        BY <1>2, <2>2 DEF OfTx
      <3>6. ASSUME NEW t \in Txs, NEW s \in Living
            PROVE  TxRow(t, s) \in ToSet(after) <=>
                       \/ OfTx(e, t) /\ e.action # "Removed" /\ TxRow(t, s) \in ToSet(e.of)
                       \/ ~OfTx(e, t) /\ TxRow(t, s) \in ToSet(rows)
        <4>1. TxRow(t, s).id = t
          BY TxRowParts
        <4>2. TxRow(t, s) = x => t = x.id
          BY <4>1
        <4> QED
          BY <2>2, <3>3, <3>5, <4>1, <4>2
      <3>7. \A r \in ToSet(after) : KindOf[r.id] = kind
        BY <2>5, <3>3
      <3> QED
        BY <3>3, <3>4, <3>6, <3>7 DEF TxRowsFollow, after, items
    <2>6. CASE KindOf[x.id] # kind
      <3>1. after = rows
        BY <2>3, <2>4, <2>6, NoneOfKind
      <3>2. \A t \in IdsOfItems(rows) : t \in Txs /\ KindOf[t] = kind
        BY TxIdsOf
      <3>3. \A t \in Txs : OfTx(e, t) <=> t = x.id
        BY <1>2, <2>2 DEF OfTx
      <3> HIDE DEF after
      <3>4. \A t \in IdsOfItems(after) : t \in IdsOfItems(rows) /\ ~Removes(e, t)
        BY <2>2, <2>6, <3>1, <3>2 DEF Removes
      <3> QED
        BY <2>6, <3>1, <3>3, <3>4 DEF TxRowsFollow, after, items
    <2> QED
      BY <2>5, <2>6
  <1> QED
    BY <1>1, <1>2

\* The first event of a queue that is not empty.
LEMMA HeadTxEvent ==
    ASSUME TxInv, txEvents # <<>>
    PROVE  /\ Head(txEvents) = txEvents[1] /\ 1 \in DOMAIN txEvents
           /\ DOMAIN txEvents \subseteq Nat /\ txEvents \in Seq(TxEvent)
           /\ Head(txEvents) \in TxEvent /\ TxEventShape(Head(txEvents))
           /\ Head(txEvents).of \in Seq(TxItem) /\ DistinctIds(Head(txEvents).of)
           /\ \A t \in Txs : Adds(Head(txEvents), t) \/ LacksIn(Head(txEvents), t)
                             => t \notin IdsOfItems(txRows)
  <1>1. txEvents \in Seq(TxEvent)
    BY DEF TxInv, TxTypes
  <1>2. Head(txEvents) = txEvents[1] /\ 1 \in DOMAIN txEvents /\ DOMAIN txEvents \subseteq Nat
        /\ \A j \in DOMAIN txEvents : ~(j < 1)
    <2>1. Head(txEvents) = txEvents[1] /\ 1 \in DOMAIN txEvents /\ DOMAIN txEvents \subseteq Nat
      BY <1>1, TailPlaces
    <2>2. \A j \in DOMAIN txEvents : ~(j < 1)
      BY <1>1
    <2> QED
      BY <2>1, <2>2
  <1>3. txEvents[1] \in TxEvent /\ txEvents[1].of \in Seq(TxItem)
    BY <1>1, <1>2, TxEventsOf
  <1>4. TxEventShape(txEvents[1])
    BY <1>2 DEF TxInv, TxShapes
  <1>5. \A t \in Txs : Adds(txEvents[1], t) \/ LacksIn(txEvents[1], t)
                       => t \notin IdsOfItems(txRows)
    BY <1>2 DEF TxInv, RowsKnown
  <1> QED
    BY <1>1, <1>2, <1>3, <1>4, <1>5 DEF TxEventShape

\* Taking an event away leaves what the others say.
LEMMA TxTakenKeeps ==
    ASSUME TxInv, txEvents # <<>>, txEvents' = Tail(txEvents),
           UNCHANGED <<txStatus, txCalls, txPage>>,
           \/ /\ txPage \in {"wallet", "swaps"}
              /\ TxRowsFollow(txRows, txRows', Head(txEvents), PageKind(txPage))
           \/ txPage \notin {"wallet", "swaps"} /\ txRows' = txRows,
           activeTx' \subseteq Txs, activeCounter' \in Int,
           busyAddresses' \in [TxAddresses -> Nat],
           SwapsCounted', AddressesCounted'
    PROVE  TxInv'
  <1> DEFINE e == Head(txEvents)
  <1>1. /\ e = txEvents[1] /\ 1 \in DOMAIN txEvents
        /\ DOMAIN txEvents \subseteq Nat /\ txEvents \in Seq(TxEvent)
        /\ e \in TxEvent /\ TxEventShape(e)
        /\ e.of \in Seq(TxItem) /\ DistinctIds(e.of)
    BY HeadTxEvent
  <1>2. /\ txEvents' \in Seq(TxEvent)
        /\ \A i \in DOMAIN txEvents' :
               i + 1 \in DOMAIN txEvents /\ txEvents'[i] = txEvents[i + 1]
        /\ \A i \in DOMAIN txEvents : i # 1 =>
               i - 1 \in DOMAIN txEvents' /\ txEvents'[i - 1] = txEvents[i]
    BY <1>1, TailPlaces
  <1> HIDE DEF e
  <1>3. CASE txPage \notin {"wallet", "swaps"} /\ txRows' = txRows
    <2>1. txRows = <<>> /\ txRows' = <<>>
      BY <1>3 DEF TxInv, TxShapes
    <2>2. /\ txRows' \in Seq(TxItem) /\ DistinctIds(txRows') /\ ToSet(txRows') = {}
          /\ IdsOfItems(txRows') = {}
      BY <2>1 DEF DistinctIds, ToSet, IdsOfItems
    <2>3. TxTypes' /\ TxShapes'
      BY <1>2, <2>1, <2>2 DEF TxInv, TxTypes, TxShapes
    <2>4. TxQueueInv(txEvents', txStatus)
      BY <1>1, TxQueueTaken DEF TxInv
    <2>5. RowsKnown(txEvents', txRows', txStatus)
      BY <2>2 DEF RowsKnown
    <2>6. TxSettled'
      BY <1>3 DEF TxSettled
    <2> QED
      BY <2>3, <2>4, <2>5, <2>6 DEF TxInv
  <1>4. CASE /\ txPage \in {"wallet", "swaps"}
             /\ TxRowsFollow(txRows, txRows', e, PageKind(txPage))
    <2>1. /\ txRows' \in Seq(TxItem) /\ DistinctIds(txRows')
          /\ \A r \in ToSet(txRows') : KindOf[r.id] = PageKind(txPage)
          /\ \A t \in IdsOfItems(txRows') : \/ t \in IdsOfItems(txRows) /\ ~Removes(e, t)
                                            \/ Mentions(e, t)
          /\ \A t \in Txs : KindOf[t] = PageKind(txPage) =>
                 \A s \in Living :
                     TxRow(t, s) \in ToSet(txRows') <=>
                         \/ OfTx(e, t) /\ e.action # "Removed" /\ TxRow(t, s) \in ToSet(e.of)
                         \/ ~OfTx(e, t) /\ TxRow(t, s) \in ToSet(txRows)
      BY <1>4 DEF TxRowsFollow
    <2>2. TxTypes'
      BY <1>2, <2>1 DEF TxInv, TxTypes
    <2>3. TxShapes'
      BY <1>2, <1>4, <2>1 DEF TxInv, TxShapes
    <2>4. TxQueueInv(txEvents', txStatus)
      BY <1>1, TxQueueTaken DEF TxInv
    <2>5. RowsKnown(txEvents', txRows', txStatus)
      BY <1>1, <2>1, RowsKnownTaken DEF TxInv, e
    <2>6. TxSettled'
      <3> SUFFICES ASSUME txCalls = 0, NEW t \in Txs, KindOf[t] = PageKind(txPage),
                          \A i \in DOMAIN txEvents' : ~OfTx(txEvents'[i], t),
                          NEW s \in Living
                   PROVE  TxRow(t, s) \in ToSet(txRows') <=> s = txStatus[t]
        BY DEF TxSettled
      <3>1. \A i \in DOMAIN txEvents : i # 1 => ~OfTx(txEvents[i], t)
        BY <1>2
      <3>2. CASE OfTx(e, t)
        <4>1. \A j \in DOMAIN txEvents : j > 1 => ~OfTx(txEvents[j], t)
          <5>1. \A j \in DOMAIN txEvents : j > 1 => j # 1
            BY <1>1
          <5> QED
            BY <3>1, <5>1
        <4>2. TellsOfTx(e, t, txStatus[t])
          BY <1>1, <3>2, <4>1 DEF TxInv, TxQueueInv, LastTellsTx
        <4>3. TxRow(t, s) \in ToSet(txRows') <=>
                  e.action # "Removed" /\ TxRow(t, s) \in ToSet(e.of)
          BY <2>1, <3>2
        <4>4. TxRow(t, s) \in ToSet(e.of) => t \in IdsOfItems(e.of)
          BY <1>1, TxIdsOf, TxRowParts
        <4>5. CASE txStatus[t] \in Living
          <5>1. e.action # "Removed" /\ TxRow(t, txStatus[t]) \in ToSet(e.of)
            BY <4>2, <4>5 DEF TellsOfTx
          <5>2. TxRow(t, s) \in ToSet(e.of) => TxRow(t, s) = TxRow(t, txStatus[t])
            <6>1. TxRow(t, s).id = TxRow(t, txStatus[t]).id
              BY TxRowParts
            <6> QED
              BY <1>1, <5>1, <6>1, OneTxRow
          <5>3. TxRow(t, s) = TxRow(t, txStatus[t]) => s = txStatus[t]
            BY TxRowParts
          <5> QED
            BY <4>3, <5>1, <5>2, <5>3
        <4>6. CASE txStatus[t] \notin Living
          BY <4>2, <4>3, <4>4, <4>6 DEF TellsOfTx
        <4> QED
          BY <4>5, <4>6
      <3>3. CASE ~OfTx(e, t)
        <4>1. \A i \in DOMAIN txEvents : ~OfTx(txEvents[i], t)
          BY <1>1, <3>1, <3>3
        <4>2. TxRow(t, s) \in ToSet(txRows) <=> s = txStatus[t]
          BY <1>4, <4>1 DEF TxInv, TxSettled
        <4> QED
          BY <2>1, <3>3, <4>2
      <3> QED
        BY <3>2, <3>3
    <2> QED
      BY <2>2, <2>3, <2>4, <2>5, <2>6 DEF TxInv
  <1> QED
    BY <1>3, <1>4 DEF e

LEMMA NobodyHearsKeeps ==
    ASSUME TxInv, NobodyHears
    PROVE  TxInv'
  <1>1. /\ txEvents # <<>> /\ txEvents' = Tail(txEvents) /\ txPage = "none"
        /\ UNCHANGED <<txStatus, txCalls, txPage, txRows, activeTx, activeCounter, busyAddresses>>
    BY DEF NobodyHears, Heard, ofPage
  <1>2. SwapsCounted' /\ AddressesCounted'
    BY <1>1 DEF SwapsCounted, AddressesCounted
  <1> QED
    BY <1>1, <1>2, TxTakenKeeps DEF TxInv, TxTypes

\* The table and the swaps take in what is told of their kind.
LEMMA RowsFollowPage ==
    ASSUME TxInv, txEvents # <<>>, txPage \in {"wallet", "swaps"}, NEW after,
           after = ListAfter(txRows, Head(txEvents).action,
                             OfKind(Head(txEvents).of, PageKind(txPage)))
    PROVE  TxRowsFollow(txRows, after, Head(txEvents), PageKind(txPage))
  <1> DEFINE e == Head(txEvents)
  <1>1. /\ e \in TxEvent /\ TxEventShape(e)
        /\ \A t \in Txs : Adds(e, t) => t \notin IdsOfItems(txRows)
    BY HeadTxEvent
  <1>2. /\ txRows \in Seq(TxItem) /\ DistinctIds(txRows)
        /\ \A r \in ToSet(txRows) : KindOf[r.id] = PageKind(txPage)
    BY DEF TxInv, TxTypes, TxShapes
  <1>3. after = ListAfter(txRows, e.action, OfKind(e.of, PageKind(txPage)))
    OBVIOUS
  <1> HIDE DEF e
  <1>4. TxRowsFollow(txRows, after, e, PageKind(txPage))
    BY <1>1, <1>2, <1>3, ListAfterFollows
  <1> QED
    BY <1>4 DEF e

LEMMA OnTransactionsChangedKeeps ==
    ASSUME TxInv, OnTransactionsChanged
    PROVE  TxInv'
  <1>1. /\ txEvents # <<>> /\ txEvents' = Tail(txEvents) /\ txPage = "wallet"
        /\ UNCHANGED <<txStatus, txCalls, txPage, activeTx, activeCounter, busyAddresses>>
        /\ PageKind(txPage) = "simple"
    BY DEF OnTransactionsChanged, Heard, PageKind
  <1>2. TxRowsFollow(txRows, txRows', Head(txEvents), PageKind(txPage))
    BY <1>1, RowsFollowPage DEF OnTransactionsChanged
  <1>3. SwapsCounted' /\ AddressesCounted'
    BY <1>1 DEF SwapsCounted, AddressesCounted
  <1> QED
    BY <1>1, <1>2, <1>3, TxTakenKeeps DEF TxInv, TxTypes

-----------------------------------------------------------------------------
(* The counter of active swaps. *)

\* Some come in and some go: the number moves by as many.
LEMMA CountMoves ==
    ASSUME NEW B, IsFiniteSet(B), NEW S, IsFiniteSet(S), S \cap B = {}, NEW X \in SUBSET B
    PROVE  /\ Cardinality((B \cup S) \ X) = Cardinality(B) + Cardinality(S) - Cardinality(X)
           /\ Cardinality(B) \in Nat /\ Cardinality(S) \in Nat /\ Cardinality(X) \in Nat
  <1>1. IsFiniteSet(X) /\ IsFiniteSet(B \cup S)
    BY FS_Subset, FS_Union
  <1>2. /\ Cardinality(B) \in Nat /\ Cardinality(S) \in Nat /\ Cardinality(X) \in Nat
        /\ Cardinality(B \cup S) \in Nat
    BY <1>1, FS_CardinalityType
  <1>3. Cardinality(B \cup S) = Cardinality(B) + Cardinality(S) - Cardinality(B \cap S)
    BY FS_Union
  <1>4. Cardinality(B \cap S) = 0
    <2>1. B \cap S = {}
      OBVIOUS
    <2> QED
      BY <2>1, FS_EmptySet
  <1>5. Cardinality((B \cup S) \ X) = Cardinality(B \cup S) - Cardinality((B \cup S) \cap X)
    BY <1>1, FS_Difference
  <1>6. (B \cup S) \cap X = X
    OBVIOUS
  <1>7. Cardinality((B \cup S) \cap X) = Cardinality(X)
    BY <1>6
  <1> HIDE <1>6
  <1> QED
    BY <1>2, <1>3, <1>4, <1>5, <1>7

\* What one swap is to the active ones.
LEMMA ActiveIdsAfter ==
    ASSUME NEW rows, NEW after, NEW x, NEW action, TxRowAfter(after, rows, x, action)
    PROVE  ActiveIds(after) =
               (ActiveIds(rows) \ {x.id})
               \cup (IF action # "Removed" /\ x.status = "active" THEN {x.id} ELSE {})
  <1>1. CASE action = "Removed"
    BY <1>1 DEF TxRowAfter, ActiveIds
  <1>2. CASE action # "Removed"
    BY <1>2 DEF TxRowAfter, ActiveIds
  <1> QED
    BY <1>1, <1>2

LEMMA OnSwapTransactionsKeeps ==
    ASSUME TxInv, OnSwapTransactions
    PROVE  TxInv'
  <1> DEFINE e == Head(txEvents)
             action == e.action
             swaps == OfKind(e.of, "swap")
             active == {swaps[i].id : i \in {i \in DOMAIN swaps : swaps[i].status = "active"}}
             before == IF action = "Reset" THEN {} ELSE activeTx
             counted == IF action = "Reset" THEN 0 ELSE activeCounter
             started == IF action = "Removed" THEN {} ELSE active \ before
             stopped == CASE action = "Removed" -> IdsOfItems(swaps) \cap before
                          [] action = "Updated" -> (IdsOfItems(swaps) \ active) \cap before
                          [] OTHER -> {}
  <1>1. /\ txEvents # <<>> /\ txEvents' = Tail(txEvents) /\ txPage = "swaps"
        /\ UNCHANGED <<txStatus, txCalls, txPage, busyAddresses>>
        /\ PageKind(txPage) = "swap"
    BY DEF OnSwapTransactions, Heard, PageKind
  <1>2. IF swaps = <<>>
        THEN UNCHANGED <<txRows, activeTx, activeCounter>>
        ELSE /\ txRows' = ListAfter(txRows, action, swaps)
             /\ activeTx' = (before \cup started) \ stopped
             /\ activeCounter' = counted + Cardinality(started) - Cardinality(stopped)
    BY DEF OnSwapTransactions
  <1>3. /\ e \in TxEvent /\ TxEventShape(e) /\ e.of \in Seq(TxItem) /\ DistinctIds(e.of)
        /\ \A t \in Txs : Adds(e, t) \/ LacksIn(e, t) => t \notin IdsOfItems(txRows)
        /\ action \in {"Reset", "Added", "Updated", "Removed"}
    <2>1. \A f \in TxEvent : f.action \in {"Reset", "Added", "Updated", "Removed"}
      BY DEF TxEvent
    <2> QED
      BY <1>1, <2>1, HeadTxEvent
  <1>4. /\ txRows \in Seq(TxItem) /\ DistinctIds(txRows)
        /\ \A r \in ToSet(txRows) : KindOf[r.id] = "swap"
        /\ activeTx = ActiveIds(txRows) /\ activeCounter = Cardinality(activeTx)
        /\ activeTx \subseteq Txs /\ activeCounter \in Int
    BY <1>1 DEF TxInv, TxTypes, TxShapes, SwapsCounted
  <1>5. /\ swaps \in Seq(TxItem)
        /\ \A r : r \in ToSet(swaps) <=> r \in ToSet(e.of) /\ KindOf[r.id] = "swap"
    BY <1>3, OfKindOf
  <1>6. AddressesCounted'
    BY <1>1 DEF AddressesCounted
  <1>7. IsFiniteSet(Txs) /\ IsFiniteSet(activeTx)
    BY <1>4, TxPagesAssumption, FS_Subset
  <1>8. \A x \in TxItem : x.id \in Txs
    BY DEF TxItem
  <1> HIDE DEF e, swaps
  <1>9. CASE swaps = <<>>
    <2>1. ToSet(swaps) = {}
      BY <1>9 DEF ToSet
    <2>2. txRows = ListAfter(txRows, action, swaps)
      <3>1. CASE action = "Reset"
        <4>1. ASSUME NEW r \in ToSet(txRows)
              PROVE  FALSE
          <5>1. r.id \in IdsOfItems(txRows) /\ r.id \in Txs /\ KindOf[r.id] = "swap"
            BY <1>4, TxIdsOf
          <5>2. r.id \in IdsOfItems(e.of)
            BY <1>3, <3>1, <5>1 DEF LacksIn
          <5>3. PICK x \in ToSet(e.of) : x.id = r.id
            BY <1>3, <5>2, TxIdsOf
          <5> QED
            BY <1>5, <2>1, <5>1, <5>3
        <4>2. txRows = <<>>
          <5>1. \A i \in DOMAIN txRows : txRows[i] \in ToSet(txRows)
            BY DEF ToSet
          <5>2. DOMAIN txRows = {}
            BY <4>1, <5>1
          <5> QED
            BY <1>4, <5>2
        <4>3. ListAfter(txRows, action, swaps) = ListReset(<<>>)
          BY <1>9, <3>1 DEF ListAfter
        <4>4. ListReset(<<>>) = <<>>
          <5>1. ListReset(swaps) \in Seq(TxItem) /\ Len(ListReset(swaps)) = Len(swaps)
            BY <1>5, ListResetOf
          <5>2. Len(swaps) = 0
            BY <1>9
          <5>3. ListReset(swaps) = <<>>
            BY <5>1, <5>2
          <5> QED
            BY <1>9, <5>3
        <4> QED
          BY <4>2, <4>3, <4>4
      <3>2. CASE action # "Reset"
        <4>1. action \in {"Added", "Updated", "Removed"} /\ \E x \in TxItem : TRUE
          BY <1>3, <3>2 DEF TxEventShape
        <4>2. ListAfter(txRows, action, <<>>) = txRows
          BY <1>4, <4>1, NoneOfKind
        <4> QED
          BY <1>9, <4>2
      <3> QED
        BY <3>1, <3>2
    <2>3. txRows' = txRows /\ UNCHANGED <<activeTx, activeCounter>>
      BY <1>2, <1>9
    <2>4. TxRowsFollow(txRows, txRows', Head(txEvents), PageKind(txPage))
      BY <1>1, <2>2, <2>3, RowsFollowPage DEF e, swaps
    <2>5. SwapsCounted'
      BY <1>1, <2>3 DEF TxInv, SwapsCounted
    <2> QED
      BY <1>1, <1>6, <2>3, <2>4, <2>5, TxTakenKeeps DEF TxInv, TxTypes
  <1>10. CASE swaps # <<>>
    <2>1. txRows' = ListAfter(txRows, action, swaps)
      BY <1>2, <1>10
    <2>2. TxRowsFollow(txRows, txRows', Head(txEvents), PageKind(txPage))
      BY <1>1, <2>1, RowsFollowPage DEF e, swaps
    <2>3. /\ activeTx' = ActiveIds(txRows') /\ activeCounter' = Cardinality(activeTx')
          /\ activeTx' \subseteq Txs /\ activeCounter' \in Int
      <3>1. CASE action = "Reset"
        <4>1. active = ActiveIds(swaps)
          BY DEF ActiveIds, ToSet
        <4>2. ToSet(txRows') = ToSet(swaps)
          <5>1. txRows' = ListReset(swaps)
            BY <2>1, <3>1 DEF ListAfter
          <5> QED
            BY <1>5, <5>1, ListResetOf
        <4>3. before = {} /\ counted = 0 /\ stopped = {} /\ started = active
          BY <3>1
        <4>4. /\ activeTx' = active
              /\ activeCounter' = 0 + Cardinality(active) - Cardinality({})
          <5> HIDE DEF before, counted, stopped, started, active
          <5> QED
            BY <1>2, <1>10, <4>3
        <4>5. ActiveIds(swaps) \subseteq Txs
          BY <1>5, <1>8, SeqFacts DEF ActiveIds
        <4>6. ActiveIds(txRows') = ActiveIds(swaps)
          BY <4>2 DEF ActiveIds
        <4> HIDE DEF active
        <4>7. IsFiniteSet(active) /\ Cardinality(active) \in Nat /\ Cardinality({}) = 0
          BY <1>7, <4>1, <4>5, FS_Subset, FS_CardinalityType, FS_EmptySet
        <4> QED
          BY <4>1, <4>4, <4>5, <4>6, <4>7
      <3>2. CASE action # "Reset"
        <4>1. PICK x \in TxItem : e.of = <<x>>
          BY <1>3, <3>2 DEF TxEventShape
        <4>2. swaps = <<x>> /\ KindOf[x.id] = "swap"
          BY <1>10, <4>1, OneOfKind DEF swaps
        <4>3. action \in {"Added", "Updated", "Removed"}
          BY <1>3, <3>2
        <4>4. action = "Added" => x.id \notin IdsOfItems(txRows)
          BY <1>3, <1>8, <4>1, OneTxItem DEF Adds
        <4>5. TxRowAfter(txRows', txRows, x, action)
          BY <1>4, <2>1, <4>2, <4>3, <4>4, TxRowAfterOf
        <4>6. ActiveIds(txRows') =
                  (activeTx \ {x.id})
                  \cup (IF action # "Removed" /\ x.status = "active" THEN {x.id} ELSE {})
          BY <1>4, <4>5, ActiveIdsAfter
        <4>7. action = "Added" => x.id \notin activeTx
          <5>1. \A r \in ToSet(txRows) : r.id \in IdsOfItems(txRows)
            BY <1>4, TxIdsOf
          <5> QED
            BY <1>4, <4>4, <5>1 DEF ActiveIds
        <4>8. /\ active = IF x.status = "active" THEN {x.id} ELSE {}
              /\ IdsOfItems(swaps) = {x.id}
          BY <4>2, OneTxItem
        <4>9. before = activeTx /\ counted = activeCounter
          BY <3>2
        <4>10. IsFiniteSet(started) /\ started \cap activeTx = {} /\ stopped \in SUBSET activeTx
               /\ started \subseteq {x.id}
          <5>1. started \subseteq {x.id} /\ started \cap activeTx = {}
            BY <4>8, <4>9
          <5>2. IsFiniteSet(started)
            <6>1. IsFiniteSet({x.id})
              BY FS_Singleton, Zenon
            <6>2. started \in SUBSET {x.id}
              BY <5>1
            <6> HIDE DEF started
            <6> QED
              BY <6>1, <6>2, FS_Subset
          <5>3. stopped \in SUBSET activeTx
            BY <4>3, <4>9
          <5> QED
            BY <5>1, <5>2, <5>3
        <4>11. (activeTx \cup started) \ stopped = ActiveIds(txRows')
          <5>1. CASE action = "Added"
            BY <4>6, <4>7, <4>8, <4>9, <5>1
          <5>2. CASE action = "Updated"
            BY <4>6, <4>8, <4>9, <5>2
          <5>3. CASE action = "Removed"
            BY <4>6, <4>8, <4>9, <5>3
          <5> QED
            BY <4>3, <5>1, <5>2, <5>3
        <4>12. activeTx' = (activeTx \cup started) \ stopped
               /\ activeCounter' = activeCounter + Cardinality(started) - Cardinality(stopped)
          <5> HIDE DEF before, counted, stopped, started
          <5> QED
            BY <1>2, <1>10, <4>9
        <4> HIDE DEF stopped, started
        <4>13. /\ Cardinality(activeTx') =
                      Cardinality(activeTx) + Cardinality(started) - Cardinality(stopped)
               /\ Cardinality(activeTx) \in Nat /\ Cardinality(started) \in Nat
               /\ Cardinality(stopped) \in Nat
          BY <1>7, <4>10, <4>12, CountMoves
        <4>14. activeTx' \subseteq Txs
          BY <1>4, <1>8, <4>10, <4>12
        <4> QED
          BY <1>4, <4>11, <4>12, <4>13, <4>14
      <3> QED
        BY <3>1, <3>2
    <2>4. SwapsCounted'
      BY <2>3 DEF SwapsCounted
    <2> QED
      BY <1>1, <1>6, <2>2, <2>3, <2>4, TxTakenKeeps DEF TxInv, TxTypes
  <1> QED
    BY <1>9, <1>10

-----------------------------------------------------------------------------
(* The addresses that are in use. *)

\* What an item makes of the addresses.
BusyChanges(busy, action, tx, after) ==
    /\ after \in [TxAddresses -> Nat]
    /\ \A b \in TxAddresses : b # MyAddr[tx.id] => after[b] = busy[b]
    /\ action \in {"Reset", "Added"} =>
           after[MyAddr[tx.id]] = busy[MyAddr[tx.id]] + (IF tx.status # "done" THEN 1 ELSE 0)
    /\ action = "Updated" /\ tx.status # "done" => after[MyAddr[tx.id]] = busy[MyAddr[tx.id]]
    /\ action = "Removed" \/ (action = "Updated" /\ tx.status = "done") =>
           after[MyAddr[tx.id]] = IF busy[MyAddr[tx.id]] > 0 THEN busy[MyAddr[tx.id]] - 1 ELSE 0

LEMMA BusyAfterOf ==
    ASSUME NEW busy \in [TxAddresses -> Nat], NEW tx \in TxItem,
           NEW action \in {"Reset", "Added", "Updated", "Removed"}
    PROVE  BusyChanges(busy, action, tx, BusyAfter(busy, action, tx))
  <1>1. MyAddr[tx.id] \in TxAddresses
    BY TxPagesAssumption DEF TxItem
  <1>2. busy[MyAddr[tx.id]] \in Nat
    BY <1>1
  <1>3. CASE action \in {"Reset", "Added"}
    BY <1>1, <1>2, <1>3 DEF BusyAfter, BusyChanges
  <1>4. CASE action = "Updated"
    BY <1>1, <1>2, <1>4 DEF BusyAfter, BusyChanges
  <1>5. CASE action = "Removed"
    BY <1>1, <1>2, <1>5 DEF BusyAfter, BusyChanges
  <1> QED
    BY <1>3, <1>4, <1>5

\* What all the items of an event make of them.
BusyAfterAll(before, action, items) ==
    LET After(busy, tx) == BusyAfter(busy, action, tx) IN InTurn(After, before, items)

\* The addresses, after each of the items in turn.
LEMMA BusySteps ==
    ASSUME NEW before \in [TxAddresses -> Nat], NEW items \in Seq(TxItem),
           NEW action \in {"Reset", "Added", "Updated", "Removed"}
    PROVE  \E f \in [0..Len(items) -> [TxAddresses -> Nat]] :
               /\ f[0] = before
               /\ \A n \in 1..Len(items) : BusyChanges(f[n - 1], action, items[n], f[n])
               /\ BusyAfterAll(before, action, items) = f[Len(items)]
  <1> DEFINE B == [TxAddresses -> Nat]
             N == Len(items)
             step == [a \in B \X (1..N) |-> BusyAfter(a[1], action, items[a[2]])]
             Is(f) == f = [n \in 0..N |-> IF n = 0 THEN before
                                          ELSE BusyAfter(f[n - 1], action, items[n])]
  <1>1. N \in Nat /\ \A n \in 1..N : items[n] \in TxItem
    OBVIOUS
  <1>1a. \A busy \in B : \A tx \in TxItem :
             /\ BusyAfter(busy, action, tx) \in B
             /\ BusyChanges(busy, action, tx, BusyAfter(busy, action, tx))
    <2> TAKE busy \in B
    <2> TAKE tx \in TxItem
    <2>1. BusyChanges(busy, action, tx, BusyAfter(busy, action, tx))
      BY BusyAfterOf
    <2> HIDE DEF B
    <2>2. BusyAfter(busy, action, tx) \in B
      BY <2>1 DEF BusyChanges, B
    <2> QED
      BY <2>1, <2>2
  <1> HIDE DEF B
  <1>2. step \in [B \X (1..N) -> B] /\ before \in B
    BY <1>1, <1>1a DEF B
  <1>3. PICK f \in [0..N -> B] : f[0] = before /\ \A n \in 1..N : f[n] = step[<<f[n - 1], n>>]
    <2> HIDE DEF step, N
    <2>2. \E f \in [0..N -> B] : Follows(f, before, N, step)
      BY <1>1, <1>2, StepsExist
    <2> QED
      BY <2>2 DEF Follows
  <1>4. \A n \in 1..N : f[n - 1] \in B /\ f[n] = BusyAfter(f[n - 1], action, items[n])
    <2> TAKE n \in 1..N
    <2>1. n - 1 \in 0..N
      BY <1>1
    <2>2. f[n - 1] \in B
      BY <1>3, <2>1
    <2>3. step[<<f[n - 1], n>>] = BusyAfter(f[n - 1], action, items[n])
      BY <2>2
    <2> QED
      BY <1>3, <2>2, <2>3
  <1> HIDE DEF step
  <1>5. Is(f)
    BY <1>1, <1>3, <1>4
  <1> DEFINE g == CHOOSE h : Is(h)
  <1>6. Is(g)
    <2> HIDE DEF Is
    <2> QED
      BY <1>5
  <1>7. BusyAfterAll(before, action, items) = g[N]
    BY Zenon DEF BusyAfterAll, InTurn
  <1> HIDE DEF g
  <1>8. g[0] = before /\ \A n \in 1..N : g[n] = BusyAfter(g[n - 1], action, items[n])
    BY <1>1, <1>6
  <1>9. \A n \in 0..N : g[n] \in B
    <2> DEFINE U == {n \in 0..N : g[n] \in B}
    <2>1. 0 \in U
      BY <1>1, <1>2, <1>8
    <2>2. ASSUME NEW n \in 0..N - 1, n \in U PROVE n + 1 \in U
      <3>1. n + 1 \in 1..N /\ n + 1 - 1 = n /\ n + 1 \in 0..N
        BY <1>1
      <3>2. g[n + 1] = BusyAfter(g[n], action, items[n + 1]) /\ g[n] \in B
        BY <1>8, <2>2, <3>1
      <3>3. g[n + 1] \in B
        BY <1>1, <1>1a, <3>1, <3>2
      <3> QED
        BY <3>1, <3>3
    <2>3. \A n \in 0..N : n \in U
      <3> HIDE DEF U
      <3> QED
        BY <1>1, <2>1, <2>2, BoundedInduction
    <2> QED
      BY <2>3
  <1>10. g \in [0..N -> B]
    <2>1. g = [n \in 0..N |-> g[n]]
      <3>1. g = [n \in 0..N |-> IF n = 0 THEN before ELSE BusyAfter(g[n - 1], action, items[n])]
        BY <1>6
      <3> QED
        BY <3>1
    <2> QED
      BY <1>9, <2>1
  <1>11. \A n \in 1..N : BusyChanges(g[n - 1], action, items[n], g[n])
    <2> TAKE n \in 1..N
    <2>1. n - 1 \in 0..N
      BY <1>1
    <2> QED
      BY <1>1, <1>1a, <1>8, <1>9, <2>1
  <1>12. \E h \in [0..N -> B] : /\ h[0] = before
                                /\ \A n \in 1..N : BusyChanges(h[n - 1], action, items[n], h[n])
                                /\ BusyAfterAll(before, action, items) = h[N]
    BY <1>7, <1>8, <1>10, <1>11
  <1> QED
    BY <1>12 DEF B

\* An element more makes a set larger by one at most.
LEMMA OneMore ==
    ASSUME NEW C, IsFiniteSet(C), NEW t
    PROVE  /\ IsFiniteSet(C \cup {t})
           /\ Cardinality(C \cup {t}) <= Cardinality(C) + 1
           /\ Cardinality(C \cup {t}) \in Nat
  <1>1. Cardinality(C) \in Nat
    BY FS_CardinalityType
  <1>2. CASE t \in C
    <2>1. C \cup {t} = C
      BY <1>2
    <2>2. Cardinality(C) <= Cardinality(C) + 1
      BY <1>1
    <2> QED
      BY <1>1, <2>1, <2>2, Zenon
  <1>3. CASE t \notin C
    <2>1. IsFiniteSet(C \cup {t}) /\ Cardinality(C \cup {t}) = Cardinality(C) + 1
      BY <1>3, FS_AddElement
    <2> QED
      BY <1>1, <2>1
  <1> QED
    BY <1>2, <1>3

\* An event of one transaction changes what its address counts, at most.
LEMMA BusyTaken ==
    ASSUME NEW q \in Seq(TxEvent), q # <<>>, NEW now, TxQueueInv(q, now),
           NEW busy \in [TxAddresses -> Nat], BusyCounted(q, now, busy),
           NEW x \in TxItem, q[1].of = <<x>>, TxEventShape(q[1]), q[1].action # "Reset",
           NEW after, BusyChanges(busy, q[1].action, x, after)
    PROVE  BusyCounted(Tail(q), now, after)
  <1> DEFINE s == Tail(q)
             e == q[1]
             t == x.id
             b == MyAddr[t]
  <1>1. /\ s \in Seq(TxEvent) /\ 1 \in DOMAIN q /\ DOMAIN q \subseteq Nat
        /\ \A i \in DOMAIN s : i + 1 \in DOMAIN q /\ s[i] = q[i + 1] /\ i + 1 > 1
        /\ \A i \in DOMAIN q : i # 1 => i - 1 \in DOMAIN s /\ s[i - 1] = q[i]
    BY TailPlaces
  <1>2. /\ e.action \in {"Added", "Updated", "Removed"} /\ t \in Txs /\ b \in TxAddresses
        /\ ToSet(e.of) = {x} /\ IdsOfItems(e.of) = {t} /\ x = TxRow(t, x.status)
        /\ e.action = "Added" => x.status # "done"
    <2>1. \A f \in TxEvent : f.action \in {"Reset", "Added", "Updated", "Removed"}
      BY DEF TxEvent
    <2>2. e \in TxEvent
      BY <1>1
    <2>3. e.action \in {"Added", "Updated", "Removed"}
      BY <2>1, <2>2
    <2>4. t \in Txs /\ b \in TxAddresses
      BY TxPagesAssumption DEF TxItem
    <2> QED
      BY <2>3, <2>4, OneTxItem DEF TxEventShape
  <1> HIDE DEF s, e, t, b
  <1>3. /\ after \in [TxAddresses -> Nat]
        /\ \A a \in TxAddresses : a # b => after[a] = busy[a]
        /\ e.action = "Added" => after[b] = busy[b] + 1
        /\ e.action = "Updated" /\ x.status # "done" => after[b] = busy[b]
        /\ e.action = "Removed" \/ (e.action = "Updated" /\ x.status = "done") =>
               after[b] = IF busy[b] > 0 THEN busy[b] - 1 ELSE 0
    BY <1>2 DEF BusyChanges, e, b, t
  <1>4. /\ \A u \in Txs : Adds(e, u) <=> e.action = "Added" /\ u = t
        /\ \A u \in Txs : Removes(e, u) <=> e.action = "Removed" /\ u = t
        /\ \A u \in Txs : Finishes(e, u) <=> e.action = "Updated" /\ x.status = "done" /\ u = t
    <2>1. \A u \in Txs : TxRow(u, "done") = x <=> u = t /\ x.status = "done"
      BY <1>2, TxRowParts
    <2> QED
      BY <1>2, <2>1 DEF Adds, Removes, Finishes
  <1>5. /\ \A u \in Txs : (\A i \in DOMAIN q : ~Adds(q[i], u)) <=>
               ~Adds(e, u) /\ \A i \in DOMAIN s : ~Adds(s[i], u)
        /\ \A u \in Txs : (\E i \in DOMAIN q : Finishes(q[i], u)) <=>
               Finishes(e, u) \/ \E i \in DOMAIN s : Finishes(s[i], u)
    BY <1>1 DEF e
  <1>6. ASSUME NEW a \in TxAddresses, NEW u \in Txs, u # t
        PROVE  u \in Countable(q, now, a) <=> u \in Countable(s, now, a)
    <2>1. ~Adds(e, u) /\ ~Finishes(e, u)
      BY <1>4, <1>6
    <2> QED
      BY <1>5, <2>1 DEF Countable
  <1>7. t \in UsesOf(b) /\ \A a \in TxAddresses : t \in UsesOf(a) <=> a = b
    BY <1>2 DEF UsesOf, b
  <1>8. \A a \in TxAddresses : Countable(q, now, a) \subseteq Txs /\ Countable(s, now, a) \subseteq Txs
    BY DEF Countable, UsesOf
  <1>9. \A a \in TxAddresses :
            (t \in Countable(q, now, a) <=> t \in Countable(s, now, a))
            => Countable(q, now, a) = Countable(s, now, a)
    <2> SUFFICES ASSUME NEW a \in TxAddresses,
                        t \in Countable(q, now, a) <=> t \in Countable(s, now, a)
                 PROVE  Countable(q, now, a) = Countable(s, now, a)
      OBVIOUS
    <2>1. \A u : u \in Countable(q, now, a) <=> u \in Countable(s, now, a)
      BY <1>6, <1>8
    <2> QED
      BY <2>1
  <1>9a. \A a \in TxAddresses : a # b => Countable(q, now, a) = Countable(s, now, a)
    <2>1. \A a \in TxAddresses : a # b => t \notin Countable(q, now, a) /\ t \notin Countable(s, now, a)
      BY <1>7 DEF Countable
    <2> QED
      BY <1>9, <2>1
  <1>10. /\ now[t] \in UnfinishedStatus => ~Finishes(e, t) /\ ~Removes(e, t)
         /\ now[t] \notin UnfinishedStatus /\ Adds(e, t) =>
                \E j \in DOMAIN q : j > 1 /\ Finishes(q[j], t)
    BY <1>1, <1>2 DEF TxQueueInv, OverIsTold, e
  <1>11. /\ \A a \in TxAddresses : busy[a] \in Nat /\ busy[a] <= Cardinality(Countable(q, now, a))
         /\ \A u \in Txs :
               /\ UsesOf(MyAddr[u]) = {u} /\ now[u] \in UnfinishedStatus
               /\ \A i \in DOMAIN q : ~Adds(q[i], u)
               => busy[MyAddr[u]] > 0
    BY DEF BusyCounted
  <1>12. /\ IsFiniteSet(Countable(q, now, b)) /\ Cardinality(Countable(q, now, b)) \in Nat
         /\ IsFiniteSet(Countable(s, now, b)) /\ Cardinality(Countable(s, now, b)) \in Nat
    BY CountableFinite
  <1>13. after[b] <= Cardinality(Countable(s, now, b))
    <2>1. CASE e.action = "Added"
      <3>1. t \notin Countable(q, now, b)
        BY <1>1, <1>2, <1>4, <2>1 DEF Countable, e
      <3>2. t \in Countable(s, now, b)
        <4>1. \A i \in DOMAIN s : ~Adds(s[i], t)
          <5> SUFFICES ASSUME NEW i \in DOMAIN s, Adds(s[i], t)
                       PROVE  FALSE
            OBVIOUS
          <5>1. i + 1 \in DOMAIN q /\ Adds(q[i + 1], t) /\ 1 < i + 1
            <6>1. i + 1 \in Nat
              BY <1>1
            <6> QED
              BY <1>1, <6>1
          <5>2. t \notin IdsOfItems(q[1].of)
            BY <1>1, <1>2, <5>1 DEF TxQueueInv, AddedOnce
          <5> QED
            BY <1>2, <5>2 DEF e
        <4>2. now[t] \in UnfinishedStatus \/ \E i \in DOMAIN s : Finishes(s[i], t)
          <5>1. ~Finishes(e, t)
            BY <1>2, <1>4, <2>1
          <5> QED
            BY <1>2, <1>4, <1>5, <1>10, <2>1, <5>1
        <4> QED
          BY <1>7, <4>1, <4>2 DEF Countable
      <3>3. Countable(s, now, b) = Countable(q, now, b) \cup {t}
        BY <1>2, <1>6, <1>8, <3>2
      <3>4. Cardinality(Countable(s, now, b)) = Cardinality(Countable(q, now, b)) + 1
        BY <1>12, <3>1, <3>3, FS_AddElement
      <3> QED
        BY <1>2, <1>3, <1>11, <1>12, <2>1, <3>4
    <2>2. CASE e.action = "Updated" /\ x.status # "done"
      <3>1. t \in Countable(q, now, b) <=> t \in Countable(s, now, b)
        <4>1. ~Adds(e, t) /\ ~Finishes(e, t)
          BY <1>2, <1>4, <2>2
        <4> QED
          BY <1>2, <1>5, <4>1 DEF Countable
      <3>2. Countable(s, now, b) = Countable(q, now, b)
        BY <1>2, <1>9, <3>1
      <3> QED
        BY <1>2, <1>3, <1>11, <2>2, <3>2
    <2>3. CASE e.action = "Updated" /\ x.status = "done"
      <3>1. Countable(q, now, b) \subseteq Countable(s, now, b) \cup {t}
        BY <1>2, <1>6, <1>8
      <3>2. Cardinality(Countable(q, now, b)) <= Cardinality(Countable(s, now, b)) + 1
        <4>1. /\ IsFiniteSet(Countable(s, now, b) \cup {t})
              /\ Cardinality(Countable(s, now, b) \cup {t}) <= Cardinality(Countable(s, now, b)) + 1
              /\ Cardinality(Countable(s, now, b) \cup {t}) \in Nat
          BY <1>12, OneMore
        <4>2. Cardinality(Countable(q, now, b)) <= Cardinality(Countable(s, now, b) \cup {t})
          BY <3>1, <4>1, FS_Subset
        <4> QED
          BY <1>12, <4>1, <4>2
      <3>3. after[b] = IF busy[b] > 0 THEN busy[b] - 1 ELSE 0
        BY <1>3, <2>3
      <3> QED
        BY <1>2, <1>11, <1>12, <3>2, <3>3
    <2>4. CASE e.action = "Removed"
      <3>1. t \in Countable(q, now, b) <=> t \in Countable(s, now, b)
        <4>1. ~Adds(e, t) /\ ~Finishes(e, t)
          BY <1>2, <1>4, <2>4
        <4> QED
          BY <1>2, <1>5, <4>1 DEF Countable
      <3>2. Countable(s, now, b) = Countable(q, now, b)
        BY <1>2, <1>9, <3>1
      <3>3. after[b] = IF busy[b] > 0 THEN busy[b] - 1 ELSE 0
        BY <1>3, <2>4
      <3> QED
        BY <1>2, <1>11, <1>12, <3>2, <3>3
    <2> QED
      BY <1>2, <2>1, <2>2, <2>3, <2>4
  <1>14. ASSUME NEW a \in TxAddresses
         PROVE  after[a] <= Cardinality(Countable(s, now, a))
    <2>1. CASE a = b
      BY <1>13, <2>1
    <2>2. CASE a # b
      BY <1>3, <1>9a, <1>11, <2>2
    <2> QED
      BY <2>1, <2>2
  <1>15. ASSUME NEW u \in Txs, UsesOf(MyAddr[u]) = {u}, now[u] \in UnfinishedStatus,
                \A i \in DOMAIN s : ~Adds(s[i], u)
         PROVE  after[MyAddr[u]] > 0
    <2>1. MyAddr[u] \in TxAddresses
      BY TxPagesAssumption
    <2>2. CASE u # t
      <3>1. MyAddr[u] # b
        BY <1>7, <1>15, <2>2
      <3>2. ~Adds(e, u)
        BY <1>4, <2>2
      <3>3. busy[MyAddr[u]] > 0
        BY <1>5, <1>11, <1>15, <3>2
      <3> QED
        BY <1>3, <2>1, <3>1, <3>3
    <2>3. CASE u = t
      <3>1. MyAddr[u] = b
        BY <2>3 DEF b
      <3>2. CASE e.action = "Added"
        BY <1>2, <1>3, <1>11, <3>1, <3>2
      <3>3. CASE e.action # "Added"
        <4>1. ~Adds(e, u) /\ ~Finishes(e, u) /\ ~Removes(e, u)
          BY <1>4, <1>10, <1>15, <2>3, <3>3
        <4>2. e.action = "Updated" /\ x.status # "done"
          BY <1>2, <1>4, <2>3, <3>3, <4>1
        <4>3. busy[MyAddr[u]] > 0
          BY <1>5, <1>11, <1>15, <4>1
        <4> QED
          BY <1>3, <3>1, <4>2, <4>3
      <3> QED
        BY <3>2, <3>3
    <2> QED
      BY <2>2, <2>3
  <1> QED
    BY <1>14, <1>15 DEF BusyCounted, s

\* Those an answer has under way at an address, as far as it is gone through.
CountedUpTo(items, n, a) ==
    {items[k].id : k \in {k \in 1..n : /\ items[k].status # "done"
                                       /\ MyAddr[items[k].id] = a}}

LEMMA AnswerCounted ==
    ASSUME NEW items \in Seq(TxItem), DistinctIds(items)
    PROVE  LET none == [a \in TxAddresses |-> 0]
           IN  /\ BusyAfterAll(none, "Reset", items) \in [TxAddresses -> Nat]
               /\ \A a \in TxAddresses :
                      BusyAfterAll(none, "Reset", items)[a]
                          = Cardinality(CountedUpTo(items, Len(items), a))
  <1> DEFINE none == [a \in TxAddresses |-> 0]
             N == Len(items)
             C(n, a) == CountedUpTo(items, n, a)
  <1>1. N \in Nat /\ none \in [TxAddresses -> Nat] /\ DOMAIN items = 1..N
        /\ \A a \in TxAddresses : none[a] = 0
        /\ \A n \in 1..N : items[n] \in TxItem /\ items[n].id \in Txs
    <2>1. \A x \in TxItem : x.id \in Txs
      BY DEF TxItem
    <2> QED
      BY <2>1
  <1>2. PICK f \in [0..N -> [TxAddresses -> Nat]] :
               /\ f[0] = none
               /\ \A n \in 1..N : BusyChanges(f[n - 1], "Reset", items[n], f[n])
               /\ BusyAfterAll(none, "Reset", items) = f[N]
    <2> HIDE DEF none
    <2> QED
      BY <1>1, BusySteps
  <1> HIDE DEF none, N
  <1> DEFINE U == {n \in 0..N : \A a \in TxAddresses :
                       IsFiniteSet(C(n, a)) /\ f[n][a] = Cardinality(C(n, a))}
  <1>3. 0 \in U
    <2>1. \A a : C(0, a) = {}
      BY DEF CountedUpTo
    <2> HIDE DEF C
    <2>2. IsFiniteSet({}) /\ Cardinality({}) = 0
      BY FS_EmptySet
    <2>3. ASSUME NEW a \in TxAddresses
          PROVE  IsFiniteSet(C(0, a)) /\ f[0][a] = Cardinality(C(0, a))
      <3>1. C(0, a) = {} /\ f[0][a] = 0
        BY <1>1, <1>2, <2>1
      <3> QED
        BY <2>2, <3>1
    <2> QED
      BY <1>1, <2>3
  <1>4. ASSUME NEW n \in 0..N - 1, n \in U
        PROVE  n + 1 \in U
    <2> DEFINE x == items[n + 1]
               b == MyAddr[x.id]
    <2>1. n \in Nat /\ n \in 0..N /\ n + 1 \in 1..N /\ n + 1 \in 0..N /\ n + 1 - 1 = n /\ x \in TxItem
      BY <1>1
    <2>2. /\ f[n + 1] \in [TxAddresses -> Nat]
          /\ \A a \in TxAddresses : a # b => f[n + 1][a] = f[n][a]
          /\ f[n + 1][b] = f[n][b] + (IF x.status # "done" THEN 1 ELSE 0)
      <3>1. BusyChanges(f[n], "Reset", x, f[n + 1])
        BY <1>2, <2>1
      <3> QED
        BY <3>1 DEF BusyChanges
    <2>3. \A k \in 1..n : k \in 1..N /\ k # n + 1 /\ items[k].id # x.id
      <3> TAKE k \in 1..n
      <3>1. k \in 1..N /\ k # n + 1
        BY <1>1, <2>1
      <3>2. k \in DOMAIN items /\ n + 1 \in DOMAIN items
        BY <1>1, <2>1, <3>1
      <3> QED
        BY <3>1, <3>2 DEF DistinctIds
    <2>4. \A a : C(n + 1, a) = C(n, a) \cup (IF x.status # "done" /\ b = a THEN {x.id} ELSE {})
      <3> TAKE a
      <3>1. \A k : k \in 1..(n + 1) <=> k \in 1..n \/ k = n + 1
        BY <2>1
      <3> QED
        BY <3>1 DEF CountedUpTo
    <2>5. \A a : x.id \notin C(n, a)
      BY <2>3 DEF CountedUpTo
    <2> HIDE DEF C, x, b
    <2>6. ASSUME NEW a \in TxAddresses
          PROVE  IsFiniteSet(C(n + 1, a)) /\ f[n + 1][a] = Cardinality(C(n + 1, a))
      <3>1. IsFiniteSet(C(n, a)) /\ f[n][a] = Cardinality(C(n, a)) /\ f[n][a] \in Nat
        BY <1>2, <1>4, <2>1
      <3>2. CASE x.status # "done" /\ b = a
        <4>1. C(n + 1, a) = C(n, a) \cup {x.id}
          BY <2>4, <3>2
        <4>2. IsFiniteSet(C(n + 1, a)) /\ Cardinality(C(n + 1, a)) = Cardinality(C(n, a)) + 1
          <5>1. \A A, B : IsFiniteSet(A) /\ x.id \notin A /\ B = A \cup {x.id} =>
                              IsFiniteSet(B) /\ Cardinality(B) = Cardinality(A) + 1
            BY FS_AddElement
          <5>2. x.id \notin C(n, a)
            BY <2>5
          <5> QED
            BY <3>1, <4>1, <5>1, <5>2, Zenon
        <4> QED
          BY <2>2, <3>1, <3>2, <4>2
      <3>3. CASE ~(x.status # "done" /\ b = a)
        <4>1. C(n + 1, a) = C(n, a)
          BY <2>4, <3>3
        <4>2. f[n + 1][a] = f[n][a]
          BY <2>2, <3>1, <3>3
        <4> QED
          BY <3>1, <4>1, <4>2
      <3> QED
        BY <3>2, <3>3
    <2> QED
      BY <2>1, <2>6
  <1>5. N \in U
    <2> HIDE DEF U
    <2>1. \A n \in 0..N : n \in U
      BY <1>1, <1>3, <1>4, BoundedInduction
    <2> QED
      BY <1>1, <2>1
  <1>6. /\ BusyAfterAll(none, "Reset", items) \in [TxAddresses -> Nat]
        /\ \A a \in TxAddresses : BusyAfterAll(none, "Reset", items)[a] = Cardinality(C(N, a))
    BY <1>1, <1>2, <1>5
  <1> QED
    BY <1>6 DEF none, N

\* A complete answer counts those under way.
LEMMA BusyAnswered ==
    ASSUME NEW q \in Seq(TxEvent), q # <<>>, NEW now, TxQueueInv(q, now),
           q[1].action = "Reset", q[1].of \in Seq(TxItem), DistinctIds(q[1].of),
           NEW after, after = BusyAfterAll([a \in TxAddresses |-> 0], "Reset", q[1].of)
    PROVE  after \in [TxAddresses -> Nat] /\ BusyCounted(Tail(q), now, after)
  <1> DEFINE s == Tail(q)
             e == q[1]
             C(a) == CountedUpTo(e.of, Len(e.of), a)
  <1>1. /\ s \in Seq(TxEvent) /\ 1 \in DOMAIN q /\ DOMAIN q \subseteq Nat
        /\ \A i \in DOMAIN s : i + 1 \in DOMAIN q /\ s[i] = q[i + 1]
        /\ \A i \in DOMAIN q : i # 1 => i - 1 \in DOMAIN s /\ s[i - 1] = q[i]
    BY TailPlaces
  <1>1a. \A i \in DOMAIN s : 1 < i + 1
    BY <1>1
  <1>2. /\ after \in [TxAddresses -> Nat]
        /\ \A a \in TxAddresses : after[a] = Cardinality(C(a))
    BY AnswerCounted
  <1>3. \A a \in TxAddresses : \A t \in Txs :
            t \in C(a) <=> HasUnfinished(e, t) /\ MyAddr[t] = a
    <2> SUFFICES ASSUME NEW a \in TxAddresses, NEW t \in Txs
                 PROVE  t \in C(a) <=> HasUnfinished(e, t) /\ MyAddr[t] = a
      OBVIOUS
    <2>1. t \in C(a) <=> \E k \in 1..Len(e.of) : /\ e.of[k].status # "done" /\ e.of[k].id = t
                                                 /\ MyAddr[t] = a
      BY DEF CountedUpTo
    <2>2. \A k \in 1..Len(e.of) : e.of[k] \in TxItem /\ e.of[k] \in ToSet(e.of)
      BY DEF ToSet
    <2>3. \A x \in TxItem : /\ x.status # "done" <=> x.status \in UnfinishedStatus
                            /\ x = TxRow(x.id, x.status)
      BY DEF TxItem, Living, UnfinishedStatus, TxRow
    <2>4. \A x : x \in ToSet(e.of) <=> \E k \in 1..Len(e.of) : e.of[k] = x
      BY SeqFacts
    <2>5. HasUnfinished(e, t) <=> \E k \in 1..Len(e.of) : e.of[k].status # "done" /\ e.of[k].id = t
      <3>1. ASSUME NEW r \in UnfinishedStatus, TxRow(t, r) \in ToSet(e.of)
            PROVE  \E k \in 1..Len(e.of) : e.of[k].status # "done" /\ e.of[k].id = t
        BY <2>4, <3>1, TxRowParts DEF UnfinishedStatus
      <3>2. ASSUME NEW k \in 1..Len(e.of), e.of[k].status # "done", e.of[k].id = t
            PROVE  HasUnfinished(e, t)
        BY <2>2, <2>3, <3>2 DEF HasUnfinished
      <3> QED
        BY <3>1, <3>2 DEF HasUnfinished
    <2> QED
      BY <2>1, <2>5
  <1>4. \A a : C(a) \subseteq Txs
    <2>1. \A x \in TxItem : x.id \in Txs
      BY DEF TxItem
    <2> QED
      BY <2>1 DEF CountedUpTo
  <1> HIDE DEF C, e, s
  <1>5. ASSUME NEW a \in TxAddresses
        PROVE  after[a] <= Cardinality(Countable(s, now, a))
    <2>1. C(a) \subseteq Countable(s, now, a)
      <3> SUFFICES ASSUME NEW t \in C(a)
                   PROVE  t \in Countable(s, now, a)
        OBVIOUS
      <3>1. t \in Txs /\ HasUnfinished(e, t) /\ MyAddr[t] = a
        BY <1>3, <1>4
      <3>2. t \in IdsOfItems(e.of)
        BY <3>1, TxIdsOf, TxRowParts DEF HasUnfinished, e
      <3>3. \A i \in DOMAIN s : ~Adds(s[i], t)
        <4> SUFFICES ASSUME NEW i \in DOMAIN s, Adds(s[i], t)
                     PROVE  FALSE
          OBVIOUS
        <4>1. i + 1 \in DOMAIN q /\ Adds(q[i + 1], t) /\ 1 < i + 1
          BY <1>1, <1>1a
        <4> QED
          BY <1>1, <3>1, <3>2, <4>1 DEF TxQueueInv, AddedOnce, e
      <3>4. now[t] \in UnfinishedStatus \/ \E i \in DOMAIN s : Finishes(s[i], t)
        <4>1. now[t] \notin UnfinishedStatus => \E j \in DOMAIN q : j > 1 /\ Finishes(q[j], t)
          BY <1>1, <3>1 DEF TxQueueInv, OverIsTold, e
        <4>2. \A j \in DOMAIN q : j > 1 => j # 1
          BY <1>1
        <4> QED
          BY <1>1, <4>1, <4>2
      <3> QED
        BY <3>1, <3>3, <3>4 DEF Countable, UsesOf
    <2>2. Cardinality(C(a)) <= Cardinality(Countable(s, now, a))
      BY <2>1, CountableFinite, FS_Subset
    <2> QED
      BY <1>2, <2>2
  <1>6. ASSUME NEW u \in Txs, now[u] \in UnfinishedStatus, \A i \in DOMAIN s : ~Adds(s[i], u)
        PROVE  after[MyAddr[u]] > 0
    <2>1. MyAddr[u] \in TxAddresses
      BY TxPagesAssumption
    <2>2. \A j \in DOMAIN q : j > 1 => ~Adds(q[j], u)
      <3>1. \A j \in DOMAIN q : j > 1 => j # 1
        BY <1>1
      <3> QED
        BY <1>1, <1>6, <3>1
    <2>3. HasUnfinished(e, u)
      BY <1>1, <1>6, <2>2 DEF TxQueueInv, OverIsTold, e
    <2>4. u \in C(MyAddr[u])
      BY <1>3, <2>1, <2>3
    <2>5. IsFiniteSet(C(MyAddr[u]))
      BY <1>4, TxPagesAssumption, FS_Subset
    <2>6. Cardinality(C(MyAddr[u])) \in Nat /\ Cardinality(C(MyAddr[u])) # 0
      BY <2>4, <2>5, FS_CardinalityType, FS_EmptySet
    <2> QED
      BY <1>2, <2>1, <2>6
  <1> QED
    BY <1>2, <1>5, <1>6 DEF BusyCounted, s

LEMMA OnTransactionsKeeps ==
    ASSUME TxInv, OnTransactions
    PROVE  TxInv'
  <1> DEFINE e == Head(txEvents)
             none == [a \in TxAddresses |-> 0]
             before == IF e.action = "Reset" THEN none ELSE busyAddresses
  <1>1. /\ txEvents # <<>> /\ txEvents' = Tail(txEvents) /\ txPage = "addresses"
        /\ UNCHANGED <<txStatus, txCalls, txPage, txRows, activeTx, activeCounter>>
    BY DEF OnTransactions, Heard
  <1>2. busyAddresses' = BusyAfterAll(before, e.action, e.of)
    BY Zenon DEF OnTransactions, BusyAfterAll
  <1>3. /\ e = txEvents[1] /\ 1 \in DOMAIN txEvents
        /\ DOMAIN txEvents \subseteq Nat /\ txEvents \in Seq(TxEvent)
        /\ e \in TxEvent /\ TxEventShape(e) /\ e.of \in Seq(TxItem) /\ DistinctIds(e.of)
    BY <1>1, HeadTxEvent
  <1>4. e.action \in {"Reset", "Added", "Updated", "Removed"}
    <2>1. \A f \in TxEvent : f.action \in {"Reset", "Added", "Updated", "Removed"}
      BY DEF TxEvent
    <2> QED
      BY <1>3, <2>1
  <1>5. TxQueueInv(txEvents, txStatus) /\ busyAddresses \in [TxAddresses -> Nat]
        /\ activeTx \subseteq Txs /\ activeCounter \in Int
    BY DEF TxInv, TxTypes
  <1>6. \A i \in DOMAIN txEvents : i # 1 =>
            i - 1 \in DOMAIN Tail(txEvents) /\ Tail(txEvents)[i - 1] = txEvents[i]
    BY <1>1, <1>3, TailPlaces
  <1>7. SwapsCounted'
    BY <1>1 DEF SwapsCounted
  <1> HIDE DEF e
  <1>8. busyAddresses' \in [TxAddresses -> Nat] /\ AddressesCounted'
    <2>1. CASE e.action = "Reset"
      <3>1. busyAddresses' = BusyAfterAll(none, "Reset", txEvents[1].of)
        BY <1>2, <1>3, <2>1
      <3>2. /\ busyAddresses' \in [TxAddresses -> Nat]
            /\ BusyCounted(Tail(txEvents), txStatus, busyAddresses')
        BY <1>1, <1>3, <1>5, <2>1, <3>1, BusyAnswered
      <3> QED
        BY <1>1, <3>2 DEF AddressesCounted
    <2>2. CASE e.action # "Reset"
      <3>1. PICK x \in TxItem : e.of = <<x>>
        BY <1>3, <2>2 DEF TxEventShape
      <3>2. BusyChanges(busyAddresses, e.action, x, busyAddresses')
        <4>1. Len(e.of) = 1 /\ e.of[1] = x
          BY <3>1
        <4>2. before = busyAddresses
          BY <2>2
        <4>3. \E f \in [0..Len(e.of) -> [TxAddresses -> Nat]] :
                  /\ f[0] = busyAddresses
                  /\ \A n \in 1..Len(e.of) : BusyChanges(f[n - 1], e.action, e.of[n], f[n])
                  /\ BusyAfterAll(busyAddresses, e.action, e.of) = f[Len(e.of)]
          <5> DEFINE A == {"Reset", "Added", "Updated", "Removed"}
          <5>1. busyAddresses \in [TxAddresses -> Nat] /\ e.of \in Seq(TxItem) /\ e.action \in A
            BY <1>3, <1>4, <1>5
          <5>2. \A b \in [TxAddresses -> Nat], items \in Seq(TxItem), action \in A :
                    \E f \in [0..Len(items) -> [TxAddresses -> Nat]] :
                        /\ f[0] = b
                        /\ \A n \in 1..Len(items) :
                               BusyChanges(f[n - 1], action, items[n], f[n])
                        /\ BusyAfterAll(b, action, items) = f[Len(items)]
            BY BusySteps
          <5> HIDE DEF A
          <5> QED
            BY <5>1, <5>2, Zenon
        <4>4. PICK f : /\ f[0] = busyAddresses
                       /\ \A n \in 1..1 : BusyChanges(f[n - 1], e.action, e.of[n], f[n])
                       /\ BusyAfterAll(busyAddresses, e.action, e.of) = f[1]
          BY <4>1, <4>3
        <4>5. 1 \in 1..1 /\ 1 - 1 = 0
          OBVIOUS
        <4>6. BusyChanges(f[0], e.action, e.of[1], f[1])
          BY <4>4, <4>5
        <4> QED
          BY <1>2, <4>1, <4>2, <4>4, <4>6
      <3>3. busyAddresses' \in [TxAddresses -> Nat]
        BY <3>2 DEF BusyChanges
      <3>4. AddressesCounted'
        <4> SUFFICES ASSUME txCalls = 0,
                            \A i \in DOMAIN Tail(txEvents) : Tail(txEvents)[i].action # "Reset"
                     PROVE  BusyCounted(Tail(txEvents), txStatus, busyAddresses')
          BY <1>1 DEF AddressesCounted
        <4>1. \A i \in DOMAIN txEvents : txEvents[i].action # "Reset"
          BY <1>3, <1>6, <2>2
        <4>2. BusyCounted(txEvents, txStatus, busyAddresses)
          BY <1>1, <4>1 DEF TxInv, AddressesCounted
        <4> QED
          BY <1>1, <1>3, <1>5, <2>2, <3>1, <3>2, <4>2, BusyTaken
      <3> QED
        BY <3>3, <3>4
    <2> QED
      BY <2>1, <2>2
  <1> QED
    BY <1>1, <1>5, <1>7, <1>8, TxTakenKeeps

-----------------------------------------------------------------------------
(* The theorem. *)

LEMMA OpenTxPageKeeps ==
    ASSUME TxInv, NEW page \in {"none", "wallet", "swaps", "addresses"}, OpenTxPage(page)
    PROVE  TxInv'
  <1>1. /\ txPage' = page /\ txRows' = <<>> /\ activeTx' = {} /\ activeCounter' = 0
        /\ busyAddresses' = [a \in TxAddresses |-> 0]
        /\ txCalls' = (IF page = "none" THEN txCalls ELSE txCalls + 1)
        /\ UNCHANGED <<txStatus, txEvents>>
    BY DEF OpenTxPage
  <1>2. txCalls \in Nat /\ txCalls' \in Nat /\ (page # "none" => txCalls' # 0)
    BY <1>1 DEF TxInv, TxTypes
  <1>3. TxTypes'
    BY <1>1, <1>2 DEF TxInv, TxTypes
  <1>4. /\ DistinctIds(<<>>) /\ ToSet(<<>>) = {} /\ IdsOfItems(<<>>) = {}
        /\ ActiveIds(<<>>) = {} /\ Cardinality({}) = 0
    BY FS_EmptySet DEF DistinctIds, ToSet, IdsOfItems, ActiveIds
  <1>5. TxShapes'
    BY <1>1, <1>4 DEF TxInv, TxShapes
  <1>6. TxQueueInv(txEvents', txStatus')
    BY <1>1 DEF TxInv
  <1>7. RowsKnown(txEvents', txRows', txStatus')
    BY <1>1, <1>4 DEF RowsKnown
  <1>8. TxSettled'
    BY <1>1, <1>2 DEF TxSettled
  <1>9. SwapsCounted'
    BY <1>1, <1>4 DEF SwapsCounted
  <1>10. AddressesCounted'
    BY <1>1, <1>2 DEF AddressesCounted
  <1> QED
    BY <1>3, <1>5, <1>6, <1>7, <1>8, <1>9, <1>10 DEF TxInv

LEMMA TxInitHolds == TxPagesInit => TxInv
  <1> SUFFICES ASSUME TxPagesInit
               PROVE  TxInv
    OBVIOUS
  <1>1. /\ txStatus \in [Txs -> Living \cup {"unborn"}] /\ txCalls = 0 /\ txEvents = <<>>
        /\ txPage = "none" /\ txRows = <<>> /\ activeTx = {} /\ activeCounter = 0
        /\ busyAddresses = [a \in TxAddresses |-> 0]
    BY DEF TxPagesInit
  <1>2. TxTypes
    BY <1>1 DEF TxTypes
  <1>3. DistinctIds(<<>>) /\ ToSet(<<>>) = {} /\ IdsOfItems(<<>>) = {} /\ DOMAIN <<>> = {}
    BY DEF DistinctIds, ToSet, IdsOfItems
  <1>4. TxShapes
    BY <1>1, <1>3 DEF TxShapes
  <1>5. TxQueueInv(txEvents, txStatus)
    BY <1>1, <1>3 DEF TxQueueInv, LastTellsTx, AddedOnce, Withdrawn, OverIsTold
  <1>6. RowsKnown(txEvents, txRows, txStatus)
    BY <1>1, <1>3 DEF RowsKnown
  <1>7. TxSettled /\ SwapsCounted /\ AddressesCounted
    BY <1>1 DEF TxSettled, SwapsCounted, AddressesCounted
  <1> QED
    BY <1>2, <1>4, <1>5, <1>6, <1>7 DEF TxInv

LEMMA TxNextKeeps == TxInv /\ [TxPagesNext]_txPagesVars => TxInv'
  <1> SUFFICES ASSUME TxInv, [TxPagesNext]_txPagesVars
               PROVE  TxInv'
    OBVIOUS
  <1>1. CASE \E t \in Txs, st \in {"pending", "active"} : TxAdded(t, st)
    BY <1>1, TxWalletKeeps
  <1>2. CASE \E t \in Txs, st \in Living : TxUpdated(t, st)
    BY <1>2, TxWalletKeeps
  <1>3. CASE \E t \in Txs : TxRemoved(t)
    BY <1>3, TxWalletKeeps
  <1>4. CASE RunGetTransactions
    BY <1>4, RunGetTransactionsKeeps
  <1>5. CASE \E page \in {"none", "wallet", "swaps", "addresses"} : OpenTxPage(page)
    BY <1>5, OpenTxPageKeeps
  <1>6. CASE NobodyHears
    BY <1>6, NobodyHearsKeeps
  <1>7. CASE OnTransactionsChanged
    BY <1>7, OnTransactionsChangedKeeps
  <1>8. CASE OnSwapTransactions
    BY <1>8, OnSwapTransactionsKeeps
  <1>9. CASE OnTransactions
    BY <1>9, OnTransactionsKeeps
  <1>10. CASE UNCHANGED txPagesVars
    <2>1. UNCHANGED <<txStatus, txCalls, txEvents, txPage, txRows, activeTx, activeCounter,
                      busyAddresses>>
      BY <1>10 DEF txPagesVars
    <2>2. TxTypes' /\ TxShapes' /\ TxSettled' /\ SwapsCounted' /\ AddressesCounted'
      BY <2>1 DEF TxInv, TxTypes, TxShapes, TxSettled, SwapsCounted, AddressesCounted
    <2>3. TxQueueInv(txEvents', txStatus') /\ RowsKnown(txEvents', txRows', txStatus')
      BY <2>1 DEF TxInv
    <2> QED
      BY <2>2, <2>3 DEF TxInv
  <1> QED
    BY <1>1, <1>2, <1>3, <1>4, <1>5, <1>6, <1>7, <1>8, <1>9, <1>10 DEF TxPagesNext

\* At rest the rows of the table, or of the swaps, are those of the wallet.
LEMMA RowsAtRest ==
    ASSUME TxInv, txCalls = 0, txEvents = <<>>, txPage \in {"wallet", "swaps"}
    PROVE  RowsAre(PageKind(txPage))
  <1>1. /\ txRows \in Seq(TxItem) /\ DistinctIds(txRows)
        /\ \A r \in ToSet(txRows) : KindOf[r.id] = PageKind(txPage)
    BY DEF TxInv, TxTypes, TxShapes
  <1>2. \A t \in Txs : KindOf[t] = PageKind(txPage) =>
            \A s \in Living : TxRow(t, s) \in ToSet(txRows) <=> s = txStatus[t]
    BY DEF TxInv, TxSettled
  <1>3. \A r \in ToSet(txRows) : r.id \in Txs /\ r.status \in Living /\ r = TxRow(r.id, r.status)
    BY <1>1, TxIdsOf
  <1>4. \A t : t \in InWallet <=> t \in Txs /\ txStatus[t] \in Living
    BY DEF InWallet
  <1>5. \A r : r \in ToSet(txRows) <=>
                   \E t \in InWallet : KindOf[t] = PageKind(txPage) /\ r = TxRow(t, txStatus[t])
    BY <1>1, <1>2, <1>3, <1>4
  <1>6. ToSet(txRows) = {TxRow(t, txStatus[t]) : t \in {t \in InWallet : KindOf[t] = PageKind(txPage)}}
    BY <1>5
  <1> QED
    BY <1>1, <1>6 DEF RowsAre, TxRow, ToSet, DistinctIds

LEMMA TxInvMirrors == TxInv => TxPagesMirrorWallet
  <1> SUFFICES ASSUME TxInv, txCalls = 0, txEvents = <<>>
               PROVE  /\ txPage = "wallet" => RowsAre("simple")
                      /\ txPage = "swaps" =>
                             /\ RowsAre("swap")
                             /\ activeTx = {t \in Txs : KindOf[t] = "swap" /\ txStatus[t] = "active"}
                             /\ activeCounter = Cardinality(activeTx)
                      /\ txPage = "addresses" =>
                             \A a \in TxAddresses :
                                 /\ busyAddresses[a] <= Cardinality(Unfinished(a))
                                 /\ Cardinality(UsesOf(a)) = 1 =>
                                        (busyAddresses[a] > 0 <=> Unfinished(a) # {})
    BY DEF TxPagesMirrorWallet
  <1>1. txPage = "wallet" => RowsAre("simple")
    BY RowsAtRest DEF PageKind
  <1>2. txPage = "swaps" => RowsAre("swap")
    BY RowsAtRest DEF PageKind
  <1>3. ASSUME txPage = "swaps"
        PROVE  /\ activeTx = {t \in Txs : KindOf[t] = "swap" /\ txStatus[t] = "active"}
               /\ activeCounter = Cardinality(activeTx)
    <2>1. activeTx = ActiveIds(txRows) /\ activeCounter = Cardinality(activeTx)
      BY <1>3 DEF TxInv, SwapsCounted
    <2>2. ToSet(txRows) = {TxRow(t, txStatus[t]) : t \in {t \in InWallet : KindOf[t] = "swap"}}
      BY <1>2, <1>3 DEF RowsAre, TxRow, ToSet
    <2>3. \A t : t \in ActiveIds(txRows) <=> t \in Txs /\ KindOf[t] = "swap" /\ txStatus[t] = "active"
      <3>1. \A t : t \in ActiveIds(txRows) <=>
                       \E r \in ToSet(txRows) : r.status = "active" /\ r.id = t
        BY DEF ActiveIds
      <3>2. \A r : r \in ToSet(txRows) <=>
                       \E t \in InWallet : KindOf[t] = "swap" /\ r = TxRow(t, txStatus[t])
        BY <2>2
      <3>3. \A t : t \in ActiveIds(txRows) <=>
                       t \in InWallet /\ KindOf[t] = "swap" /\ txStatus[t] = "active"
        BY <3>1, <3>2, TxRowParts
      <3> QED
        BY <3>3 DEF InWallet, Living
    <2> QED
      BY <2>1, <2>3
  <1>4. ASSUME txPage = "addresses", NEW a \in TxAddresses
        PROVE  /\ busyAddresses[a] <= Cardinality(Unfinished(a))
               /\ Cardinality(UsesOf(a)) = 1 => (busyAddresses[a] > 0 <=> Unfinished(a) # {})
    <2>1. BusyCounted(<<>>, txStatus, busyAddresses) /\ busyAddresses[a] \in Nat
      BY <1>4 DEF TxInv, TxTypes, AddressesCounted
    <2>2. Countable(<<>>, txStatus, a) = Unfinished(a)
      BY DEF Countable, Unfinished, UnfinishedStatus
    <2>3. busyAddresses[a] <= Cardinality(Unfinished(a))
      BY <2>1, <2>2 DEF BusyCounted
    <2>4. ASSUME Cardinality(UsesOf(a)) = 1
          PROVE  busyAddresses[a] > 0 <=> Unfinished(a) # {}
      <3>1. IsFiniteSet(UsesOf(a)) /\ UsesOf(a) \subseteq Txs
        BY TxPagesAssumption, FS_Subset DEF UsesOf
      <3>2. PICK t : UsesOf(a) = {t}
        BY <2>4, <3>1, FS_Singleton
      <3>3. t \in Txs /\ MyAddr[t] = a
        BY <3>2 DEF UsesOf
      <3>4. Unfinished(a) # {} => txStatus[t] \in UnfinishedStatus
        BY <3>2 DEF Unfinished, UnfinishedStatus
      <3>5. txStatus[t] \in UnfinishedStatus => busyAddresses[a] > 0
        BY <2>1, <3>2, <3>3 DEF BusyCounted
      <3>6. Unfinished(a) = {} => Cardinality(Unfinished(a)) = 0
        BY FS_EmptySet
      <3> QED
        BY <2>1, <2>3, <3>4, <3>5, <3>6
    <2> QED
      BY <2>3, <2>4
  <1> QED
    BY <1>1, <1>2, <1>3, <1>4

\* Whatever changes while a page opens, and in whatever order the answer and
\* the changes arrive: once they have, the table and the swaps have a row for
\* each of the wallet's transactions, the counter of active swaps has their
\* number, and an address is busy only for what is under way (tx_table.cpp:
\* onTransactionsChanged; swap_offers_view.cpp: onTransactionsDataModelChanged;
\* address_book_view.cpp: onTransactions).
THEOREM TxPagesMirrorWalletAlways == TxPagesSpec => []TxPagesMirrorWallet
  <1>1. TxPagesSpec => []TxInv
    BY TxInitHolds, TxNextKeeps, PTL DEF TxPagesSpec
  <1> QED
    BY <1>1, TxInvMirrors, PTL

-----------------------------------------------------------------------------
(* What is known of the assets, and the list of those held.                *)

\* What the requests and their answers rest on.
QueueInv ==
    /\ held \subseteq AssetIds
    /\ onChain \in [AssetIds -> Version]
    /\ asked \subseteq AssetIds
    /\ asEvents \in Seq(AsEvent)
    /\ requested \subseteq AssetIds
    /\ status \subseteq AssetIds

IInv == QueueInv /\ RequestedIsUnderWay

-----------------------------------------------------------------------------
\* What is taken off the front of the events leaves the rest in its order.
LEMMA TailOf ==
    ASSUME NEW s \in Seq(AsEvent), s # <<>>
    PROVE  /\ Head(s) \in AsEvent /\ Head(s) = s[1]
           /\ Tail(s) \in Seq(AsEvent)
           /\ \A i \in DOMAIN s : i # 1 => i - 1 \in DOMAIN Tail(s) /\ Tail(s)[i - 1] = s[i]
  OBVIOUS

\* What is put at the end of the events leaves the rest in its place.
LEMMA AppendTo ==
    ASSUME NEW s \in Seq(AsEvent), NEW e \in AsEvent
    PROVE  /\ Append(s, e) \in Seq(AsEvent)
           /\ Len(s) + 1 \in DOMAIN Append(s, e)
           /\ Append(s, e)[Len(s) + 1] = e
           /\ \A i \in DOMAIN s : i \in DOMAIN Append(s, e) /\ Append(s, e)[i] = s[i]
  OBVIOUS

\* An event of either kind.
LEMMA EventTypes ==
    /\ \A now \in SUBSET AssetIds : [kind |-> "status", held |-> now] \in AsEvent
    /\ \A id \in AssetIds, version \in Version :
           [kind |-> "info", id |-> id, version |-> version] \in AsEvent
    /\ \A e \in AsEvent : e.kind = "status" => e.held \subseteq AssetIds
    /\ \A e \in AsEvent : e.kind = "info" => e.id \in AssetIds /\ e.version \in Version
  BY DEF AsEvent

\* An event put at the end keeps every request under way.
LEMMA MoreEvents ==
    ASSUME QueueInv, NEW e \in AsEvent, asEvents' = Append(asEvents, e)
    PROVE  /\ asEvents' \in Seq(AsEvent)
           /\ Len(asEvents) + 1 \in DOMAIN asEvents' /\ asEvents'[Len(asEvents) + 1] = e
           /\ \A id : (\E i \in DOMAIN asEvents : asEvents[i].kind = "info" /\ asEvents[i].id = id)
                   => \E i \in DOMAIN asEvents' : asEvents'[i].kind = "info" /\ asEvents'[i].id = id
  <1>1. asEvents \in Seq(AsEvent)
    BY DEF QueueInv
  <1>2. /\ Append(asEvents, e) \in Seq(AsEvent)
        /\ Len(asEvents) + 1 \in DOMAIN Append(asEvents, e)
        /\ Append(asEvents, e)[Len(asEvents) + 1] = e
        /\ \A i \in DOMAIN asEvents : i \in DOMAIN Append(asEvents, e)
                                      /\ Append(asEvents, e)[i] = asEvents[i]
    BY <1>1, AppendTo
  <1> QED
    BY <1>2

\* Reading assets notes a request only with one made.
LEMMA ReadsKeep ==
    ASSUME QueueInv, NEW ids \in SUBSET AssetIds, NEW known, NEW before \in SUBSET AssetIds,
           Reads(ids, known, before)
    PROVE  /\ requested' \subseteq AssetIds /\ asked' \subseteq AssetIds
           /\ asked \subseteq asked'
           /\ \A id \in requested' : id \in before \/ id \in asked'
  BY DEF Reads, QueueInv

-----------------------------------------------------------------------------
\* Nothing is under way as the manager is made.
LEMMA InitInv == AssetsInit => IInv
  <1> SUFFICES ASSUME AssetsInit
               PROVE  IInv
    OBVIOUS
  <1>1. [kind |-> "status", held |-> held] \in AsEvent
    BY EventTypes DEF AssetsInit
  <1>2. asEvents \in Seq(AsEvent)
    <2> DEFINE e == [kind |-> "status", held |-> held]
    <2>1. asEvents = <<e>> /\ e \in AsEvent
      BY <1>1 DEF AssetsInit
    <2> HIDE DEF e
    <2> QED
      BY <2>1
  <1> QED
    BY <1>2 DEF AssetsInit, IInv, QueueInv, RequestedIsUnderWay, Version

\* The wallet's steps: a request that is answered has its answer under way.
LEMMA WalletStep ==
    ASSUME IInv,
           \/ \E now \in SUBSET AssetIds : HoldingsChange(now)
           \/ \E id \in AssetIds : AssetChanges(id)
           \/ \E id \in AssetIds : AnswerInfo(id)
    PROVE  IInv'
  <1>1. CASE \E now \in SUBSET AssetIds : HoldingsChange(now)
    <2> PICK now \in SUBSET AssetIds : HoldingsChange(now)
      BY <1>1
    <2>1. [kind |-> "status", held |-> now] \in AsEvent
      BY EventTypes
    <2>2. asEvents' = Append(asEvents, [kind |-> "status", held |-> now]) /\ held' = now
          /\ UNCHANGED <<onChain, asked, requested, status>>
      BY DEF HoldingsChange, uiSide
    <2> QED
      BY <2>1, <2>2, MoreEvents DEF IInv, QueueInv, RequestedIsUnderWay, InfoUnderWay
  <1>2. CASE \E id \in AssetIds : AssetChanges(id)
    <2> PICK id \in AssetIds : AssetChanges(id)
      BY <1>2
    <2>0. PICK version \in Version :
              onChain' = [onChain EXCEPT ![id] = version] /\ Tells(id, version)
      BY DEF AssetChanges
    <2>1. [kind |-> "info", id |-> id, version |-> version] \in AsEvent
      BY EventTypes
    <2>2. asEvents' = Append(asEvents, [kind |-> "info", id |-> id, version |-> version])
          /\ UNCHANGED <<held, asked, requested, status>>
      BY <2>0 DEF AssetChanges, Tells, uiSide
    <2>3. onChain' \in [AssetIds -> Version]
      BY <2>0 DEF IInv, QueueInv
    <2> QED
      BY <2>1, <2>2, <2>3, MoreEvents DEF IInv, QueueInv, RequestedIsUnderWay, InfoUnderWay
  <1>3. CASE \E id \in AssetIds : AnswerInfo(id)
    <2> PICK id \in AssetIds : AnswerInfo(id)
      BY <1>3
    <2> DEFINE e == [kind |-> "info", id |-> id, version |-> onChain[id]]
    <2>1. e \in AsEvent
      BY EventTypes DEF IInv, QueueInv
    <2>2. asEvents' = Append(asEvents, e) /\ asked' = asked \ {id}
          /\ UNCHANGED <<held, onChain, requested, status>>
      BY DEF AnswerInfo, Tells, uiSide, walletsSide
    <2>3. e.kind = "info" /\ e.id = id
      OBVIOUS
    <2> HIDE DEF e
    <2> QED
      BY <2>1, <2>2, <2>3, MoreEvents DEF IInv, QueueInv, RequestedIsUnderWay, InfoUnderWay
  <1> QED
    BY <1>1, <1>2, <1>3

\* The manager and the list: an answer ends its own request only, and whatever
\* is read again is asked for again.
LEMMA EventStep ==
    ASSUME IInv, OnWalletStatus \/ OnAssetInfo
    PROVE  IInv'
  <1> DEFINE e == Head(asEvents)
  <1>1. /\ asEvents \in Seq(AsEvent) /\ asEvents # <<>> /\ asEvents' = Tail(asEvents)
        /\ UNCHANGED <<held, onChain>>
    BY DEF IInv, QueueInv, OnWalletStatus, OnAssetInfo, walletsSide
  <1>2. /\ e \in AsEvent /\ e = asEvents[1]
        /\ asEvents' \in Seq(AsEvent)
        /\ \A i \in DOMAIN asEvents :
               i # 1 => i - 1 \in DOMAIN asEvents' /\ asEvents'[i - 1] = asEvents[i]
    BY <1>1, TailOf
  <1>3. CASE OnWalletStatus
    <2>1. e.kind = "status" /\ status' = e.held /\ Reads(status', info, requested)
      BY <1>3 DEF OnWalletStatus
    <2>2. status' \subseteq AssetIds
      BY <1>2, <2>1, EventTypes
    <2>3. /\ requested' \subseteq AssetIds /\ asked' \subseteq AssetIds
          /\ asked \subseteq asked'
          /\ \A id \in requested' : id \in requested \/ id \in asked'
      BY <2>1, <2>2, ReadsKeep DEF IInv, QueueInv
    <2>4. RequestedIsUnderWay'
      <3> SUFFICES ASSUME NEW id \in requested', id \notin asked'
                   PROVE  \E i \in DOMAIN asEvents' :
                              asEvents'[i].kind = "info" /\ asEvents'[i].id = id
        BY DEF RequestedIsUnderWay, InfoUnderWay
      <3>1. PICK i \in DOMAIN asEvents : asEvents[i].kind = "info" /\ asEvents[i].id = id
        BY <2>3 DEF IInv, RequestedIsUnderWay, InfoUnderWay
      <3> QED
        BY <1>2, <2>1, <3>1
    <2> QED
      BY <1>1, <1>2, <2>2, <2>3, <2>4 DEF IInv, QueueInv
  <1>4. CASE OnAssetInfo
    <2> DEFINE ids == IF e.version # 0 \/ info[e.id] # 0 THEN {e.id} \cap status ELSE {}
    <2>1. /\ e.kind = "info" /\ Reads(ids, info', requested \ {e.id})
          /\ UNCHANGED status
      BY <1>4 DEF OnAssetInfo, Erased
    <2>2. ids \in SUBSET AssetIds /\ requested \ {e.id} \in SUBSET AssetIds
      BY DEF IInv, QueueInv
    <2> HIDE DEF ids
    <2>3. /\ requested' \subseteq AssetIds /\ asked' \subseteq AssetIds
          /\ asked \subseteq asked'
          /\ \A id \in requested' : id \in requested \ {e.id} \/ id \in asked'
      BY <2>1, <2>2, ReadsKeep DEF IInv
    <2>4. RequestedIsUnderWay'
      <3> SUFFICES ASSUME NEW id \in requested', id \notin asked'
                   PROVE  \E i \in DOMAIN asEvents' :
                              asEvents'[i].kind = "info" /\ asEvents'[i].id = id
        BY DEF RequestedIsUnderWay, InfoUnderWay
      <3>1. PICK i \in DOMAIN asEvents : asEvents[i].kind = "info" /\ asEvents[i].id = id
        BY <2>3 DEF IInv, RequestedIsUnderWay, InfoUnderWay
      <3>2. id # e.id
        BY <2>3
      <3> QED
        BY <1>2, <3>1, <3>2
    <2> QED
      BY <1>1, <1>2, <2>1, <2>3, <2>4 DEF IInv, QueueInv
  <1> QED
    BY <1>3, <1>4

\* Pages that read assets.
LEMMA ReaderStep ==
    ASSUME IInv, ListTimerFires \/ OpenReader \/ CloseReader
    PROVE  IInv'
  <1>1. UNCHANGED <<held, onChain, asEvents, status>>
    BY DEF ListTimerFires, OpenReader, CloseReader, walletsSide
  <1>2. CASE ListTimerFires \/ OpenReader
    <2>1. PICK ids \in SUBSET AssetIds : Reads(ids, info, requested)
      BY <1>2 DEF ListTimerFires, OpenReader, IInv, QueueInv
    <2>2. /\ requested' \subseteq AssetIds /\ asked' \subseteq AssetIds
          /\ asked \subseteq asked'
          /\ \A id \in requested' : id \in requested \/ id \in asked'
      BY <2>1, ReadsKeep DEF IInv, QueueInv
    <2> QED
      BY <1>1, <2>2 DEF IInv, QueueInv, RequestedIsUnderWay, InfoUnderWay
  <1>3. CASE CloseReader
    BY <1>3, <1>1 DEF CloseReader, IInv, QueueInv, RequestedIsUnderWay, InfoUnderWay
  <1> QED
    BY <1>2, <1>3

-----------------------------------------------------------------------------
\* Whatever is noted as requested has its request or its answer under way, so
\* an asset whose information is missing is always asked for when it is read,
\* unless an answer is still to come.
THEOREM RequestsTheorem == AssetsSpec => []RequestedIsUnderWay
  <1>1. IInv /\ [AssetsNext]_assetsVars => IInv'
    <2> SUFFICES ASSUME IInv, [AssetsNext]_assetsVars
                 PROVE  IInv'
      OBVIOUS
    <2>1. CASE UNCHANGED assetsVars
      BY <2>1 DEF assetsVars, IInv, QueueInv, RequestedIsUnderWay, InfoUnderWay
    <2> QED
      BY <2>1, WalletStep, EventStep, ReaderStep DEF AssetsNext
  <1>2. IInv => RequestedIsUnderWay
    BY DEF IInv
  <1> QED
    BY <1>1, <1>2, InitInv, PTL DEF AssetsSpec

-----------------------------------------------------------------------------
(* The rows of the list. *)

AsRow == [id: AssetIds, version: Version]

ByNumber(rows) == \A i, j \in 1..Len(rows) : i < j => rows[i].id < rows[j].id

\* Rows in the order of their numbers, which are these.
SortedRows(rows, ids) ==
    /\ rows \in Seq(AsRow)
    /\ ByNumber(rows)
    /\ {rows[i].id : i \in DOMAIN rows} = ids

\* A new row may be put into any list.
LEMMA InsertSortedTypes ==
    ASSUME NEW rows \in Seq(AsRow), NEW id \in AssetIds
    PROVE  LET larger == {i \in DOMAIN rows : rows[i].id > id}
               m == IF larger = {} THEN Len(rows) + 1 ELSE Min(larger)
               x == [id |-> id, version |-> 0]
           IN  /\ m \in 1..Len(rows) + 1 /\ x \in AsRow
               /\ InsertSorted(rows, id) = InsertAt(rows, m, x)
               /\ InsertSorted(rows, id) \in Seq(AsRow)
               /\ larger # {} => m \in larger /\ \A k \in larger : m <= k
  <1> DEFINE larger == {i \in DOMAIN rows : rows[i].id > id}
             m == IF larger = {} THEN Len(rows) + 1 ELSE Min(larger)
             x == [id |-> id, version |-> 0]
  <1>1. /\ Len(rows) \in Nat /\ DOMAIN rows = 1..Len(rows)
        /\ larger \in SUBSET Nat /\ larger \subseteq 1..Len(rows)
    OBVIOUS
  <1>2. x \in AsRow
    BY AssetsAssumption DEF AsRow, Version
  <1>3. InsertSorted(rows, id) = InsertAt(rows, m, x)
    BY DEF InsertSorted
  <1> HIDE DEF larger, x
  <1>4. larger # {} => m \in larger /\ \A k \in larger : m <= k
    BY <1>1, MinOf
  <1>5. m \in 1..Len(rows) + 1
    <2>1. CASE larger = {}
      BY <1>1, <2>1
    <2>2. CASE larger # {}
      <3>1. m \in 1..Len(rows)
        BY <1>1, <1>4, <2>2
      <3> HIDE DEF m
      <3> QED
        BY <1>1, <3>1
    <2> QED
      BY <2>1, <2>2
  <1> HIDE DEF m
  <1>6. InsertAt(rows, m, x) \in Seq(AsRow)
    BY <1>2, <1>5, InsertAtPlaces
  <1> QED
    BY <1>2, <1>3, <1>4, <1>5, <1>6 DEF larger, m, x

\* A row put into a list moves those from its place on.
InsertedAt(s, list, m, x) ==
    /\ Len(s) = Len(list) + 1
    /\ \A k \in 1..Len(list) : k < m => s[k] = list[k]
    /\ s[m] = x
    /\ \A k \in 1..Len(list) : ~(k < m) => s[k + 1] = list[k]

LEMMA InsertedAtPlace ==
    ASSUME NEW T, NEW list \in Seq(T), NEW x \in T, NEW m \in 1..Len(list) + 1
    PROVE  InsertedAt(InsertAt(list, m, x), list, m, x)
  BY InsertAtPlaces DEF InsertedAt

\* Put before the first larger one it keeps the order.
LEMMA InsertSortedOf ==
    ASSUME NEW ids, NEW rows, SortedRows(rows, ids), NEW id \in AssetIds, id \notin ids
    PROVE  SortedRows(InsertSorted(rows, id), ids \cup {id})
  <1> DEFINE larger == {i \in DOMAIN rows : rows[i].id > id}
             m == IF larger = {} THEN Len(rows) + 1 ELSE Min(larger)
             x == [id |-> id, version |-> 0]
             s == InsertSorted(rows, id)
             N == Len(rows)
  <1>1. /\ rows \in Seq(AsRow) /\ N \in Nat /\ DOMAIN rows = 1..N
        /\ \A k \in 1..N : rows[k] \in AsRow
        /\ \A i, j \in 1..N : i < j => rows[i].id < rows[j].id
        /\ ids = {rows[i].id : i \in 1..N}
    BY DEF SortedRows, ByNumber
  <1>2. /\ m \in 1..N + 1 /\ x \in AsRow /\ s = InsertAt(rows, m, x) /\ s \in Seq(AsRow)
        /\ larger # {} => m \in larger /\ \A k \in larger : m <= k
    BY <1>1, InsertSortedTypes
  <1>3. \A k \in 1..N : rows[k].id \in Nat /\ rows[k].id # id
    BY <1>1, AssetsAssumption DEF AsRow
  <1>4. id \in Nat /\ \A k \in 1..N : k \in larger <=> rows[k].id > id
    BY <1>1, AssetsAssumption
  <1>5. x.id = id
    OBVIOUS
  <1>6. larger = {} => m = N + 1
    OBVIOUS
  <1>7. larger \subseteq 1..N
    BY <1>1
  <1> HIDE DEF larger, m, x, s, N
  <1>8. \A k \in 1..N : k < m => rows[k].id < id
    BY <1>2, <1>3, <1>4, <1>7
  <1>9. \A k \in 1..N : ~(k < m) => rows[k].id > id
    <2> SUFFICES ASSUME NEW k \in 1..N, ~(k < m)
                 PROVE  rows[k].id > id
      OBVIOUS
    <2>1. larger # {}
      BY <1>1, <1>6
    <2>2. m \in 1..N /\ rows[m].id > id
      BY <1>2, <1>4, <1>7, <2>1
    <2>3. k = m \/ m < k
      BY <1>1, <2>2
    <2> QED
      BY <1>1, <1>3, <1>4, <2>2, <2>3
  <1>10. /\ Len(s) = N + 1
         /\ \A k \in 1..N : k < m => s[k] = rows[k]
         /\ s[m] = x
         /\ \A k \in 1..N : ~(k < m) => s[k + 1] = rows[k]
    <2> DEFINE t == InsertAt(rows, m, x)
    <2>1. m \in 1..Len(rows) + 1
      BY <1>2 DEF N
    <2>2. /\ Len(t) = Len(rows) + 1
          /\ \A k \in 1..Len(rows) : k < m => t[k] = rows[k]
          /\ t[m] = x
          /\ \A k \in 1..Len(rows) : ~(k < m) => t[k + 1] = rows[k]
      <3>1. rows \in Seq(AsRow) /\ x \in AsRow
        BY <1>1, <1>2
      <3>2. InsertedAt(t, rows, m, x)
        BY <2>1, <3>1, InsertedAtPlace
      <3> QED
        BY <3>2 DEF InsertedAt
    <2>3. s = t
      BY <1>2
    <2> HIDE DEF t
    <2> QED
      BY <2>2, <2>3 DEF N
  <1>11. \A j \in 1..N + 1 : \/ j \in 1..N /\ j < m /\ s[j] = rows[j] /\ s[j].id < id
                             \/ j = m /\ s[j].id = id
                             \/ j > m /\ j - 1 \in 1..N /\ s[j] = rows[j - 1] /\ s[j].id > id
    <2> SUFFICES ASSUME NEW j \in 1..N + 1
                 PROVE  \/ j \in 1..N /\ j < m /\ s[j] = rows[j] /\ s[j].id < id
                        \/ j = m /\ s[j].id = id
                        \/ j > m /\ j - 1 \in 1..N /\ s[j] = rows[j - 1] /\ s[j].id > id
      OBVIOUS
    <2>1. CASE j < m
      BY <1>1, <1>2, <1>8, <1>10, <2>1
    <2>2. CASE j = m
      BY <1>5, <1>10, <2>2
    <2>3. CASE j > m
      <3>1. j - 1 \in 1..N /\ ~(j - 1 < m) /\ j - 1 + 1 = j
        BY <1>1, <1>2, <2>3
      <3> QED
        BY <1>9, <1>10, <2>3, <3>1
    <2> QED
      BY <1>1, <1>2, <2>1, <2>2, <2>3
  <1>12. ByNumber(s)
    <2> SUFFICES ASSUME NEW i \in 1..N + 1, NEW j \in 1..N + 1, i < j
                 PROVE  s[i].id < s[j].id
      BY <1>10 DEF ByNumber
    <2>1. s[i].id \in Nat /\ s[j].id \in Nat
      <3>1. i \in 1..Len(s) /\ j \in 1..Len(s)
        BY <1>10
      <3>2. \A k \in 1..Len(s) : s[k] \in AsRow
        BY <1>2
      <3> QED
        BY <3>1, <3>2, AssetsAssumption DEF AsRow
    <2>2. CASE i \in 1..N /\ i < m /\ s[i] = rows[i] /\ s[i].id < id
      <3>1. CASE j \in 1..N /\ j < m /\ s[j] = rows[j]
        BY <1>1, <2>2, <3>1
      <3>2. CASE s[j].id = id \/ s[j].id > id
        BY <1>4, <2>1, <2>2, <3>2
      <3> QED
        BY <1>11, <3>1, <3>2
    <2>3. CASE i = m /\ s[i].id = id
      <3>1. s[j].id > id
        BY <1>2, <1>11, <2>3
      <3> QED
        BY <2>3, <3>1, <1>4, <2>1
    <2>4. CASE i > m /\ i - 1 \in 1..N /\ s[i] = rows[i - 1] /\ s[i].id > id
      <3>1. j - 1 \in 1..N /\ s[j] = rows[j - 1]
        BY <1>2, <1>11, <2>4
      <3>2. i - 1 < j - 1
        OBVIOUS
      <3> QED
        BY <1>1, <2>4, <3>1, <3>2
    <2> QED
      BY <1>11, <2>2, <2>3, <2>4
  <1>13. {s[i].id : i \in DOMAIN s} = ids \cup {id}
    <2>1. ToSet(s) = ToSet(rows) \cup {x}
      BY <1>1, <1>2, InsertAtSet DEF N
    <2>2. {s[i].id : i \in DOMAIN s} = {r.id : r \in ToSet(s)}
      BY DEF ToSet
    <2>3. ids = {r.id : r \in ToSet(rows)}
      BY <1>1 DEF ToSet
    <2> QED
      BY <1>5, <2>1, <2>2, <2>3
  <1> QED
    BY <1>2, <1>12, <1>13 DEF SortedRows, s

\* Taking a row out keeps the order of the others.
LEMMA RemoveSorted ==
    ASSUME NEW rows \in Seq(AsRow), ByNumber(rows), NEW item
    PROVE  RemoveRow(rows, item) \in Seq(AsRow) /\ ByNumber(RemoveRow(rows, item))
  <1> DEFINE s == RemoveRow(rows, item)
             m == Min(RowsOf(rows, item.id))
  <1>1. s \in Seq(AsRow)
    BY RemoveRowOf
  <1>2. CASE RowsOf(rows, item.id) = {}
    BY <1>2 DEF RemoveRow
  <1>3. CASE RowsOf(rows, item.id) # {}
    <2>1. /\ Len(s) = Len(rows) - 1 /\ m \in 1..Len(rows)
          /\ \A k \in 1..Len(s) : s[k] = rows[IF k < m THEN k ELSE k + 1]
      BY <1>3, RemoveRowPlaces, Zenon
    <2>1a. Len(rows) \in Nat
      OBVIOUS
    <2> HIDE DEF s, m
    <2>2. ByNumber(s)
      <3> SUFFICES ASSUME NEW i \in 1..Len(s), NEW j \in 1..Len(s), i < j
                   PROVE  s[i].id < s[j].id
        BY DEF ByNumber
      <3> DEFINE a == IF i < m THEN i ELSE i + 1
                 b == IF j < m THEN j ELSE j + 1
      <3>1. a \in 1..Len(rows) /\ b \in 1..Len(rows) /\ a < b
        BY <2>1, <2>1a
      <3>2. s[i] = rows[a] /\ s[j] = rows[b]
        BY <2>1
      <3> HIDE DEF a, b
      <3> QED
        BY <3>1, <3>2 DEF ByNumber
    <2> QED
      BY <1>1, <2>2 DEF s
  <1> QED
    BY <1>2, <1>3

\* New rows, one after the other, come to their places.
LEMMA InsertAllOf ==
    ASSUME NEW ids, NEW rows, SortedRows(rows, ids), NEW new \in Seq(AssetIds),
           \A i, j \in 1..Len(new) : i # j => new[i] # new[j],
           \A i \in 1..Len(new) : new[i] \notin ids
    PROVE  SortedRows(InTurn(InsertSorted, rows, new), ids \cup {new[i] : i \in 1..Len(new)})
  <1> DEFINE N == Len(new)
             S == Seq(AsRow)
             step == [a \in S \X (1..N) |-> InsertSorted(a[1], new[a[2]])]
             Is(f) == f = [n \in 0..N |-> IF n = 0 THEN rows ELSE InsertSorted(f[n - 1], new[n])]
             First(n) == {new[i] : i \in 1..n}
  <1>1. N \in Nat /\ \A n \in 1..N : new[n] \in AssetIds
    OBVIOUS
  <1>2. step \in [S \X (1..N) -> S] /\ rows \in S
    BY <1>1, InsertSortedTypes DEF SortedRows
  <1>3. PICK f \in [0..N -> S] : f[0] = rows /\ \A n \in 1..N : f[n] = step[<<f[n - 1], n>>]
    <2> HIDE DEF step, N, S
    <2>1. \E f \in [0..N -> S] : Follows(f, rows, N, step)
      BY <1>1, <1>2, StepsExist
    <2> QED
      BY <2>1 DEF Follows
  <1>4. \A n \in 1..N : f[n - 1] \in S /\ f[n] = InsertSorted(f[n - 1], new[n])
    <2> HIDE DEF S
    <2> TAKE n \in 1..N
    <2>1. n - 1 \in 0..N
      BY <1>1
    <2>2. f[n - 1] \in S
      BY <1>3, <2>1
    <2>3. step[<<f[n - 1], n>>] = InsertSorted(f[n - 1], new[n])
      BY <2>2
    <2> QED
      BY <1>3, <2>2, <2>3
  <1> HIDE DEF step
  <1>5. Is(f)
    BY <1>1, <1>3, <1>4
  <1> DEFINE g == CHOOSE h : Is(h)
  <1>6. Is(g)
    <2> HIDE DEF Is
    <2> QED
      BY <1>5
  <1>7. InTurn(InsertSorted, rows, new) = g[N]
    BY Zenon DEF InTurn
  <1> HIDE DEF g
  <1>8. g[0] = rows /\ \A n \in 1..N : g[n] = InsertSorted(g[n - 1], new[n])
    BY <1>1, <1>6
  <1> DEFINE U == {n \in 0..N : SortedRows(g[n], ids \cup First(n))}
  <1>9. 0 \in U
    <2>1. First(0) = {}
      OBVIOUS
    <2>2. ids \cup First(0) = ids
      BY <2>1
    <2> HIDE DEF First
    <2>3. SortedRows(g[0], ids \cup First(0))
      BY <1>8, <2>2
    <2> QED
      BY <1>1, <2>3
  <1>10. ASSUME NEW n \in 0..N - 1, n \in U
         PROVE  n + 1 \in U
    <2>1. n + 1 \in 1..N /\ n + 1 - 1 = n /\ n + 1 \in 0..N /\ n \in Nat
      BY <1>1
    <2>2. g[n + 1] = InsertSorted(g[n], new[n + 1]) /\ SortedRows(g[n], ids \cup First(n))
      BY <1>8, <1>10, <2>1
    <2>3. new[n + 1] \in AssetIds /\ new[n + 1] \notin ids /\ new[n + 1] \notin First(n)
      <3>1. \A i \in 1..n : i \in 1..N /\ i # n + 1
        BY <1>1, <2>1
      <3> QED
        BY <1>1, <2>1, <3>1
    <2>4. (ids \cup First(n)) \cup {new[n + 1]} = ids \cup First(n + 1)
      <3>1. \A i : i \in 1..(n + 1) <=> i \in 1..n \/ i = n + 1
        BY <2>1
      <3> QED
        BY <3>1
    <2> HIDE DEF First
    <2>5. SortedRows(g[n + 1], (ids \cup First(n)) \cup {new[n + 1]})
      BY <2>2, <2>3, InsertSortedOf
    <2> QED
      BY <2>1, <2>4, <2>5
  <1>11. \A n \in 0..N : n \in U
    <2> HIDE DEF U
    <2> QED
      BY <1>1, <1>9, <1>10, BoundedInduction
  <1>12. N \in 0..N
    BY <1>1
  <1>13. SortedRows(g[N], ids \cup First(N))
    BY <1>11, <1>12
  <1> QED
    BY <1>7, <1>13

\* Nor does taking out several.
LEMMA RemoveItemsSorted ==
    ASSUME NEW rows \in Seq(AsRow), NEW items \in Seq(AsRow), ByNumber(rows)
    PROVE  ListRemove(rows, items) \in Seq(AsRow) /\ ByNumber(ListRemove(rows, items))
  <1> DEFINE N == Len(items)
             after == ListRemove(rows, items)
  <1>1. N \in Nat
    OBVIOUS
  <1>2. PICK f \in [0..N -> Seq(AsRow)] :
             /\ f[0] = rows
             /\ \A n \in 1..N : f[n] = RemoveRow(f[n - 1], items[n])
             /\ after = f[N]
    BY ListRemoveSteps
  <1> HIDE DEF N, after
  <1> DEFINE U == {n \in 0..N : ByNumber(f[n])}
  <1>3. 0 \in U
    BY <1>1, <1>2
  <1>4. ASSUME NEW n \in 0..N - 1, n \in U
        PROVE  n + 1 \in U
    <2>1. n + 1 \in 1..N /\ n + 1 - 1 = n /\ n + 1 \in 0..N /\ n \in 0..N
      BY <1>1
    <2>2. f[n] \in Seq(AsRow) /\ ByNumber(f[n]) /\ f[n + 1] = RemoveRow(f[n], items[n + 1])
      BY <1>2, <1>4, <2>1
    <2>3. ByNumber(f[n + 1])
      BY <2>2, RemoveSorted
    <2> QED
      BY <2>1, <2>3
  <1>5. \A n \in 0..N : n \in U
    <2> HIDE DEF U
    <2> QED
      BY <1>1, <1>3, <1>4, BoundedInduction
  <1>6. N \in 0..N
    BY <1>1
  <1> QED
    BY <1>2, <1>5, <1>6 DEF after

\* Taking out those that are not to stay leaves the others in order.
LEMMA RemoveAllSorted ==
    ASSUME NEW ids, NEW rows, SortedRows(rows, ids), NEW now
    PROVE  SortedRows(ListRemove(rows, ItemsAt(rows, {i \in DOMAIN rows : rows[i].id \notin now})),
                      ids \cap now)
  <1> DEFINE P == {i \in DOMAIN rows : rows[i].id \notin now}
             items == ItemsAt(rows, P)
             after == ListRemove(rows, items)
  <1>1. /\ rows \in Seq(AsRow) /\ ByNumber(rows) /\ ids = {rows[i].id : i \in DOMAIN rows}
        /\ P \in SUBSET DOMAIN rows
    BY DEF SortedRows
  <1>2. DistinctIds(rows)
    <2>1. DOMAIN rows = 1..Len(rows) /\ Len(rows) \in Nat /\ \A i \in 1..Len(rows) : rows[i] \in AsRow
      BY <1>1
    <2>2. \A i \in 1..Len(rows) : rows[i].id \in Nat
      BY <2>1, AssetsAssumption DEF AsRow
    <2>3. ASSUME NEW i \in 1..Len(rows), NEW j \in 1..Len(rows), i # j
          PROVE  rows[i].id # rows[j].id
      <3>1. CASE i < j
        BY <1>1, <2>2, <3>1 DEF ByNumber
      <3>2. CASE j < i
        BY <1>1, <2>2, <3>2 DEF ByNumber
      <3> QED
        BY <2>1, <2>3, <3>1, <3>2
    <2> QED
      BY <2>1, <2>3 DEF DistinctIds
  <1> HIDE DEF P
  <1>3. items \in Seq(AsRow) /\ ToSet(items) = {rows[i] : i \in P}
    BY <1>1, ItemsAtSet
  <1> HIDE DEF items
  <1>4. ToSet(after) = {r \in ToSet(rows) : \A x \in ToSet(items) : r.id # x.id}
    BY <1>1, <1>2, <1>3, ListRemoveOf
  <1>5. {after[i].id : i \in DOMAIN after} = ids \cap now
    <2>1. {after[i].id : i \in DOMAIN after} = {r.id : r \in ToSet(after)}
      BY DEF ToSet
    <2>2. ids = {r.id : r \in ToSet(rows)}
      BY <1>1 DEF ToSet
    <2>3. \A r : r \in ToSet(items) <=> r \in ToSet(rows) /\ r.id \notin now
      BY <1>3 DEF P, ToSet
    <2>4. \A r : r \in ToSet(after) <=> r \in ToSet(rows) /\ r.id \in now
      <3> HIDE DEF after
      <3> QED
        BY <1>4, <2>3
    <2> HIDE DEF after
    <2> QED
      BY <2>1, <2>2, <2>4
  <1>6. after \in Seq(AsRow) /\ ByNumber(after)
    <2>1. items \in Seq(AsRow)
      BY <1>3
    <2> QED
      BY <1>1, <2>1, RemoveItemsSorted
  <1> QED
    BY <1>5, <1>6 DEF SortedRows, after, items, P

\* The list that is made of the first assets is in their order.
LEMMA FirstRowsOf ==
    ASSUME NEW new \in Seq(AssetIds), \A i, j \in 1..Len(new) : i < j => new[i] < new[j]
    PROVE  SortedRows(ListReset(Reverse([i \in DOMAIN new |-> [id |-> new[i], version |-> 0]])),
                      {new[i] : i \in 1..Len(new)})
  <1> DEFINE N == Len(new)
             F == [i \in DOMAIN new |-> [id |-> new[i], version |-> 0]]
             s == ListReset(Reverse(F))
  <1>1. N \in Nat /\ DOMAIN new = 1..N /\ \A i \in 1..N : new[i] \in AssetIds
    OBVIOUS
  <1>2. \A id \in AssetIds : [id |-> id, version |-> 0] \in AsRow
    BY AssetsAssumption DEF AsRow, Version
  <1>3. F \in Seq(AsRow) /\ Len(F) = N /\ \A i \in 1..N : F[i].id = new[i]
    BY <1>1, <1>2
  <1> HIDE DEF F
  <1>4. Reverse(F) = ListReset(F)
    BY DEF ListReset
  <1>5. /\ ListReset(F) \in Seq(AsRow) /\ Len(ListReset(F)) = N
        /\ \A i \in 1..N : ListReset(F)[i] = F[N - i + 1]
    BY <1>3, ListResetOf
  <1>6. /\ s \in Seq(AsRow) /\ Len(s) = N
        /\ \A i \in 1..N : s[i] = ListReset(F)[N - i + 1]
    BY <1>4, <1>5, ListResetOf
  <1> HIDE DEF s
  <1>7. \A i \in 1..N : s[i].id = new[i]
    <2> TAKE i \in 1..N
    <2>1. N - i + 1 \in 1..N /\ N - (N - i + 1) + 1 = i
      BY <1>1
    <2> QED
      BY <1>3, <1>5, <1>6, <2>1
  <1>8. ByNumber(s)
    BY <1>6, <1>7 DEF ByNumber
  <1>9. {s[i].id : i \in DOMAIN s} = {new[i] : i \in 1..N}
    <2>1. DOMAIN s = 1..N
      BY <1>6
    <2> QED
      BY <1>7, <2>1
  <1> QED
    BY <1>6, <1>8, <1>9 DEF SortedRows, s, F

\* After the status the list has what is held.
LEMMA ListOfHeld ==
    ASSUME NEW ids, NEW rows, SortedRows(rows, ids), NEW now \in SUBSET AssetIds
    PROVE  SortedRows(ListOf(rows, now), now)
  <1> DEFINE S == now \ {rows[i].id : i \in DOMAIN rows}
             new == Ascending(S)
             N == Cardinality(S)
  <1>1. ids = {rows[i].id : i \in DOMAIN rows} /\ S = now \ ids
    BY DEF SortedRows
  <1>2. S \in SUBSET Int /\ S \subseteq AssetIds /\ IsFiniteSet(S)
    <2>1. S \subseteq AssetIds
      OBVIOUS
    <2> HIDE DEF S
    <2>2. IsFiniteSet(S)
      BY <2>1, AssetsAssumption, FS_Subset
    <2>3. S \in SUBSET Int
      BY <2>1, AssetsAssumption
    <2> QED
      BY <2>1, <2>2, <2>3
  <1> HIDE DEF S
  <1>3. /\ N \in Nat /\ new \in [1..N -> S]
        /\ \A i, j \in 1..N : i < j => new[i] < new[j]
        /\ \A x \in S : \E i \in 1..N : new[i] = x
    BY <1>2, AscendingOrder
  <1> HIDE DEF new, N
  <1>4. /\ new \in Seq(AssetIds) /\ Len(new) = N /\ DOMAIN new = 1..N
        /\ \A i \in 1..N : new[i] \in S
    <2>1. \A i \in 1..N : new[i] \in S
      BY <1>3
    <2>2. new \in [1..N -> AssetIds]
      BY <1>2, <1>3
    <2> QED
      BY <1>3, <2>1, <2>2
  <1>5. {new[i] : i \in 1..N} = S
    BY <1>3, <1>4
  <1>6. CASE rows = <<>>
    <2>1. ListOf(rows, now) = ListReset(Reverse([i \in DOMAIN new |-> [id |-> new[i], version |-> 0]]))
      BY <1>6 DEF ListOf, new, S
    <2>2. ids = {}
      BY <1>1, <1>6
    <2>3. SortedRows(ListOf(rows, now), S)
      BY <1>3, <1>4, <1>5, <2>1, FirstRowsOf
    <2> QED
      BY <1>1, <2>2, <2>3
  <1>7. CASE rows # <<>>
    <2> DEFINE all == InTurn(InsertSorted, rows, new)
    <2>1. ListOf(rows, now) =
              ListRemove(all, ItemsAt(all, {i \in DOMAIN all : all[i].id \notin now}))
      BY <1>7, Zenon DEF ListOf, new, S
    <2>2. \A i, j \in 1..N : i # j => new[i] # new[j]
      <3> SUFFICES ASSUME NEW i \in 1..N, NEW j \in 1..N, i # j
                   PROVE  new[i] # new[j]
        OBVIOUS
      <3>1. new[i] \in Int /\ new[j] \in Int
        BY <1>2, <1>4
      <3>2. i < j \/ j < i
        BY <1>3
      <3> QED
        BY <1>3, <3>1, <3>2
    <2>3. SortedRows(all, ids \cup {new[i] : i \in 1..Len(new)})
      BY <1>1, <1>4, <2>2, InsertAllOf
    <2>4. SortedRows(all, ids \cup S)
      BY <1>4, <1>5, <2>3
    <2> HIDE DEF all
    <2>5. SortedRows(ListOf(rows, now), (ids \cup S) \cap now)
      BY <2>1, <2>4, RemoveAllSorted
    <2>6. (ids \cup S) \cap now = now
      BY <1>1
    <2> QED
      BY <2>5, <2>6
  <1> QED
    BY <1>6, <1>7

-----------------------------------------------------------------------------
(* The list and what is told.                                              *)

IsInfo(e, id) == e.kind = "info" /\ e.id = id

\* The last status told is what is held.
StatusTold ==
    /\ \A i \in DOMAIN asEvents :
           /\ asEvents[i].kind = "status"
           /\ \A j \in DOMAIN asEvents : j > i => asEvents[j].kind # "status"
           => asEvents[i].held = held
    /\ (\A i \in DOMAIN asEvents : asEvents[i].kind # "status") => status = held

\* The last information told of an asset is what the wallet knows of it, and
\* where none is to come it has arrived, or was never told: then whoever shows
\* the asset has asked.
InfoTold ==
    \A id \in AssetIds :
        /\ \A i \in DOMAIN asEvents :
               /\ IsInfo(asEvents[i], id)
               /\ \A j \in DOMAIN asEvents : j > i => ~IsInfo(asEvents[j], id)
               => asEvents[i].version = onChain[id]
        /\ (\A i \in DOMAIN asEvents : ~IsInfo(asEvents[i], id)) =>
               \/ info[id] = onChain[id]
               \/ info[id] = 0 /\ (id \in status => id \in requested)

ListInv ==
    /\ IInv
    /\ info \in [AssetIds -> Version]
    /\ SortedRows(assetRows, status)
    /\ \A i \in DOMAIN assetRows : assetRows[i].version = info[assetRows[i].id]
    /\ StatusTold
    /\ InfoTold

LEMMA ListInitInv == AssetsInit => ListInv
  <1> SUFFICES ASSUME AssetsInit
               PROVE  ListInv
    OBVIOUS
  <1>1. IInv
    BY InitInv
  <1>2. /\ status = {} /\ assetRows = <<>> /\ info = [id \in AssetIds |-> 0]
        /\ asEvents = <<[kind |-> "status", held |-> held]>>
    BY DEF AssetsInit
  <1>3. info \in [AssetIds -> Version]
    BY <1>2, AssetsAssumption DEF Version
  <1>4. SortedRows(assetRows, status)
    BY <1>2 DEF SortedRows, ByNumber
  <1>5. DOMAIN asEvents = {1} /\ asEvents[1].kind = "status" /\ asEvents[1].held = held
    BY <1>2
  <1>6. StatusTold
    BY <1>5 DEF StatusTold
  <1>7. InfoTold
    BY <1>2, <1>5 DEF InfoTold, IsInfo
  <1> QED
    BY <1>1, <1>2, <1>3, <1>4, <1>6, <1>7 DEF ListInv

\* What the wallet tells.
LEMMA ListToldKeeps ==
    ASSUME ListInv, IInv', NEW e \in AsEvent, asEvents' = Append(asEvents, e),
           UNCHANGED <<status, info, requested, assetRows>>,
           \/ e.kind = "status" /\ held' = e.held /\ onChain' = onChain
           \/ /\ e.kind = "info" /\ held' = held /\ e.version = onChain'[e.id]
              /\ \A id \in AssetIds : id # e.id => onChain'[id] = onChain[id]
    PROVE  ListInv'
  <1> DEFINE n == Len(asEvents) + 1
  <1>1. asEvents \in Seq(AsEvent)
    BY DEF ListInv, IInv, QueueInv
  <1>2. /\ n \in DOMAIN asEvents' /\ asEvents'[n] = e
        /\ \A i \in DOMAIN asEvents : i \in DOMAIN asEvents' /\ asEvents'[i] = asEvents[i] /\ i < n
        /\ \A i \in DOMAIN asEvents' : i \in DOMAIN asEvents \/ i = n
        /\ \A i \in DOMAIN asEvents' : ~(i > n)
    BY <1>1, AppendPlaces
  <1> HIDE DEF n
  <1>3. StatusTold'
    <2>1. /\ \A i \in DOMAIN asEvents :
                 /\ asEvents[i].kind = "status"
                 /\ \A j \in DOMAIN asEvents : j > i => asEvents[j].kind # "status"
                 => asEvents[i].held = held
          /\ (\A i \in DOMAIN asEvents : asEvents[i].kind # "status") => status = held
      BY DEF ListInv, StatusTold
    <2>2. ASSUME NEW i \in DOMAIN asEvents', asEvents'[i].kind = "status",
                 \A j \in DOMAIN asEvents' : j > i => asEvents'[j].kind # "status"
          PROVE  asEvents'[i].held = held'
      <3>1. CASE i = n
        BY <1>2, <2>2, <3>1
      <3>2. CASE i \in DOMAIN asEvents
        <4>1. e.kind # "status"
          BY <1>2, <2>2, <3>2
        <4>2. \A j \in DOMAIN asEvents : j > i => asEvents[j].kind # "status"
          BY <1>2, <2>2
        <4> QED
          BY <1>2, <2>1, <2>2, <3>2, <4>1, <4>2
      <3> QED
        BY <1>2, <3>1, <3>2
    <2>3. ASSUME \A i \in DOMAIN asEvents' : asEvents'[i].kind # "status"
          PROVE  status' = held'
      <3>1. e.kind # "status" /\ \A i \in DOMAIN asEvents : asEvents[i].kind # "status"
        BY <1>2, <2>3
      <3> QED
        BY <2>1, <3>1
    <2> QED
      BY <2>2, <2>3 DEF StatusTold
  <1>4. InfoTold'
    <2> SUFFICES ASSUME NEW id \in AssetIds
                 PROVE  /\ \A i \in DOMAIN asEvents' :
                               /\ IsInfo(asEvents'[i], id)
                               /\ \A j \in DOMAIN asEvents' : j > i => ~IsInfo(asEvents'[j], id)
                               => asEvents'[i].version = onChain'[id]
                        /\ (\A i \in DOMAIN asEvents' : ~IsInfo(asEvents'[i], id)) =>
                               \/ info'[id] = onChain'[id]
                               \/ info'[id] = 0 /\ (id \in status' => id \in requested')
      BY DEF InfoTold
    <2>1. /\ \A i \in DOMAIN asEvents :
                 /\ IsInfo(asEvents[i], id)
                 /\ \A j \in DOMAIN asEvents : j > i => ~IsInfo(asEvents[j], id)
                 => asEvents[i].version = onChain[id]
          /\ (\A i \in DOMAIN asEvents : ~IsInfo(asEvents[i], id)) =>
                 \/ info[id] = onChain[id]
                 \/ info[id] = 0 /\ (id \in status => id \in requested)
      BY DEF ListInv, InfoTold
    <2>2. /\ IsInfo(e, id) => e.version = onChain'[id]
          /\ ~IsInfo(e, id) => onChain'[id] = onChain[id]
      BY DEF IsInfo
    <2>3. ASSUME NEW i \in DOMAIN asEvents', IsInfo(asEvents'[i], id),
                 \A j \in DOMAIN asEvents' : j > i => ~IsInfo(asEvents'[j], id)
          PROVE  asEvents'[i].version = onChain'[id]
      <3>1. CASE i = n
        BY <1>2, <2>2, <2>3, <3>1
      <3>2. CASE i \in DOMAIN asEvents
        <4>1. ~IsInfo(e, id)
          BY <1>2, <2>3, <3>2
        <4>2. \A j \in DOMAIN asEvents : j > i => ~IsInfo(asEvents[j], id)
          BY <1>2, <2>3
        <4> QED
          BY <1>2, <2>1, <2>2, <2>3, <3>2, <4>1, <4>2
      <3> QED
        BY <1>2, <3>1, <3>2
    <2>4. ASSUME \A i \in DOMAIN asEvents' : ~IsInfo(asEvents'[i], id)
          PROVE  \/ info[id] = onChain'[id]
                 \/ info[id] = 0 /\ (id \in status => id \in requested)
      <3>1. ~IsInfo(e, id) /\ \A i \in DOMAIN asEvents : ~IsInfo(asEvents[i], id)
        BY <1>2, <2>4
      <3> QED
        BY <2>1, <2>2, <3>1
    <2> QED
      BY <2>3, <2>4
  <1> QED
    BY <1>3, <1>4 DEF ListInv

LEMMA ListWalletKeeps ==
    ASSUME ListInv,
           \/ \E now \in SUBSET AssetIds : HoldingsChange(now)
           \/ \E id \in AssetIds : AssetChanges(id)
           \/ \E id \in AssetIds : AnswerInfo(id)
    PROVE  ListInv'
  <1>0. IInv'
    BY WalletStep DEF ListInv
  <1>1. onChain \in [AssetIds -> Version]
    BY DEF ListInv, IInv, QueueInv
  <1>2. CASE \E now \in SUBSET AssetIds : HoldingsChange(now)
    <2> PICK now \in SUBSET AssetIds : HoldingsChange(now)
      BY <1>2
    <2> DEFINE e == [kind |-> "status", held |-> now]
    <2>1. e \in AsEvent /\ e.kind = "status" /\ e.held = now
      BY EventTypes
    <2>2. asEvents' = Append(asEvents, e) /\ held' = now
          /\ UNCHANGED <<onChain, status, info, requested, assetRows>>
      BY DEF HoldingsChange, uiSide
    <2> HIDE DEF e
    <2> QED
      BY <1>0, <2>1, <2>2, ListToldKeeps
  <1>3. CASE \E id \in AssetIds : AssetChanges(id)
    <2> PICK id \in AssetIds : AssetChanges(id)
      BY <1>3
    <2>1. PICK version \in Version :
              onChain' = [onChain EXCEPT ![id] = version] /\ Tells(id, version)
      BY DEF AssetChanges
    <2> DEFINE e == [kind |-> "info", id |-> id, version |-> version]
    <2>2. e \in AsEvent /\ e.kind = "info" /\ e.id = id /\ e.version = version
      BY EventTypes
    <2>3. asEvents' = Append(asEvents, e) /\ UNCHANGED <<held, status, info, requested, assetRows>>
      BY <2>1 DEF AssetChanges, Tells, uiSide
    <2> HIDE DEF e
    <2>4. onChain'[id] = version /\ \A a \in AssetIds : a # id => onChain'[a] = onChain[a]
      BY <1>1, <2>1
    <2> QED
      BY <1>0, <2>2, <2>3, <2>4, ListToldKeeps
  <1>4. CASE \E id \in AssetIds : AnswerInfo(id)
    <2> PICK id \in AssetIds : AnswerInfo(id)
      BY <1>4
    <2> DEFINE e == [kind |-> "info", id |-> id, version |-> onChain[id]]
    <2>1. e \in AsEvent /\ e.kind = "info" /\ e.id = id /\ e.version = onChain[id]
      BY <1>1, EventTypes
    <2>2. asEvents' = Append(asEvents, e)
          /\ UNCHANGED <<held, onChain, status, info, requested, assetRows>>
      BY DEF AnswerInfo, Tells, uiSide, walletsSide
    <2> HIDE DEF e
    <2> QED
      BY <1>0, <2>1, <2>2, ListToldKeeps
  <1> QED
    BY <1>2, <1>3, <1>4

\* Rows read anew stay where they are.
LEMMA RowsWithOf ==
    ASSUME NEW rows, NEW ids, SortedRows(rows, ids), NEW known \in [AssetIds -> Version]
    PROVE  /\ SortedRows(RowsWith(rows, known), ids)
           /\ \A i \in DOMAIN RowsWith(rows, known) :
                  RowsWith(rows, known)[i].version = known[RowsWith(rows, known)[i].id]
  <1> DEFINE s == RowsWith(rows, known)
  <1>1. /\ rows \in Seq(AsRow) /\ ByNumber(rows) /\ ids = {rows[i].id : i \in DOMAIN rows}
        /\ Len(rows) \in Nat /\ DOMAIN rows = 1..Len(rows)
        /\ \A i \in 1..Len(rows) : rows[i] \in AsRow
    BY DEF SortedRows
  <1>2. \A r \in AsRow : \A v \in Version :
            /\ [r EXCEPT !.version = v] \in AsRow
            /\ [r EXCEPT !.version = v].id = r.id
            /\ [r EXCEPT !.version = v].version = v
    BY DEF AsRow
  <1>3. \A r \in AsRow : known[r.id] \in Version
    BY DEF AsRow
  <1>4. /\ DOMAIN s = 1..Len(rows)
        /\ \A i \in 1..Len(rows) : s[i] = [rows[i] EXCEPT !.version = known[rows[i].id]]
    BY <1>1 DEF RowsWith
  <1>5. \A i \in 1..Len(rows) : /\ s[i] \in AsRow /\ s[i].id = rows[i].id
                                /\ s[i].version = known[rows[i].id]
    <2> TAKE i \in 1..Len(rows)
    <2>1. rows[i] \in AsRow
      BY <1>1
    <2>2. known[rows[i].id] \in Version
      BY <1>3, <2>1
    <2>3. s[i] = [rows[i] EXCEPT !.version = known[rows[i].id]]
      BY <1>4
    <2> HIDE DEF s
    <2> QED
      BY <1>2, <2>1, <2>2, <2>3
  <1>6. s = [i \in 1..Len(rows) |-> s[i]]
    BY <1>1 DEF RowsWith
  <1> HIDE DEF s
  <1>7. s \in Seq(AsRow) /\ Len(s) = Len(rows)
    BY <1>1, <1>4, <1>5, <1>6
  <1>8. ByNumber(s)
    BY <1>1, <1>5, <1>7 DEF ByNumber
  <1>9. {s[i].id : i \in DOMAIN s} = ids
    BY <1>1, <1>4, <1>5
  <1> QED
    BY <1>4, <1>5, <1>7, <1>8, <1>9 DEF SortedRows, s

\* Reading notes every asset read whose information is missing.
LEMMA ReadsNote ==
    ASSUME NEW ids, NEW known, NEW before, Reads(ids, known, before)
    PROVE  /\ before \subseteq requested'
           /\ \A id \in ids : known[id] = 0 => id \in requested'
  BY DEF Reads

LEMMA ListEventKeeps ==
    ASSUME ListInv, OnWalletStatus \/ OnAssetInfo
    PROVE  ListInv'
  <1> DEFINE e == Head(asEvents)
  <1>0. IInv'
    BY EventStep DEF ListInv
  <1>1. /\ asEvents \in Seq(AsEvent) /\ asEvents # <<>> /\ asEvents' = Tail(asEvents)
        /\ UNCHANGED <<held, onChain>> /\ status \subseteq AssetIds
    BY DEF ListInv, IInv, QueueInv, OnWalletStatus, OnAssetInfo, walletsSide
  <1>2. /\ e \in AsEvent /\ e = asEvents[1] /\ 1 \in DOMAIN asEvents /\ DOMAIN asEvents \subseteq Nat
        /\ \A i \in DOMAIN asEvents' :
               i + 1 \in DOMAIN asEvents /\ asEvents'[i] = asEvents[i + 1]
        /\ \A i \in DOMAIN asEvents :
               i # 1 => i - 1 \in DOMAIN asEvents' /\ asEvents'[i - 1] = asEvents[i]
    BY <1>1, TailOf, TailPlaces
  <1>2a. \A i \in DOMAIN asEvents' : \A j \in DOMAIN asEvents : j > i + 1 =>
             j - 1 \in DOMAIN asEvents' /\ asEvents'[j - 1] = asEvents[j] /\ j - 1 > i
    <2>1. \A i \in DOMAIN asEvents' : i \in Nat /\ i >= 1
      BY <1>1
    <2> SUFFICES ASSUME NEW i \in DOMAIN asEvents', NEW j \in DOMAIN asEvents, j > i + 1
                 PROVE  j - 1 \in DOMAIN asEvents' /\ asEvents'[j - 1] = asEvents[j] /\ j - 1 > i
      OBVIOUS
    <2>2. j # 1 /\ j - 1 > i
      BY <1>2, <2>1
    <2> QED
      BY <1>2, <2>2
  <1>2b. \A j \in DOMAIN asEvents : j > 1 => j # 1
    BY <1>2
  <1> HIDE DEF e
  <1>3. /\ \A i \in DOMAIN asEvents :
               /\ asEvents[i].kind = "status"
               /\ \A j \in DOMAIN asEvents : j > i => asEvents[j].kind # "status"
               => asEvents[i].held = held
        /\ (\A i \in DOMAIN asEvents : asEvents[i].kind # "status") => status = held
    BY DEF ListInv, StatusTold
  <1>4. \A id \in AssetIds :
            /\ \A i \in DOMAIN asEvents :
                   /\ IsInfo(asEvents[i], id)
                   /\ \A j \in DOMAIN asEvents : j > i => ~IsInfo(asEvents[j], id)
                   => asEvents[i].version = onChain[id]
            /\ (\A i \in DOMAIN asEvents : ~IsInfo(asEvents[i], id)) =>
                   \/ info[id] = onChain[id]
                   \/ info[id] = 0 /\ (id \in status => id \in requested)
    BY DEF ListInv, InfoTold
  <1>5. \A i \in DOMAIN asEvents' :
            /\ asEvents'[i].kind = "status"
            /\ \A j \in DOMAIN asEvents' : j > i => asEvents'[j].kind # "status"
            => asEvents'[i].held = held
    <2> SUFFICES ASSUME NEW i \in DOMAIN asEvents', asEvents'[i].kind = "status",
                        \A j \in DOMAIN asEvents' : j > i => asEvents'[j].kind # "status"
                 PROVE  asEvents'[i].held = held
      OBVIOUS
    <2>1. \A j \in DOMAIN asEvents : j > i + 1 => asEvents[j].kind # "status"
      BY <1>2a
    <2> QED
      BY <1>2, <1>3, <2>1
  <1>6. \A id \in AssetIds : \A i \in DOMAIN asEvents' :
            /\ IsInfo(asEvents'[i], id)
            /\ \A j \in DOMAIN asEvents' : j > i => ~IsInfo(asEvents'[j], id)
            => asEvents'[i].version = onChain[id]
    <2> SUFFICES ASSUME NEW id \in AssetIds,
                        NEW i \in DOMAIN asEvents', IsInfo(asEvents'[i], id),
                        \A j \in DOMAIN asEvents' : j > i => ~IsInfo(asEvents'[j], id)
                 PROVE  asEvents'[i].version = onChain[id]
      OBVIOUS
    <2>1. \A j \in DOMAIN asEvents : j > i + 1 => ~IsInfo(asEvents[j], id)
      BY <1>2a
    <2> QED
      BY <1>2, <1>4, <2>1
  <1>7. CASE OnWalletStatus
    <2>1. /\ e.kind = "status" /\ status' = e.held /\ Reads(status', info, requested)
          /\ info' = info /\ assetRows' = RowsWith(ListOf(assetRows, status'), info)
      BY <1>7 DEF OnWalletStatus, e
    <2>2. status' \in SUBSET AssetIds /\ info \in [AssetIds -> Version]
          /\ SortedRows(assetRows, status)
      BY <1>2, <2>1, EventTypes DEF ListInv
    <2>3. SortedRows(ListOf(assetRows, status'), status')
      BY <2>2, ListOfHeld
    <2>4. /\ SortedRows(assetRows', status')
          /\ \A i \in DOMAIN assetRows' : assetRows'[i].version = info'[assetRows'[i].id]
      BY <2>1, <2>2, <2>3, RowsWithOf
    <2>5. (\A i \in DOMAIN asEvents' : asEvents'[i].kind # "status") => status' = held'
      <3> SUFFICES ASSUME \A i \in DOMAIN asEvents' : asEvents'[i].kind # "status"
                   PROVE  status' = held
        BY <1>1
      <3>1. \A j \in DOMAIN asEvents : j > 1 => asEvents[j].kind # "status"
        BY <1>2, <1>2b
      <3> QED
        BY <1>2, <1>3, <2>1, <3>1
    <2>6. StatusTold'
      BY <1>1, <1>5, <2>5 DEF StatusTold
    <2>7. ASSUME NEW id \in AssetIds, \A i \in DOMAIN asEvents' : ~IsInfo(asEvents'[i], id)
          PROVE  \/ info[id] = onChain[id]
                 \/ info[id] = 0 /\ (id \in status' => id \in requested')
      <3>1. \A i \in DOMAIN asEvents : ~IsInfo(asEvents[i], id)
        BY <1>2, <2>1, <2>7 DEF IsInfo
      <3>2. info[id] = onChain[id] \/ info[id] = 0
        BY <1>4, <3>1
      <3>3. id \in status' /\ info[id] = 0 => id \in requested'
        BY <2>1, ReadsNote
      <3> QED
        BY <3>2, <3>3
    <2>8. InfoTold'
      BY <1>1, <1>6, <2>1, <2>7 DEF InfoTold
    <2> QED
      BY <1>0, <2>1, <2>2, <2>4, <2>6, <2>8 DEF ListInv
  <1>8. CASE OnAssetInfo
    <2> DEFINE tells == e.version # 0 \/ info[e.id] # 0
               ids == IF tells THEN {e.id} \cap status ELSE {}
    <2>1. /\ e.kind = "info" /\ status' = status /\ info' = [info EXCEPT ![e.id] = e.version]
          /\ Reads(ids, info', requested \ {e.id})
          /\ assetRows' = IF tells THEN RowsWith(assetRows, info') ELSE assetRows
      BY <1>8 DEF OnAssetInfo, e, Erased
    <2>2. e.id \in AssetIds /\ e.version \in Version
      BY <1>2, <2>1, EventTypes
    <2>3. /\ info \in [AssetIds -> Version] /\ SortedRows(assetRows, status)
          /\ \A i \in DOMAIN assetRows : assetRows[i].version = info[assetRows[i].id]
      BY DEF ListInv
    <2>4. /\ info' \in [AssetIds -> Version] /\ info'[e.id] = e.version
          /\ \A id \in AssetIds : id # e.id => info'[id] = info[id]
      BY <2>1, <2>2, <2>3
    <2>5. /\ SortedRows(assetRows', status')
          /\ \A i \in DOMAIN assetRows' : assetRows'[i].version = info'[assetRows'[i].id]
      <3>1. CASE tells
        <4>1. assetRows' = RowsWith(assetRows, info')
          BY <2>1, <3>1
        <4>2. info' \in [AssetIds -> Version] /\ SortedRows(assetRows, status)
          BY <2>3, <2>4
        <4>3. /\ SortedRows(RowsWith(assetRows, info'), status)
              /\ \A i \in DOMAIN RowsWith(assetRows, info') :
                     RowsWith(assetRows, info')[i].version
                         = info'[RowsWith(assetRows, info')[i].id]
          BY <4>2, RowsWithOf
        <4> QED
          BY <2>1, <4>1, <4>3
      <3>2. CASE ~tells
        <4>1. e.version = 0 /\ info[e.id] = 0 /\ assetRows' = assetRows
          BY <2>1, <3>2
        <4>2. info' = info
          BY <2>1, <2>2, <2>3, <4>1
        <4> QED
          BY <2>1, <2>3, <4>1, <4>2
      <3> QED
        BY <3>1, <3>2
    <2> HIDE DEF tells, ids
    <2>6. (\A i \in DOMAIN asEvents' : asEvents'[i].kind # "status") => status' = held'
      <3> SUFFICES ASSUME \A i \in DOMAIN asEvents' : asEvents'[i].kind # "status"
                   PROVE  status = held
        BY <1>1, <2>1
      <3>1. \A j \in DOMAIN asEvents : asEvents[j].kind # "status"
        BY <1>2, <2>1
      <3> QED
        BY <1>3, <3>1
    <2>7. StatusTold'
      BY <1>1, <1>5, <2>6 DEF StatusTold
    <2>8. ASSUME NEW id \in AssetIds, \A i \in DOMAIN asEvents' : ~IsInfo(asEvents'[i], id)
          PROVE  \/ info'[id] = onChain[id]
                 \/ info'[id] = 0 /\ (id \in status' => id \in requested')
      <3>1. \A j \in DOMAIN asEvents : j # 1 => ~IsInfo(asEvents[j], id)
        BY <1>2, <2>8
      <3>2. CASE id = e.id
        <4>1. IsInfo(asEvents[1], id)
          BY <1>2, <2>1, <3>2 DEF IsInfo
        <4>2. e.version = onChain[id]
          BY <1>2, <1>2b, <1>4, <3>1, <4>1
        <4> QED
          BY <2>4, <3>2, <4>2
      <3>3. CASE id # e.id
        <4>1. \A j \in DOMAIN asEvents : ~IsInfo(asEvents[j], id)
          BY <1>2, <3>1, <3>3 DEF IsInfo
        <4>2. requested \ {e.id} \subseteq requested'
          BY <2>1, ReadsNote
        <4> QED
          BY <1>4, <2>1, <2>4, <3>3, <4>1, <4>2
      <3> QED
        BY <3>2, <3>3
    <2>9. InfoTold'
      BY <1>1, <1>6, <2>8 DEF InfoTold
    <2> QED
      BY <1>0, <2>4, <2>5, <2>7, <2>9 DEF ListInv
  <1> QED
    BY <1>7, <1>8

LEMMA ListReaderKeeps ==
    ASSUME ListInv, ListTimerFires \/ OpenReader \/ CloseReader
    PROVE  ListInv'
  <1>0. IInv'
    BY ReaderStep DEF ListInv
  <1>1. UNCHANGED <<held, onChain, asEvents, status, info, assetRows>>
    BY DEF ListTimerFires, OpenReader, CloseReader, walletsSide
  <1>2. requested \subseteq requested'
    <2>1. CASE ListTimerFires \/ OpenReader
      <3>1. PICK ids : Reads(ids, info, requested)
        BY <2>1 DEF ListTimerFires, OpenReader
      <3> QED
        BY <3>1, ReadsNote
    <2>2. CASE CloseReader
      BY <2>2 DEF CloseReader
    <2> QED
      BY <2>1, <2>2
  <1>3. StatusTold'
    BY <1>1 DEF ListInv, StatusTold
  <1>4. InfoTold'
    BY <1>1, <1>2 DEF ListInv, InfoTold
  <1> QED
    BY <1>0, <1>1, <1>3, <1>4 DEF ListInv

LEMMA ListInvShows == ListInv => AssetsListIsHeld
  <1> SUFFICES ASSUME ListInv
               PROVE  AssetsListIsHeld
    OBVIOUS
  <1>1. /\ assetRows \in Seq(AsRow) /\ ByNumber(assetRows)
        /\ {assetRows[i].id : i \in DOMAIN assetRows} = status
        /\ \A i \in DOMAIN assetRows : assetRows[i].version = info[assetRows[i].id]
        /\ status \subseteq AssetIds
    BY DEF ListInv, SortedRows, IInv, QueueInv
  <1>2. \A i, j \in DOMAIN assetRows : i < j => assetRows[i].id < assetRows[j].id
    BY <1>1 DEF ByNumber
  <1>3. ASSUME asked = {}, asEvents = <<>>
        PROVE  /\ status = held
               /\ \A i \in DOMAIN assetRows : assetRows[i].version = onChain[assetRows[i].id]
    <2>1. DOMAIN asEvents = {}
      BY <1>3
    <2>2. status = held
      BY <2>1 DEF ListInv, StatusTold
    <2>3. requested = {}
      BY <1>3, <2>1 DEF ListInv, IInv, RequestedIsUnderWay, InfoUnderWay
    <2>4. \A id \in status : info[id] = onChain[id]
      BY <1>1, <2>1, <2>3 DEF ListInv, InfoTold
    <2> QED
      BY <1>1, <2>2, <2>4
  <1> QED
    BY <1>1, <1>2, <1>3 DEF AssetsListIsHeld

\* Through all insertions and removals the list has each asset held once, in
\* the order of their numbers; and once nothing is under way it is what the
\* wallet holds, each row with what the wallet knows of its asset
\* (assets_list.cpp: onWalletStatus, onAssetInfo).
THEOREM AssetsListIsHeldAlways == AssetsSpec => []AssetsListIsHeld
  <1>1. ListInv /\ [AssetsNext]_assetsVars => ListInv'
    <2> SUFFICES ASSUME ListInv, [AssetsNext]_assetsVars
                 PROVE  ListInv'
      OBVIOUS
    <2>1. CASE UNCHANGED assetsVars
      BY <2>1 DEF assetsVars, ListInv, IInv, QueueInv, RequestedIsUnderWay, InfoUnderWay,
                  StatusTold, InfoTold
    <2> QED
      BY <2>1, ListWalletKeeps, ListEventKeeps, ListReaderKeeps DEF AssetsNext
  <1> QED
    BY <1>1, ListInitInv, ListInvShows, PTL DEF AssetsSpec
=============================================================================
