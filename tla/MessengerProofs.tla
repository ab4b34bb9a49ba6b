-------------------------- MODULE MessengerProofs ---------------------------
(***************************************************************************)
(* The messenger for any peers, addresses and number of messages: what is  *)
(* read was shown, what the pages show is the wallet's store, and the own  *)
(* address of a chat is one of it.                                         *)
(***************************************************************************)
EXTENDS Messenger, ListModelProofs

\* As Message, ImCall, ImEvent, whatever the number of messages.
Msg == [id: Nat, peer: Peers, own: OwnIds, income: BOOLEAN]

Call == [op: {"ownAddresses", "contacts", "chats"}]
        \cup [op: {"messages", "remove"}, peer: Peers]
        \cup [op: {"send"}, peer: Peers, own: OwnIds]
        \cup [op: {"read"}, ids: SUBSET Nat]

Event == [kind: {"ownAddresses", "contacts"}]
         \cup [kind: {"message"}, of: Msg]
         \cup [kind: {"messages"}, of: Seq(Msg), unread: SUBSET Nat]
         \cup [kind: {"chats"}, of: SUBSET [peer: Peers, unread: BOOLEAN]]
         \cup [kind: {"removed"}, peer: Peers]

Types ==
    /\ inbox \subseteq Msg
    /\ numbered \in Nat
    /\ imCalls \in Seq(Call)
    /\ imEvents \in Seq(Event)
    /\ chat \in Chat
    /\ chatRows \in Seq(Msg)
    /\ chatList \subseteq [peer: Peers, unread: BOOLEAN]
    /\ listBlocked \in BOOLEAN

\* An event hands a message out; it replaces the rows of the page.
Hands(e, m) ==
    \/ e.kind = "message" /\ e.of = m
    \/ e.kind = "messages" /\ m \in ToSet(e.of)

Replaces(e) == e.kind = "messages" /\ e.of # <<>>

Newest(list) == \A i, j \in 1..Len(list) : i < j => list[i].id > list[j].id
Oldest(list) == \A i, j \in 1..Len(list) : i < j => list[i].id < list[j].id

-----------------------------------------------------------------------------
(* Numbers are given once, and what is to be marked as read was shown.     *)

Numbers ==
    /\ \A m \in inbox : m.id <= numbered
    /\ \A m, n \in inbox : m.id = n.id => m = n
    /\ \A i \in DOMAIN imEvents : \A m : Hands(imEvents[i], m) => m \in Msg /\ m.id <= numbered
    /\ \A m \in ToSet(chatRows) : m.id <= numbered /\ m.peer = chat.peer
    /\ displayed \subseteq 0..numbered /\ seen \subseteq 0..numbered

ReadsShown ==
    /\ \A i \in DOMAIN imCalls : imCalls[i].op = "read" => imCalls[i].ids \subseteq displayed
    /\ \A m \in inbox : m.income /\ m.id \in seen => m.id \in displayed

\* No page is no chat, and a page blocks the list.
Closed == (~chat.open => chat = NoChat) /\ (chat.open => listBlocked)

StoreInv == Types /\ Closed /\ Numbers /\ ReadsShown

-----------------------------------------------------------------------------
(* The rows of the page.                                                   *)

RemovedComes(peer) ==
    \E j \in DOMAIN imEvents : imEvents[j].kind = "removed" /\ imEvents[j].peer = peer

\* Answers are from the newest message on, and a new message is newer than
\* all that was handed out before it.
InOrder ==
    /\ \A i \in DOMAIN imEvents : imEvents[i].kind = "messages" => Newest(imEvents[i].of)
    /\ Oldest(chatRows)
    /\ \A i \in DOMAIN imEvents : imEvents[i].kind = "message" =>
           /\ \A m \in ToSet(chatRows) : m.id < imEvents[i].of.id
           /\ \A j \in DOMAIN imEvents : j < i =>
                  \A m : Hands(imEvents[j], m) => m.id < imEvents[i].of.id

\* What is no longer stored will be said to be removed.
Withdrawn ==
    /\ \A m \in ToSet(chatRows) : m \in inbox \/ RemovedComes(m.peer)
    /\ \A i \in DOMAIN imEvents : \A m : Hands(imEvents[i], m) =>
           \/ m \in inbox
           \/ \E j \in DOMAIN imEvents : /\ j > i /\ imEvents[j].kind = "removed"
                                         /\ imEvents[j].peer = m.peer

IsRequest(call, peer) == call.op = "messages" /\ call.peer = peer

\* The last request for messages is for the peer of the page.
AskedLast ==
    chat.open /\ chat.peer # NoId =>
        \A k \in DOMAIN imCalls : imCalls[k].op = "messages" /\ imCalls[k].peer # chat.peer =>
            \E l \in DOMAIN imCalls : l > k /\ IsRequest(imCalls[l], chat.peer)

\* Those of the peer are on the page or on their way, unless an answer is to
\* be asked for or the page is to close.
OnTheirWay ==
    /\ chat.open /\ chat.peer # NoId
    /\ \A k \in DOMAIN imCalls : ~IsRequest(imCalls[k], chat.peer)
    /\ ~RemovedComes(chat.peer)
    => \A m \in inbox : m.peer = chat.peer =>
           \/ /\ m \in ToSet(chatRows)
              /\ \A j \in DOMAIN imEvents : Replaces(imEvents[j]) => Hands(imEvents[j], m)
           \/ \E i \in DOMAIN imEvents :
                  /\ Hands(imEvents[i], m)
                  /\ \A j \in DOMAIN imEvents :
                         j > i /\ Replaces(imEvents[j]) => Hands(imEvents[j], m)

RowsInv == InOrder /\ Withdrawn /\ AskedLast /\ OnTheirWay

-----------------------------------------------------------------------------
(* The list of chats.                                                      *)

IsRefresh(call) == call.op \in {"contacts", "ownAddresses", "chats"}
Announces(e) == e.kind \in {"contacts", "ownAddresses"}

\* The list will be asked for again.
Due ==
    \/ \E i \in DOMAIN imCalls : IsRefresh(imCalls[i])
    \/ \E i \in DOMAIN imEvents : Announces(imEvents[i])

PeersOf(list) == {c.peer : c \in list}
PeersStored == {m.peer : m \in inbox}

\* A message of the peer is told after this place.
ToldAfter(n, peer) ==
    \E i \in DOMAIN imEvents :
        i > n /\ imEvents[i].kind = "message" /\ imEvents[i].of.peer = peer

IsLastAnswer(n) ==
    /\ imEvents[n].kind = "chats"
    /\ \A j \in DOMAIN imEvents : j > n => imEvents[j].kind # "chats"

\* A list has the peers there are messages of, or they will be told of.
Names(list, n) ==
    /\ PeersOf(list) \subseteq PeersStored
    /\ \A peer \in PeersStored : peer \in PeersOf(list) \/ ToldAfter(n, peer)

ListInv ==
    /\ ~listBlocked =>
           \A k \in DOMAIN imCalls : imCalls[k].op = "remove" =>
               \E l \in DOMAIN imCalls : l > k /\ IsRefresh(imCalls[l])
    /\ ~listBlocked /\ ~Due =>
           /\ \A n \in DOMAIN imEvents : IsLastAnswer(n) => Names(imEvents[n].of, n)
           /\ (\A n \in DOMAIN imEvents : imEvents[n].kind # "chats") => Names(chatList, 0)

-----------------------------------------------------------------------------
(* The own address.                                                        *)

Asks(i) == i \in DOMAIN imCalls /\ imCalls[i].op = "messages"
Answers(i) == i \in DOMAIN imEvents /\ imEvents[i].kind = "messages"

\* On the page of a patient user only messages of its peer are asked for,
\* once, and the address comes from them or was chosen.
OwnInv ==
    chat.calm /\ ~chat.renamed =>
        /\ \A i : Asks(i) => imCalls[i].peer = chat.peer
        /\ \A i : Answers(i) => \A m \in ToSet(imEvents[i].of) : m.peer = chat.peer
        /\ chat.peer = NoId => chat.own = NoId /\ chat.chosen = NoId /\ ~MessagesUnderWay
        /\ chat.chosen # NoId => chat.own = chat.chosen
        /\ \A i, j : Asks(i) /\ Asks(j) => i = j
        /\ \A i, j : Answers(i) /\ Answers(j) => i = j
        /\ \A i, j : ~(Asks(i) /\ Answers(j))
        /\ chat.own # NoId /\ chat.own # chat.chosen =>
               /\ ~MessagesUnderWay
               /\ \E m \in ToSet(chatRows) : m.own = chat.own

-----------------------------------------------------------------------------
(* Calls and events.                                                       *)

\* A queue with some more at its end, and one without its head.
Longer(s, t, X) ==
    /\ DOMAIN t \subseteq Nat /\ DOMAIN s \subseteq DOMAIN t
    /\ \A i \in DOMAIN s : t[i] = s[i]
    /\ \A i \in DOMAIN t : i \notin DOMAIN s => t[i] \in X /\ \A j \in DOMAIN s : j < i
    /\ \A x \in X : \E i \in DOMAIN t : i \notin DOMAIN s /\ t[i] = x

Shorter(s, t) ==
    /\ 1 \in DOMAIN s /\ DOMAIN s \subseteq Nat /\ DOMAIN t \subseteq Nat
    /\ \A i \in DOMAIN t : i > 0 /\ i + 1 \in DOMAIN s /\ t[i] = s[i + 1]
    /\ \A i \in DOMAIN s : i # 1 => i > 1 /\ i - 1 \in DOMAIN t /\ t[i - 1] = s[i]

\* What a call or an event carries.
LEMMA CallFacts ==
    ASSUME NEW c \in Call
    PROVE  /\ c.op \in {"ownAddresses", "contacts", "chats", "messages", "remove", "send", "read"}
           /\ c.op \in {"messages", "remove", "send"} => c.peer \in Peers
           /\ c.op = "send" => c.own \in OwnIds
           /\ c.op = "read" => c.ids \subseteq Nat
  BY DEF Call

LEMMA EventFacts ==
    ASSUME NEW e \in Event
    PROVE  /\ e.kind \in {"ownAddresses", "contacts", "message", "messages", "chats", "removed"}
           /\ e.kind = "message" => e.of \in Msg
           /\ e.kind = "messages" => e.of \in Seq(Msg) /\ e.unread \subseteq Nat
           /\ e.kind = "chats" => e.of \subseteq [peer: Peers, unread: BOOLEAN]
           /\ e.kind = "removed" => e.peer \in Peers
  BY DEF Event

LEMMA CallsMade ==
    /\ \A o \in {"ownAddresses", "contacts", "chats"} : [op |-> o] \in Call
    /\ \A o \in {"messages", "remove"}, p \in Peers : [op |-> o, peer |-> p] \in Call
    /\ \A p \in Peers, a \in OwnIds : [op |-> "send", peer |-> p, own |-> a] \in Call
    /\ \A s \in SUBSET Nat : [op |-> "read", ids |-> s] \in Call
  BY DEF Call

LEMMA EventsMade ==
    /\ \A k \in {"ownAddresses", "contacts"} : [kind |-> k] \in Event
    /\ \A m \in Msg : [kind |-> "message", of |-> m] \in Event
    /\ \A s \in Seq(Msg), u \in SUBSET Nat :
           [kind |-> "messages", of |-> s, unread |-> u] \in Event
    /\ \A l \in SUBSET [peer: Peers, unread: BOOLEAN] : [kind |-> "chats", of |-> l] \in Event
    /\ \A p \in Peers : [kind |-> "removed", peer |-> p] \in Event
  BY DEF Event

\* One or more at the end, and one off the front.
LEMMA AppendLonger ==
    ASSUME NEW T, NEW s \in Seq(T), NEW e \in T
    PROVE  Append(s, e) \in Seq(T) /\ Longer(s, Append(s, e), {e})
  BY AppendPlaces DEF Longer

LEMMA NoneLonger ==
    ASSUME NEW T, NEW s \in Seq(T)
    PROVE  Longer(s, s, {})
  BY SeqFacts DEF Longer

LEMMA ConcatLonger ==
    ASSUME NEW T, NEW s \in Seq(T), NEW t \in Seq(T)
    PROVE  s \o t \in Seq(T) /\ Longer(s, s \o t, ToSet(t))
  <1>1. s \o t \in Seq(T) /\ Len(s \o t) = Len(s) + Len(t)
    OBVIOUS
  <1>2. /\ Len(s) \in Nat /\ Len(t) \in Nat /\ DOMAIN s = 1..Len(s) /\ DOMAIN t = 1..Len(t)
        /\ DOMAIN (s \o t) = 1..Len(s) + Len(t)
    BY <1>1
  <1>3. \A i \in 1..Len(s) : (s \o t)[i] = s[i]
    OBVIOUS
  <1>4. \A i \in 1..Len(s) + Len(t) : i \notin 1..Len(s) =>
            i - Len(s) \in 1..Len(t) /\ (s \o t)[i] = t[i - Len(s)] /\ i > Len(s)
    <2> TAKE i \in 1..Len(s) + Len(t)
    <2> HAVE i \notin 1..Len(s)
    <2>1. i \in Int /\ i > Len(s) /\ i - Len(s) \in 1..Len(t)
      BY <1>2
    <2>2. (s \o t)[i] = t[i - Len(s)]
      BY <1>2, <2>1, ConcatProperties
    <2> QED
      BY <2>1, <2>2
  <1>5. \A x : x \in ToSet(t) <=> \E i \in 1..Len(t) : t[i] = x
    BY SeqFacts
  <1>6. \A i \in 1..Len(t) : /\ i + Len(s) \in 1..Len(s) + Len(t) /\ i + Len(s) \notin 1..Len(s)
                             /\ (s \o t)[i + Len(s)] = t[i]
    <2> TAKE i \in 1..Len(t)
    <2>1. i + Len(s) \in 1..Len(s) + Len(t) /\ i + Len(s) \notin 1..Len(s)
      BY <1>2
    <2>2. (i + Len(s)) - Len(s) = i
      BY <1>2
    <2> QED
      BY <1>4, <2>1, <2>2
  <1>7. \A x \in ToSet(t) : \E i \in 1..Len(s) + Len(t) : i \notin 1..Len(s) /\ (s \o t)[i] = x
    BY <1>5, <1>6
  <1>8. \A i \in 1..Len(s) + Len(t) : i \notin 1..Len(s) =>
            (s \o t)[i] \in ToSet(t) /\ \A j \in 1..Len(s) : j < i
    <2> TAKE i \in 1..Len(s) + Len(t)
    <2> HAVE i \notin 1..Len(s)
    <2>1. i \in Int /\ i - Len(s) \in 1..Len(t) /\ (s \o t)[i] = t[i - Len(s)] /\ i > Len(s)
      BY <1>2, <1>4
    <2>2. t[i - Len(s)] \in ToSet(t)
      BY <1>5, <2>1
    <2>3. \A j \in 1..Len(s) : j < i
      BY <1>2, <2>1
    <2> QED
      BY <2>1, <2>2, <2>3
  <1>9. 1..Len(s) \subseteq 1..Len(s) + Len(t) /\ 1..Len(s) + Len(t) \subseteq Nat
    BY <1>2
  <1> QED
    BY <1>1, <1>2, <1>3, <1>7, <1>8, <1>9 DEF Longer

LEMMA LongerStill ==
    ASSUME NEW s, NEW t, NEW u, NEW X, NEW Y, Longer(s, t, X), Longer(t, u, Y)
    PROVE  Longer(s, u, X \cup Y)
  BY DEF Longer

LEMMA TailShorter ==
    ASSUME NEW T, NEW s \in Seq(T), s # <<>>
    PROVE  Tail(s) \in Seq(T) /\ Head(s) = s[1] /\ s[1] \in T /\ Shorter(s, Tail(s))
  <1>1. Tail(s) \in Seq(T) /\ Head(s) = s[1] /\ s[1] \in T
    BY TailPlaces, SeqFacts
  <1>2. DOMAIN s = 1..Len(s) /\ DOMAIN Tail(s) = 1..Len(Tail(s)) /\ Len(s) \in Nat /\ Len(Tail(s)) \in Nat
    BY <1>1, SeqFacts
  <1> QED
    BY <1>1, <1>2, TailPlaces DEF Shorter

-----------------------------------------------------------------------------
(* Messages in their order.                                                *)

\* What the wallet hands out of a set of messages with distinct numbers has
\* each of them, the newest first.
LEMMA NewestFirstOf ==
    ASSUME NEW S \in SUBSET Msg, NEW N \in Nat, \A m \in S : m.id <= N,
           \A m, n \in S : m.id = n.id => m = n
    PROVE  /\ NewestFirst(S) \in Seq(Msg) /\ Newest(NewestFirst(S))
           /\ ToSet(NewestFirst(S)) = S
  <1> DEFINE I == {m.id : m \in S}
             ids == Ascending(I)
             C == Cardinality(I)
             L == [i \in DOMAIN ids |-> CHOOSE m \in S : m.id = ids[i]]
  <1>1. \A m \in S : m.id \in 0..N
    BY DEF Msg
  <1>2. I \subseteq 0..N /\ IsFiniteSet(I)
    <2>1. I \subseteq 0..N
      BY <1>1
    <2>2. IsFiniteSet(0..N)
      BY FS_Interval
    <2> QED
      BY <2>1, <2>2, FS_Subset
  <1> HIDE DEF I
  <1>3. /\ C \in Nat /\ ids \in [1..C -> I]
        /\ \A i, j \in 1..C : i < j => ids[i] < ids[j]
        /\ \A x \in I : \E i \in 1..C : ids[i] = x
    BY <1>2, AscendingOrder
  <1>4. DOMAIN ids = 1..C
    BY <1>3
  <1>5. \A i \in 1..C : L[i] \in S /\ L[i].id = ids[i]
    <2> TAKE i \in 1..C
    <2>1. ids[i] \in I
      BY <1>3
    <2>2. PICK m \in S : m.id = ids[i]
      BY <2>1 DEF I
    <2>3. L[i] = CHOOSE x \in S : x.id = ids[i]
      BY <1>4
    <2> QED
      BY <2>2, <2>3
  <1> HIDE DEF L
  <1>6. L \in Seq(Msg) /\ Len(L) = C /\ DOMAIN L = 1..C
    <2>1. L \in [1..C -> Msg]
      BY <1>4, <1>5 DEF L
    <2> QED
      BY <1>3, <2>1, SeqDef, LenProperties
  <1>7. ToSet(L) = S
    <2>1. \A m \in S : \E i \in 1..C : L[i] = m
      <3> TAKE m \in S
      <3>1. PICK i \in 1..C : ids[i] = m.id
        BY <1>3 DEF I
      <3> QED
        BY <1>5, <3>1
    <2>2. \A x : x \in ToSet(L) <=> x \in S
      BY <1>5, <1>6, <2>1, SeqFacts
    <2> QED
      BY <2>2
  <1>8. Oldest(L)
    BY <1>3, <1>5, <1>6 DEF Oldest
  <1>9. NewestFirst(S) = ListReset(L)
    BY DEF NewestFirst, ListReset, L, I
  <1> HIDE DEF ids, C
  <1>10. /\ NewestFirst(S) \in Seq(Msg) /\ ToSet(NewestFirst(S)) = S
         /\ Len(NewestFirst(S)) = C
         /\ \A i \in 1..C : NewestFirst(S)[i] = L[C - i + 1]
    BY <1>6, <1>7, <1>9, ListResetOf
  <1>11. Newest(NewestFirst(S))
    <2> SUFFICES ASSUME NEW i \in 1..C, NEW j \in 1..C, i < j
                 PROVE  NewestFirst(S)[i].id > NewestFirst(S)[j].id
      BY <1>10 DEF Newest
    <2>1. C - i + 1 \in 1..C /\ C - j + 1 \in 1..C /\ C - j + 1 < C - i + 1
      BY <1>3
    <2>2. L[C - j + 1].id < L[C - i + 1].id
      BY <1>6, <1>8, <2>1 DEF Oldest
    <2>3. L[C - j + 1].id \in Nat /\ L[C - i + 1].id \in Nat
      BY <1>5, <2>1 DEF Msg
    <2> QED
      BY <1>10, <2>2, <2>3
  <1> QED
    BY <1>10, <1>11

\* The rows of an answer: those of one peer, the oldest first.
LEMMA RowsOfAnswer ==
    ASSUME NEW s \in Seq(Msg), Newest(s)
    PROVE  /\ ListReset(OfPeer(s)) \in Seq(Msg) /\ Oldest(ListReset(OfPeer(s)))
           /\ OfPeer(s) \in Seq(Msg) /\ ToSet(OfPeer(s)) = {m \in ToSet(s) : m.peer = chat.peer}
           /\ ToSet(ListReset(OfPeer(s))) = {m \in ToSet(s) : m.peer = chat.peer}
  <1> DEFINE P == {i \in DOMAIN s : s[i].peer = chat.peer}
             t == OfPeer(s)
             r == ListReset(t)
             C == Cardinality(P)
             at == Ascending(P)
  <1>1. P \in SUBSET DOMAIN s /\ DOMAIN s = 1..Len(s) /\ Len(s) \in Nat
    BY SeqFacts
  <1>2. t = ItemsAt(s, P)
    BY DEF OfPeer
  <1> HIDE DEF t, P
  <1>3. /\ t \in Seq(Msg) /\ Len(t) = C /\ C \in Nat /\ at \in [1..C -> P]
        /\ \A k \in 1..C : t[k] = s[at[k]]
        /\ \A j, k \in 1..C : j < k => at[j] < at[k]
    BY <1>1, <1>2, ItemsAtOrder
  <1>4. ToSet(t) = {s[i] : i \in P}
    BY <1>1, <1>2, ItemsAtSet
  <1>5. ToSet(t) = {m \in ToSet(s) : m.peer = chat.peer}
    <2>1. \A m : m \in ToSet(t) <=> m \in ToSet(s) /\ m.peer = chat.peer
      BY <1>1, <1>4, SeqFacts DEF P
    <2> QED
      BY <2>1
  <1>6. /\ r \in Seq(Msg) /\ ToSet(r) = ToSet(t) /\ Len(r) = C
        /\ \A i \in 1..C : r[i] = t[C - i + 1]
    <2> HIDE DEF C
    <2> QED
      BY <1>3, ListResetOf
  <1> HIDE DEF r
  <1>7. Oldest(r)
    <2> SUFFICES ASSUME NEW i \in 1..C, NEW j \in 1..C, i < j
                 PROVE  r[i].id < r[j].id
      BY <1>6 DEF Oldest
    <2>1. C - i + 1 \in 1..C /\ C - j + 1 \in 1..C /\ C - j + 1 < C - i + 1
      BY <1>3
    <2>2. /\ at[C - i + 1] \in 1..Len(s) /\ at[C - j + 1] \in 1..Len(s)
          /\ at[C - j + 1] < at[C - i + 1]
      BY <1>1, <1>3, <2>1
    <2>3. s[at[C - j + 1]].id > s[at[C - i + 1]].id
      BY <2>2 DEF Newest
    <2>4. \A k \in 1..Len(s) : s[k].id \in Nat
      <3>1. \A k \in 1..Len(s) : s[k] \in Msg
        BY SeqFacts
      <3> QED
        BY <3>1 DEF Msg
    <2>5. r[i] = s[at[C - i + 1]] /\ r[j] = s[at[C - j + 1]]
      BY <1>3, <1>6, <2>1
    <2> QED
      BY <2>2, <2>3, <2>4, <2>5
  <1> QED
    BY <1>3, <1>5, <1>6, <1>7 DEF r, t

\* A newer message at the end.
LEMMA OneMoreRow ==
    ASSUME NEW s \in Seq(Msg), NEW m \in Msg
    PROVE  /\ ListInsert(s, <<m>>) \in Seq(Msg)
           /\ ToSet(ListInsert(s, <<m>>)) = ToSet(s) \cup {m}
           /\ Oldest(s) /\ (\A r \in ToSet(s) : r.id < m.id) => Oldest(ListInsert(s, <<m>>))
  <1> DEFINE t == ListInsert(s, <<m>>)
  <1>1. <<m>> \in Seq(Msg) /\ ToSet(<<m>>) = {m}
    BY DEF ToSet
  <1>2. t \in Seq(Msg) /\ ToSet(t) = ToSet(s) \cup {m}
    <2> DEFINE x == <<m>>
    <2> HIDE DEF x
    <2>1. x \in Seq(Msg) /\ ToSet(x) = {m}
      BY <1>1 DEF x
    <2>2. ListInsert(s, x) \in Seq(Msg) /\ ToSet(ListInsert(s, x)) = ToSet(s) \cup ToSet(x)
      BY <2>1, ListInsertOf
    <2> QED
      BY <2>1, <2>2 DEF x
  <1>3. t = Append(s, m)
    BY AppendIsConcat DEF ListInsert
  <1>4. /\ Len(t) = Len(s) + 1 /\ Len(s) \in Nat
        /\ t[Len(s) + 1] = m /\ \A i \in 1..Len(s) : t[i] = s[i] /\ s[i] \in ToSet(s)
    BY <1>3, SeqFacts
  <1>5. ASSUME Oldest(s), \A r \in ToSet(s) : r.id < m.id
        PROVE  Oldest(t)
    <2> HIDE DEF t
    <2> SUFFICES ASSUME NEW i \in 1..Len(t), NEW j \in 1..Len(t), i < j
                 PROVE  t[i].id < t[j].id
      BY DEF Oldest
    <2>1. i \in 1..Len(s)
      BY <1>4
    <2>2. CASE j = Len(s) + 1
      BY <1>4, <1>5, <2>1, <2>2
    <2>3. CASE j # Len(s) + 1
      <3>1. j \in 1..Len(s)
        BY <1>4, <2>3
      <3> QED
        BY <1>4, <1>5, <2>1, <3>1 DEF Oldest
    <2> QED
      BY <2>2, <2>3
  <1> QED
    BY <1>2, <1>5

-----------------------------------------------------------------------------
(* The steps, by what they do to the queues.                               *)

\* What the user does: the wallet is asked, a page opens, stays or goes.
UserShape ==
    /\ inbox' = inbox /\ seen' = seen /\ numbered' = numbered
    /\ imEvents' = imEvents /\ displayed' = displayed
    /\ chatRows' = <<>> \/ (chatRows' = chatRows /\ (chat'.peer = chat.peer \/ chat.peer = NoId))
    /\ \E X \in SUBSET Call :
           /\ Longer(imCalls, imCalls', X)
           /\ \A x \in X : x.op # "read"
           /\ ~listBlocked' => X = {[op |-> "contacts"]}
           /\ \/ ~chat'.open \/ chat'.peer = NoId
              \/ /\ \E x \in X : IsRequest(x, chat'.peer)
                 /\ \A x \in X : x.op = "messages" => x.peer = chat'.peer
              \/ chat' = chat /\ chatRows' = chatRows /\ \A x \in X : x.op # "messages"

PageTypes ==
    /\ imCalls \in Seq(Call) /\ imEvents \in Seq(Event)
    /\ chat \in Chat /\ chatRows \in Seq(Msg)
    /\ chatList \subseteq [peer: Peers, unread: BOOLEAN] /\ listBlocked \in BOOLEAN

LEMMA NoChatOf == NoChat \in Chat /\ ~NoChat.open /\ NoChat.peer = NoId /\ ~NoChat.calm
  BY DEF NoChat, Chat

LEMMA AskedTwice ==
    ASSUME NEW s \in Seq(Call), NEW a \in Call, NEW b \in Call
    PROVE  /\ s \o <<a, b>> \in Seq(Call) /\ Longer(s, s \o <<a, b>>, {a, b})
           /\ Append(Append(s, a), b) = s \o <<a, b>>
  <1>1. Append(s, a) \in Seq(Call) /\ Longer(s, Append(s, a), {a})
    BY AppendLonger
  <1>2. /\ Append(Append(s, a), b) \in Seq(Call)
        /\ Longer(Append(s, a), Append(Append(s, a), b), {b})
    BY <1>1, AppendLonger
  <1>3. Append(Append(s, a), b) = s \o <<a, b>>
    OBVIOUS
  <1>4. Longer(s, Append(Append(s, a), b), {a} \cup {b})
    BY <1>1, <1>2, LongerStill
  <1>5. {a} \cup {b} = {a, b}
    OBVIOUS
  <1> QED
    BY <1>2, <1>3, <1>4, <1>5

LEMMA UserSteps ==
    ASSUME Types, Closed, MessengerUser
    PROVE  UserShape /\ PageTypes' /\ Closed'
  <1> USE DEF Types, Closed, PageTypes
  <1>1. ASSUME NEW peer \in Peers, OpenChat(peer) PROVE UserShape /\ PageTypes' /\ Closed'
    <2> DEFINE a == [op |-> "ownAddresses"]
               b == [op |-> "messages", peer |-> peer]
    <2>1. a \in Call /\ b \in Call
      BY CallsMade
    <2>2. IsRequest(b, peer) /\ a.op = "ownAddresses" /\ b.op = "messages" /\ b.peer = peer
      BY DEF IsRequest
    <2>3. imCalls' = imCalls \o <<a, b>>
      BY <1>1 DEF OpenChat
    <2> HIDE DEF a, b
    <2>4. imCalls' \in Seq(Call) /\ Longer(imCalls, imCalls', {a, b})
      BY <2>1, <2>3, AskedTwice
    <2>5. chat' \in Chat /\ chat'.peer = peer /\ chat'.open
      BY <1>1 DEF OpenChat, NoChat, Chat, MessagesUnderWay
    <2> QED
      <3>1. /\ \A x \in {a, b} : x.op # "read" /\ (x.op = "messages" => x.peer = chat'.peer)
            /\ \E x \in {a, b} : IsRequest(x, chat'.peer)
        BY <2>2, <2>5
      <3>2. PageTypes' /\ Closed'
        BY <1>1, <2>4, <2>5 DEF OpenChat, wallet
      <3>3. {a, b} \in SUBSET Call
        BY <2>1
      <3>4. UserShape
        BY <1>1, <2>4, <2>5, <3>1, <3>3 DEF OpenChat, UserShape, wallet
      <3> QED
        BY <3>2, <3>4
  <1>2. ASSUME NewChat PROVE UserShape /\ PageTypes' /\ Closed'
    <2>1. [op |-> "ownAddresses"] \in Call
      BY CallsMade
    <2>2. imCalls' \in Seq(Call) /\ Longer(imCalls, imCalls', {[op |-> "ownAddresses"]})
      BY <1>2, <2>1, AppendLonger DEF NewChat
    <2>3. chat' \in Chat /\ chat'.peer = NoId /\ chat'.open
      BY <1>2 DEF NewChat, NoChat, Chat, MessagesUnderWay
    <2> QED
      <3>1. \A x \in {[op |-> "ownAddresses"]} : x.op # "read"
        OBVIOUS
      <3>2. PageTypes' /\ Closed'
        BY <1>2, <2>2, <2>3 DEF NewChat, wallet
      <3>3. UserShape
        BY <1>2, <2>1, <2>2, <2>3, <3>1 DEF NewChat, UserShape, wallet
      <3> QED
        BY <3>2, <3>3
  <1>3. ASSUME NEW peer \in Peers, NEW own \in OwnIds, ChoosePeer(peer, own)
        PROVE  UserShape /\ PageTypes' /\ Closed'
    <2> DEFINE b == [op |-> "messages", peer |-> peer]
    <2>1. b \in Call
      BY CallsMade
    <2>2. IsRequest(b, peer) /\ b.op = "messages" /\ b.peer = peer
      BY DEF IsRequest
    <2>3. imCalls' = Append(imCalls, b)
      BY <1>3 DEF ChoosePeer
    <2> HIDE DEF b
    <2>4. imCalls' \in Seq(Call) /\ Longer(imCalls, imCalls', {b})
      BY <2>1, <2>3, AppendLonger
    <2>5. chat' \in Chat /\ chat'.peer = peer /\ chat'.open
      BY <1>3 DEF ChoosePeer, Chat
    <2> QED
      BY <1>3, <2>1, <2>2, <2>4, <2>5 DEF ChoosePeer, UserShape, wallet
  <1>4. ASSUME PageClosed, imCalls' = Append(imCalls, [op |-> "contacts"]),
               UNCHANGED <<wallet, displayed>>, chatList' = chatList \/ chatList' = {}
        PROVE  UserShape /\ PageTypes' /\ Closed'
    <2>1. [op |-> "contacts"] \in Call /\ [op |-> "contacts"].op = "contacts"
      BY CallsMade
    <2>2. imCalls' \in Seq(Call) /\ Longer(imCalls, imCalls', {[op |-> "contacts"]})
      BY <1>4, <2>1, AppendLonger
    <2> QED
      <3>1. \A x \in {[op |-> "contacts"]} : x.op # "read"
        OBVIOUS
      <3>2. PageTypes' /\ Closed'
        <4>1. chat' = NoChat /\ chatRows' = <<>> /\ listBlocked' = FALSE
          BY <1>4 DEF PageClosed
        <4>2. imEvents' = imEvents /\ chatList' \subseteq [peer: Peers, unread: BOOLEAN]
          BY <1>4 DEF wallet
        <4>3. Closed'
          BY <4>1, NoChatOf
        <4>4. imEvents' \in Seq(Event) /\ chat' \in Chat
          BY <4>1, <4>2, NoChatOf
        <4>5. chatRows' \in Seq(Msg)
          <5>1. <<>> \in Seq(Msg)
            OBVIOUS
          <5> QED
            BY <4>1, <5>1, Zenon
        <4>6. listBlocked' \in BOOLEAN
          BY <4>1, Zenon
        <4> QED
          BY <2>2, <4>2, <4>3, <4>4, <4>5, <4>6
      <3>3. UserShape
        BY <1>4, <2>1, <2>2, <3>1, NoChatOf DEF PageClosed, UserShape, wallet
      <3> QED
        BY <3>2, <3>3
  <1>5. ASSUME CancelChoice PROVE UserShape /\ PageTypes' /\ Closed'
    BY <1>4, <1>5 DEF CancelChoice, wallet
  <1>6. ASSUME RenameContact PROVE UserShape /\ PageTypes' /\ Closed'
    <2> DEFINE b == [op |-> "messages", peer |-> chat.peer]
    <2>1. b \in Call /\ chat.peer \in Peers
      <3>1. chat.peer \in Peers
        BY <1>6 DEF RenameContact, Chat
      <3> QED
        BY <3>1, CallsMade
    <2>2. IsRequest(b, chat.peer) /\ b.op = "messages" /\ b.peer = chat.peer
      BY DEF IsRequest
    <2>3. imCalls' = Append(imCalls, b)
      BY <1>6 DEF RenameContact
    <2> HIDE DEF b
    <2>4. imCalls' \in Seq(Call) /\ Longer(imCalls, imCalls', {b})
      BY <2>1, <2>3, AppendLonger
    <2>5. chat' \in Chat /\ chat'.peer = chat.peer /\ chat'.open
      BY <1>6, MessengerAssumption DEF RenameContact, Chat
    <2> QED
      BY <1>6, <2>1, <2>2, <2>4, <2>5 DEF RenameContact, UserShape, wallet
  <1>7. ASSUME LeaveByPath PROVE UserShape /\ PageTypes' /\ Closed'
    <2>1. Longer(imCalls, imCalls', {}) /\ imCalls' = imCalls
      BY <1>7, NoneLonger DEF LeaveByPath
    <2> QED
      BY <1>7, <2>1, NoChatOf DEF LeaveByPath, UserShape, wallet
  <1>8. ASSUME EnterMessenger PROVE UserShape /\ PageTypes' /\ Closed'
    BY <1>4, <1>8 DEF EnterMessenger, wallet
  <1>9. ASSUME NEW x \in Call, x.op \in {"send", "remove"}, imCalls' = Append(imCalls, x),
               UNCHANGED <<wallet, pages>>, chat.open
        PROVE  UserShape /\ PageTypes' /\ Closed'
    <2>1. imCalls' \in Seq(Call) /\ Longer(imCalls, imCalls', {x})
      BY <1>9, AppendLonger
    <2>2. \A y \in {x} : y.op # "read" /\ y.op # "messages"
      BY <1>9
    <2> QED
      BY <1>9, <2>1, <2>2 DEF UserShape, wallet, pages
  <1>10. ASSUME SendMessage PROVE UserShape /\ PageTypes' /\ Closed'
    <2>1. chat.peer \in Peers /\ chat.own \in OwnIds
      BY <1>10 DEF SendMessage, Chat
    <2>2. [op |-> "send", peer |-> chat.peer, own |-> chat.own] \in Call
      BY <2>1, CallsMade
    <2> QED
      BY <1>9, <1>10, <2>2 DEF SendMessage
  <1>11. ASSUME RemoveChat PROVE UserShape /\ PageTypes' /\ Closed'
    <2>1. chat.peer \in Peers
      BY <1>11 DEF RemoveChat, Chat
    <2>2. [op |-> "remove", peer |-> chat.peer] \in Call
      BY <2>1, CallsMade
    <2> QED
      BY <1>9, <1>11, <2>2 DEF RemoveChat
  <1> QED
    BY <1>1, <1>2, <1>3, <1>5, <1>6, <1>7, <1>8, <1>10, <1>11 DEF MessengerUser

\* What the wallet does with a call.
Told(e) ==
    /\ e \in Event /\ imEvents' \in Seq(Event) /\ Longer(imEvents, imEvents', {e})
    /\ \A i, j \in DOMAIN imEvents' \ DOMAIN imEvents : i = j

StoreShape(m) ==
    /\ m \in Msg /\ m.id = numbered + 1 /\ numbered' = numbered + 1
    /\ inbox' = inbox \cup {m}
    /\ seen' = seen \/ (~m.income /\ seen' = seen \cup {m.id})
    /\ \E e \in Event : e.kind = "message" /\ e.of = m /\ Told(e)

PagesKept ==
    /\ chat' = chat /\ chatRows' = chatRows /\ chatList' = chatList
    /\ listBlocked' = listBlocked /\ displayed' = displayed

StoreKept == inbox' = inbox /\ seen' = seen /\ numbered' = numbered

RunShape(c) ==
    /\ c \in Call /\ c = imCalls[1]
    /\ imCalls' \in Seq(Call) /\ Shorter(imCalls, imCalls')
    /\ PagesKept
    /\ \/ /\ c.op \in {"ownAddresses", "contacts"} /\ StoreKept
          /\ \E e \in Event : e.kind = c.op /\ Told(e)
       \/ /\ c.op = "messages" /\ StoreKept
          /\ \E e \in Event :
                 /\ e.kind = "messages" /\ Told(e)
                 /\ ToSet(e.of) = Conversation(c.peer) /\ Newest(e.of)
       \/ /\ c.op = "chats" /\ StoreKept
          /\ \E e \in Event : e.kind = "chats" /\ Told(e) /\ PeersOf(e.of) = PeersStored
       \/ /\ c.op = "read" /\ seen' = seen \cup c.ids
          /\ inbox' = inbox /\ numbered' = numbered /\ imEvents' = imEvents
       \/ /\ c.op = "remove" /\ inbox' = inbox \ Conversation(c.peer)
          /\ seen' = seen /\ numbered' = numbered
          /\ \E e \in Event : e.kind = "removed" /\ e.peer = c.peer /\ Told(e)
       \/ c.op = "send" /\ \E m : StoreShape(m)

LEMMA ToldOf ==
    ASSUME Types, NEW e \in Event, imEvents' = Append(imEvents, e)
    PROVE  Told(e)
  <1>1. imEvents' \in Seq(Event) /\ Longer(imEvents, imEvents', {e})
    BY AppendLonger DEF Types
  <1>2. \A i \in DOMAIN imEvents' : i \in DOMAIN imEvents \/ i = Len(imEvents) + 1
    BY AppendPlaces DEF Types
  <1> QED
    BY <1>1, <1>2 DEF Told

LEMMA StoreSteps ==
    ASSUME Types, NEW peer \in Peers, NEW own \in OwnIds, NEW income \in BOOLEAN,
           Store(peer, own, income)
    PROVE  \E m : StoreShape(m)
  <1> DEFINE m == [id |-> numbered + 1, peer |-> peer, own |-> own, income |-> income]
             e == [kind |-> "message", of |-> m]
  <1>1. m \in Msg /\ m.id = numbered + 1 /\ (m.income <=> income)
    BY DEF Msg, Types
  <1>2. /\ numbered' = numbered + 1 /\ inbox' = inbox \cup {m}
        /\ seen' = IF income THEN seen ELSE seen \cup {m.id}
        /\ imEvents' = Append(imEvents, e)
    BY DEF Store
  <1> HIDE DEF m
  <1>3. e \in Event /\ e.kind = "message" /\ e.of = m
    BY <1>1, EventsMade
  <1> HIDE DEF e
  <1>4. Told(e)
    BY <1>2, <1>3, ToldOf
  <1>5. StoreShape(m)
    BY <1>1, <1>2, <1>3, <1>4 DEF StoreShape
  <1> QED
    BY <1>5

LEMMA RunSteps ==
    ASSUME Types, Numbers, RunImCall
    PROVE  RunShape(imCalls[1])
  <1> DEFINE c == imCalls[1]
  <1>1. /\ c \in Call /\ c = Head(imCalls) /\ imCalls' \in Seq(Call)
        /\ Shorter(imCalls, imCalls')
    BY TailShorter DEF RunImCall, Types
  <1>2. PagesKept
    BY DEF RunImCall, pages, PagesKept
  <1> HIDE DEF c
  <1>3. CASE c.op \in {"ownAddresses", "contacts"} /\ Answered([kind |-> c.op])
    <2>1. [kind |-> c.op] \in Event /\ [kind |-> c.op].kind = c.op
      BY <1>3, EventsMade
    <2>2. Told([kind |-> c.op]) /\ StoreKept
      BY <1>3, <2>1, ToldOf DEF Answered, StoreKept
    <2> QED
      BY <1>1, <1>2, <1>3, <2>1, <2>2 DEF RunShape, c
  <1>4. ASSUME c.op = "messages", NEW u \in SUBSET Nat,
               Answered([kind |-> "messages", of |-> NewestFirst(Conversation(c.peer)),
                         unread |-> u])
        PROVE  RunShape(c)
    <2> DEFINE S == Conversation(c.peer)
               q == NewestFirst(S)
               e == [kind |-> "messages", of |-> q, unread |-> u]
    <2>1. /\ S \in SUBSET Msg /\ numbered \in Nat /\ \A m \in S : m.id <= numbered
          /\ \A m, n \in S : m.id = n.id => m = n
      BY DEF Conversation, Types, Numbers
    <2> HIDE DEF S
    <2>2. q \in Seq(Msg) /\ Newest(q) /\ ToSet(q) = S
      BY <2>1, NewestFirstOf
    <2> HIDE DEF q
    <2>3. e \in Event /\ e.kind = "messages" /\ e.of = q
      BY <2>2, EventsMade
    <2>4. imEvents' = Append(imEvents, e) /\ StoreKept
      BY <1>4 DEF Answered, StoreKept, q, S
    <2> HIDE DEF e
    <2>5. Told(e)
      BY <2>3, <2>4, ToldOf
    <2> QED
      BY <1>1, <1>2, <1>4, <2>2, <2>3, <2>4, <2>5 DEF RunShape, c, S
  <1>5. ASSUME c.op = "chats",
               Answered([kind |-> "chats",
                           of |-> {[peer |-> p,
                                    unread |-> \E m \in Conversation(p) : m.id \notin seen] :
                                   p \in {m.peer : m \in inbox}}])
        PROVE  RunShape(c)
    <2> DEFINE S == {m.peer : m \in inbox}
               row(p) == [peer |-> p, unread |-> \E m \in Conversation(p) : m.id \notin seen]
               l == {row(p) : p \in S}
               e == [kind |-> "chats", of |-> l]
    <2>1. \A m \in inbox : m.peer \in Peers
      BY DEF Types, Msg
    <2>2. \A p : row(p).peer = p /\ row(p).unread \in BOOLEAN
      OBVIOUS
    <2>3. \A p \in S : row(p) \in [peer: Peers, unread: BOOLEAN] /\ row(p).peer = p
      BY <2>1, <2>2
    <2> HIDE DEF row
    <2>4. l \in SUBSET [peer: Peers, unread: BOOLEAN]
      BY <2>3
    <2>5. PeersOf(l) = PeersStored
      <3>1. \A p : p \in PeersOf(l) <=> p \in S
        BY <2>3 DEF PeersOf
      <3> QED
        BY <3>1 DEF PeersStored
    <2>6. e \in Event /\ e.kind = "chats" /\ e.of = l
      BY <2>4, EventsMade
    <2>7. imEvents' = Append(imEvents, e) /\ StoreKept
      BY <1>5 DEF Answered, StoreKept, row
    <2> HIDE DEF e, l
    <2>8. Told(e)
      BY <2>6, <2>7, ToldOf
    <2> QED
      BY <1>1, <1>2, <1>5, <2>5, <2>6, <2>7, <2>8 DEF RunShape, c
  <1>6. CASE c.op = "read" /\ seen' = seen \cup c.ids
             /\ UNCHANGED <<inbox, numbered, imEvents>>
    BY <1>1, <1>2, <1>6 DEF RunShape, c
  <1>7. ASSUME c.op = "remove", inbox' = inbox \ Conversation(c.peer),
               imEvents' = Append(imEvents, [kind |-> "removed", peer |-> c.peer]),
               UNCHANGED <<seen, numbered>>
        PROVE  RunShape(c)
    <2> DEFINE e == [kind |-> "removed", peer |-> c.peer]
    <2>1. c.peer \in Peers
      BY <1>1, <1>7, CallFacts
    <2>2. e \in Event /\ e.kind = "removed" /\ e.peer = c.peer
      BY <2>1, EventsMade
    <2>3. imEvents' = Append(imEvents, e)
      BY <1>7
    <2> HIDE DEF e
    <2>4. Told(e)
      BY <2>2, <2>3, ToldOf
    <2> QED
      BY <1>1, <1>2, <1>7, <2>2, <2>4 DEF RunShape, c
  <1>8. CASE c.op = "send" /\ Store(c.peer, c.own, FALSE)
    <2>1. c.peer \in Peers /\ c.own \in OwnIds
      BY <1>1, <1>8, CallFacts
    <2>2. \E m : StoreShape(m)
      BY <1>8, <2>1, StoreSteps
    <2> QED
      BY <1>1, <1>2, <1>8, <2>2 DEF RunShape, c
  <1>9. \A peer : {m.id : m \in Conversation(peer)} \ seen \in SUBSET Nat
    BY DEF Conversation, Types, Msg
  <1> QED
    BY <1>1, <1>3, <1>4, <1>5, <1>6, <1>7, <1>8, <1>9, Zenon DEF RunImCall, c

\* What an event does to the pages, and what they ask for on it.
Asked(X) ==
    /\ X \in SUBSET Call /\ imCalls' \in Seq(Call) /\ Longer(imCalls, imCalls', X)
    /\ \A x \in X : /\ x.op \in {"contacts", "chats", "read"}
                    /\ x.op = "read" => x.ids \subseteq displayed'

RowsKept == chatRows' = chatRows /\ displayed' = displayed

ListKept == chatList' = chatList /\ listBlocked' = listBlocked

\* The page may come to know the own addresses.
AddressesShape(e) ==
    /\ e.kind \in {"ownAddresses", "contacts"} /\ RowsKept /\ ListKept
    /\ chat' = chat \/ (chat.open /\ chat' = [chat EXCEPT !.known = TRUE])
    /\ \E X : Asked(X) /\ (~listBlocked => \E x \in X : IsRefresh(x))

MessageShape(e) ==
    /\ e.kind = "message" /\ e.of \in Msg /\ chat' = chat /\ ListKept
    /\ IF chat.open /\ chat.peer = e.of.peer
       THEN chatRows' = ListInsert(chatRows, <<e.of>>) /\ e.of.id \in displayed'
       ELSE RowsKept
    /\ displayed \subseteq displayed'
    /\ \A i \in displayed' : i \in displayed \/ \E r \in ToSet(chatRows') : r.id = i
    /\ \E X : Asked(X) /\ (~listBlocked /\ e.of.peer \notin PeersOf(chatList)
                           => \E x \in X : IsRefresh(x))

MessagesShape(e) ==
    /\ e.kind = "messages" /\ e.of \in Seq(Msg) /\ ListKept
    /\ IF ~chat.open \/ e.of = <<>> THEN chat' = chat /\ RowsKept
       ELSE /\ chat' = [chat EXCEPT !.own = OwnAddressFrom(e.of)]
            /\ chatRows' = ListReset(OfPeer(e.of))
    /\ displayed \subseteq displayed'
    /\ \A i \in displayed' : i \in displayed \/ \E r \in ToSet(chatRows') : r.id = i
    /\ \E X : Asked(X)

ListShape(e) ==
    /\ e.kind = "chats" /\ chat' = chat /\ RowsKept
    /\ listBlocked' = listBlocked /\ imCalls' = imCalls
    /\ chatList' = IF listBlocked THEN chatList ELSE e.of

RemovedShape(e) ==
    /\ e.kind = "removed" /\ chatList' = chatList /\ displayed' = displayed
    /\ IF chat.open /\ chat.peer = e.peer
       THEN PageClosed /\ \E X : Asked(X) /\ \E x \in X : IsRefresh(x)
       ELSE UNCHANGED <<imCalls, chat, chatRows, listBlocked>>

DeliverShape(e) ==
    /\ e \in Event /\ e = imEvents[1]
    /\ imEvents' \in Seq(Event) /\ Shorter(imEvents, imEvents')
    /\ StoreKept
    /\ \/ AddressesShape(e) \/ MessageShape(e) \/ MessagesShape(e)
       \/ ListShape(e) \/ RemovedShape(e)

LEMMA OneAsked ==
    ASSUME Types, NEW c \in Call, c.op \in {"contacts", "chats", "read"},
           c.op = "read" => c.ids \subseteq displayed', imCalls' = Append(imCalls, c)
    PROVE  Asked({c})
  <1>1. imCalls' \in Seq(Call) /\ Longer(imCalls, imCalls', {c})
    BY AppendLonger DEF Types
  <1> QED
    BY <1>1 DEF Asked

LEMMA NoneAsked ==
    ASSUME Types, imCalls' = imCalls
    PROVE  Asked({})
  <1>1. imCalls' \in Seq(Call) /\ Longer(imCalls, imCalls', {})
    BY NoneLonger DEF Types
  <1> QED
    BY <1>1 DEF Asked

LEMMA AddressesStep ==
    ASSUME Types, NEW own \in BOOLEAN, OnAddresses(own)
    PROVE  AddressesShape(Head(imEvents))
  <1>1. Head(imEvents).kind \in {"ownAddresses", "contacts"}
    BY DEF OnAddresses
  <1>2. RowsKept /\ ListKept /\ (chat' = chat \/ (chat.open /\ chat' = [chat EXCEPT !.known = TRUE]))
    BY DEF OnAddresses, RowsKept, ListKept
  <1>3. CASE listBlocked
    <2>1. Asked({})
      BY <1>3, NoneAsked DEF OnAddresses
    <2> QED
      BY <1>1, <1>2, <1>3, <2>1 DEF AddressesShape
  <1>4. CASE ~listBlocked
    <2> DEFINE c == [op |-> "chats"]
    <2>1. c \in Call /\ c.op = "chats"
      BY CallsMade
    <2>2. imCalls' = Append(imCalls, c)
      BY <1>4 DEF OnAddresses
    <2> HIDE DEF c
    <2>3. Asked({c}) /\ IsRefresh(c)
      BY <2>1, <2>2, OneAsked DEF IsRefresh
    <2> QED
      BY <1>1, <1>2, <2>3 DEF AddressesShape
  <1> QED
    BY <1>3, <1>4

LEMMA ShowsOf ==
    ASSUME NEW rows \in Seq(Msg), Shows(rows)
    PROVE  /\ chatRows' = rows /\ displayed \subseteq displayed'
           /\ \A i \in displayed' : i \in displayed \/ \E r \in ToSet(chatRows') : r.id = i
           /\ \A r \in ToSet(rows) : r.peer = chat.peer => r.id \in displayed'
  <1>1. \A r : r \in ToSet(rows) <=> \E i \in DOMAIN rows : rows[i] = r
    BY SeqFacts
  <1>2. /\ chatRows' = rows
        /\ displayed' = displayed \cup
               {rows[i].id : i \in {i \in DOMAIN rows : rows[i].peer = chat.peer}}
    BY DEF Shows
  <1> QED
    BY <1>1, <1>2

LEMMA MessageStep ==
    ASSUME Types, OnMessage
    PROVE  MessageShape(Head(imEvents))
  <1> DEFINE e == Head(imEvents)
             m == e.of
             mine == chat.open /\ chat.peer = m.peer
             news == ~listBlocked /\ ~ \E c \in chatList : c.peer = m.peer
             r == [op |-> "read", ids |-> {m.id}]
             c == [op |-> "chats"]
             a == IF mine THEN <<r>> ELSE <<>>
             b == IF news THEN <<c>> ELSE <<>>
  <1>1. e \in Event /\ e.kind = "message"
    BY TailShorter DEF OnMessage, Types
  <1> HIDE DEF e
  <1>2. m \in Msg /\ m.id \in Nat
    BY <1>1, EventFacts DEF Msg
  <1>3. /\ IF mine THEN Shows(ListInsert(chatRows, <<m>>)) ELSE UNCHANGED <<chatRows, displayed>>
        /\ imCalls' = imCalls \o a \o b
        /\ UNCHANGED <<chat, chatList, listBlocked>>
    BY DEF OnMessage, e
  <1> HIDE DEF m
  <1>4. r \in Call /\ r.op = "read" /\ r.ids = {m.id} /\ c \in Call /\ c.op = "chats"
    BY <1>2, CallsMade
  <1> HIDE DEF r, c
  <1>5. /\ a \in Seq(Call) /\ ToSet(a) = IF mine THEN {r} ELSE {}
        /\ b \in Seq(Call) /\ ToSet(b) = IF news THEN {c} ELSE {}
    <2>1. \A x \in Call : <<x>> \in Seq(Call) /\ ToSet(<<x>>) = {x}
      BY DEF ToSet
    <2>2. <<>> \in Seq(Call) /\ ToSet(<<>>) = {}
      BY DEF ToSet
    <2> HIDE DEF mine, news
    <2>3. a \in Seq(Call) /\ ToSet(a) = IF mine THEN {r} ELSE {}
      BY <1>4, <2>1, <2>2
    <2>4. b \in Seq(Call) /\ ToSet(b) = IF news THEN {c} ELSE {}
      BY <1>4, <2>1, <2>2
    <2> QED
      BY <2>3, <2>4
  <1> HIDE DEF a, b
  <1>6. imCalls' \in Seq(Call) /\ Longer(imCalls, imCalls', ToSet(a) \cup ToSet(b))
    <2>1. imCalls \o a \in Seq(Call) /\ Longer(imCalls, imCalls \o a, ToSet(a))
      BY <1>5, ConcatLonger DEF Types
    <2>2. /\ (imCalls \o a) \o b \in Seq(Call)
          /\ Longer(imCalls \o a, (imCalls \o a) \o b, ToSet(b))
      BY <1>5, <2>1, ConcatLonger
    <2> QED
      BY <1>3, <2>1, <2>2, LongerStill
  <1>7. /\ displayed \subseteq displayed' /\ (mine => m.id \in displayed')
        /\ \A i \in displayed' : i \in displayed \/ \E q \in ToSet(chatRows') : q.id = i
        /\ IF mine THEN chatRows' = ListInsert(chatRows, <<m>>) ELSE RowsKept
    <2>1. CASE mine
      <3>1. /\ ListInsert(chatRows, <<m>>) \in Seq(Msg)
            /\ ToSet(ListInsert(chatRows, <<m>>)) = ToSet(chatRows) \cup {m}
        BY <1>2, OneMoreRow DEF Types
      <3>2. Shows(ListInsert(chatRows, <<m>>))
        BY <1>3, <2>1
      <3> QED
        BY <2>1, <3>1, <3>2, ShowsOf
    <2>2. CASE ~mine
      BY <1>3, <2>2 DEF RowsKept
    <2> QED
      BY <2>1, <2>2
  <1>8. \A x \in ToSet(a) \cup ToSet(b) : /\ x \in Call /\ x.op \in {"contacts", "chats", "read"}
                                          /\ x.op = "read" => x.ids \subseteq displayed'
    BY <1>4, <1>5, <1>7
  <1>9. Asked(ToSet(a) \cup ToSet(b))
    BY <1>6, <1>8 DEF Asked
  <1>10. ~listBlocked /\ m.peer \notin PeersOf(chatList)
         => \E x \in ToSet(a) \cup ToSet(b) : IsRefresh(x)
    BY <1>4, <1>5 DEF PeersOf, IsRefresh
  <1>11. chat' = chat /\ ListKept
    BY <1>3 DEF ListKept
  <1> HIDE DEF mine, news
  <1>12. \E X : Asked(X) /\ (~listBlocked /\ m.peer \notin PeersOf(chatList)
                             => \E x \in X : IsRefresh(x))
    BY <1>9, <1>10
  <1> QED
    BY <1>1, <1>2, <1>7, <1>11, <1>12 DEF MessageShape, m, mine, e

LEMMA MessagesStep ==
    ASSUME Types, OnMessages, Newest(Head(imEvents).of)
    PROVE  MessagesShape(Head(imEvents))
  <1> DEFINE e == Head(imEvents)
             rows == OfPeer(e.of)
             unread == {rows[i].id : i \in DOMAIN rows} \cap e.unread
             c == [op |-> "read", ids |-> unread]
  <1>1. e \in Event /\ e.kind = "messages"
    BY TailShorter DEF OnMessages, Types
  <1>2. e.of \in Seq(Msg) /\ ListKept
    BY <1>1, EventFacts DEF OnMessages, ListKept
  <1>3. CASE ~chat.open \/ e.of = <<>>
    <2>1. chat' = chat /\ RowsKept /\ imCalls' = imCalls
      BY <1>3 DEF OnMessages, RowsKept
    <2>2. Asked({})
      BY <2>1, NoneAsked
    <2> QED
      BY <1>1, <1>2, <1>3, <2>1, <2>2 DEF MessagesShape, RowsKept
  <1>4. CASE ~(~chat.open \/ e.of = <<>>)
    <2>1. /\ Shows(ListReset(rows)) /\ chat' = [chat EXCEPT !.own = OwnAddressFrom(e.of)]
          /\ imCalls' = IF unread = {} THEN imCalls ELSE Append(imCalls, c)
      BY <1>4 DEF OnMessages
    <2>2. /\ ListReset(rows) \in Seq(Msg) /\ rows \in Seq(Msg)
          /\ ToSet(rows) = {m \in ToSet(e.of) : m.peer = chat.peer}
          /\ ToSet(ListReset(rows)) = {m \in ToSet(e.of) : m.peer = chat.peer}
      BY <1>2, RowsOfAnswer
    <2> HIDE DEF rows
    <2>3. /\ chatRows' = ListReset(rows) /\ displayed \subseteq displayed'
          /\ \A i \in displayed' : i \in displayed \/ \E r \in ToSet(chatRows') : r.id = i
          /\ \A r \in ToSet(ListReset(rows)) : r.peer = chat.peer => r.id \in displayed'
      BY <2>1, <2>2, ShowsOf
    <2>4. unread \subseteq displayed' /\ unread \subseteq Nat
      <3>1. \A i \in DOMAIN rows : rows[i] \in ToSet(rows) /\ rows[i] \in Msg
        BY <2>2, SeqFacts
      <3> QED
        BY <2>2, <2>3, <3>1 DEF Msg
    <2> HIDE DEF unread
    <2>5. c \in Call /\ c.op = "read" /\ c.ids = unread
      BY <2>4, CallsMade
    <2> HIDE DEF c
    <2>6. \E X : Asked(X)
      <3>1. CASE unread = {}
        BY <2>1, <3>1, NoneAsked
      <3>2. CASE unread # {}
        <4>1. Asked({c})
          BY <2>1, <2>4, <2>5, <3>2, OneAsked
        <4> QED
          BY <4>1
      <3> QED
        BY <3>1, <3>2
    <2> QED
      BY <1>1, <1>2, <1>4, <2>1, <2>3, <2>6 DEF MessagesShape, rows
  <1> QED
    BY <1>3, <1>4

LEMMA DeliverSteps ==
    ASSUME Types, InOrder, DeliverImEvent
    PROVE  DeliverShape(imEvents[1])
  <1>1. imEvents # <<>> /\ Delivered
    BY DEF DeliverImEvent, OnAddresses, OnMessage, OnMessages, OnChatList, OnChatRemoved
  <1>2. /\ imEvents[1] \in Event /\ imEvents[1] = Head(imEvents)
        /\ imEvents' \in Seq(Event) /\ Shorter(imEvents, imEvents')
    BY <1>1, TailShorter DEF Delivered, Types
  <1>3. StoreKept
    BY <1>1 DEF Delivered, StoreKept
  <1>4. ASSUME NEW own \in BOOLEAN, OnAddresses(own) PROVE AddressesShape(Head(imEvents))
    BY <1>4, AddressesStep
  <1>5. ASSUME OnMessage PROVE MessageShape(Head(imEvents))
    BY <1>5, MessageStep
  <1>6. ASSUME OnMessages PROVE MessagesShape(Head(imEvents))
    <2>1. Head(imEvents).kind = "messages" /\ 1 \in DOMAIN imEvents
      BY <1>2, <1>6 DEF OnMessages, Shorter
    <2>2. Newest(Head(imEvents).of)
      BY <1>2, <2>1 DEF InOrder
    <2> QED
      BY <1>6, <2>2, MessagesStep
  <1>7. ASSUME OnChatList PROVE ListShape(Head(imEvents))
    BY <1>7 DEF OnChatList, ListShape, RowsKept
  <1>8. ASSUME OnChatRemoved PROVE RemovedShape(Head(imEvents))
    <2>1. Head(imEvents).kind = "removed" /\ chatList' = chatList /\ displayed' = displayed
      BY <1>8 DEF OnChatRemoved
    <2>2. CASE chat.open /\ chat.peer = Head(imEvents).peer
      <3> DEFINE c == [op |-> "contacts"]
      <3>1. PageClosed /\ imCalls' = Append(imCalls, c)
        BY <1>8, <2>2 DEF OnChatRemoved
      <3>2. c \in Call /\ c.op = "contacts"
        BY CallsMade
      <3> HIDE DEF c
      <3>3. Asked({c}) /\ IsRefresh(c)
        BY <3>1, <3>2, OneAsked DEF IsRefresh
      <3> QED
        BY <2>1, <2>2, <3>1, <3>3 DEF RemovedShape
    <2>3. CASE ~(chat.open /\ chat.peer = Head(imEvents).peer)
      BY <1>8, <2>1, <2>3 DEF OnChatRemoved, RemovedShape
    <2> QED
      BY <2>2, <2>3
  <1> QED
    BY <1>2, <1>3, <1>4, <1>5, <1>6, <1>7, <1>8 DEF DeliverImEvent, DeliverShape

-----------------------------------------------------------------------------
(* What holds after a step.                                                *)

\* The rows after an event are those there were or those it hands out, and
\* those of the peer it hands out are rows.
PageAfter(e) ==
    /\ PageTypes' /\ Closed'
    /\ chat'.open => chat.open /\ chat'.peer = chat.peer /\ listBlocked' = listBlocked
    /\ ~chat'.open => ToSet(chatRows') = {}
    /\ \A m \in ToSet(chatRows') :
           m.peer = chat'.peer /\ (m \in ToSet(chatRows) \/ Hands(e, m))
    /\ chat'.open =>
           /\ \A m : Hands(e, m) /\ m.peer = chat.peer => m \in ToSet(chatRows')
           /\ \A m \in ToSet(chatRows) : m \in ToSet(chatRows') \/ Replaces(e)

LEMMA NoRows ==
    ASSUME Types, Closed, Numbers, ~chat.open
    PROVE  ToSet(chatRows) = {}
  <1>1. \A m \in ToSet(chatRows) : m \in Msg /\ m.peer = NoId
    BY SeqFacts, NoChatOf DEF Types, Closed, Numbers
  <1> QED
    BY <1>1, MessengerAssumption DEF Msg

LEMMA OwnFromType ==
    ASSUME Types, NEW s \in Seq(Msg), s # <<>>
    PROVE  OwnAddressFrom(s) \in OwnIds \cup {NoId}
  <1>1. Last(s) \in Msg
    BY DEF Last
  <1> QED
    BY <1>1 DEF OwnAddressFrom, Types, Chat, Msg

LEMMA DeliverPage ==
    ASSUME Types, Closed, Numbers, InOrder, NEW e, DeliverShape(e)
    PROVE  PageAfter(e)
  <1>1. /\ e \in Event /\ e = imEvents[1] /\ imEvents' \in Seq(Event) /\ 1 \in DOMAIN imEvents
        /\ imCalls \in Seq(Call) /\ chat \in Chat /\ chatRows \in Seq(Msg)
        /\ chatList \subseteq [peer: Peers, unread: BOOLEAN] /\ listBlocked \in BOOLEAN
    BY DEF DeliverShape, Shorter, Types
  <1>2. \A m \in ToSet(chatRows) : m.peer = chat.peer
    BY DEF Numbers
  <1>3. ~chat.open => ToSet(chatRows) = {}
    BY NoRows
  <1>4. CASE AddressesShape(e)
    <2>1. chat' \in Chat /\ chat'.open = chat.open /\ chat'.peer = chat.peer
          /\ (~chat.open => chat' = chat)
      BY <1>1, <1>4 DEF AddressesShape, Chat
    <2>2. PageTypes' /\ Closed'
      BY <1>1, <1>4, <2>1 DEF AddressesShape, Asked, RowsKept, ListKept, PageTypes, Closed
    <2>3. \A m : ~Hands(e, m)
      BY <1>4 DEF AddressesShape, Hands
    <2> QED
      BY <1>2, <1>3, <1>4, <2>1, <2>2, <2>3 DEF AddressesShape, RowsKept, ListKept, PageAfter
  <1>5. CASE MessageShape(e)
    <2>1. chat' = chat /\ ListKept /\ imCalls' \in Seq(Call) /\ e.of \in Msg
      BY <1>5 DEF MessageShape, Asked
    <2>2. \A m : Hands(e, m) <=> m = e.of
      BY <1>5 DEF MessageShape, Hands
    <2>3. CASE chat.open /\ chat.peer = e.of.peer
      <3>1. chatRows' \in Seq(Msg) /\ ToSet(chatRows') = ToSet(chatRows) \cup {e.of}
        BY <1>1, <1>5, <2>1, <2>3, OneMoreRow DEF MessageShape
      <3> QED
        BY <1>1, <1>2, <1>3, <2>1, <2>2, <2>3, <3>1 DEF ListKept, PageTypes, Closed, PageAfter
    <2>4. CASE ~(chat.open /\ chat.peer = e.of.peer)
      <3>1. RowsKept
        BY <1>5, <2>4 DEF MessageShape
      <3> QED
        BY <1>1, <1>2, <1>3, <2>1, <2>2, <2>4, <3>1
        DEF ListKept, RowsKept, PageTypes, Closed, PageAfter
    <2> QED
      BY <2>3, <2>4
  <1>6. CASE MessagesShape(e)
    <2>1. ListKept /\ imCalls' \in Seq(Call) /\ e.of \in Seq(Msg) /\ e.kind = "messages"
      BY <1>6 DEF MessagesShape, Asked
    <2>2. \A m : Hands(e, m) <=> m \in ToSet(e.of)
      BY <2>1 DEF Hands
    <2>3. CASE ~chat.open \/ e.of = <<>>
      <3>1. RowsKept /\ chat' = chat
        BY <1>6, <2>3 DEF MessagesShape
      <3>2. e.of = <<>> => ToSet(e.of) = {}
        BY DEF ToSet
      <3> QED
        BY <1>1, <1>2, <1>3, <2>1, <2>2, <2>3, <3>1, <3>2
        DEF ListKept, RowsKept, PageTypes, Closed, PageAfter
    <2>4. CASE ~(~chat.open \/ e.of = <<>>)
      <3>1. Replaces(e)
        BY <2>1, <2>4 DEF Replaces
      <3>2. Newest(e.of)
        BY <1>1, <2>1 DEF InOrder
      <3>3. chatRows' \in Seq(Msg) /\ ToSet(chatRows') = {m \in ToSet(e.of) : m.peer = chat.peer}
        BY <1>6, <2>1, <2>4, <3>2, RowsOfAnswer DEF MessagesShape
      <3>4. /\ chat' = [chat EXCEPT !.own = OwnAddressFrom(e.of)]
            /\ OwnAddressFrom(e.of) \in OwnIds \cup {NoId}
        BY <1>6, <2>1, <2>4, OwnFromType DEF MessagesShape
      <3>5. chat' \in Chat /\ chat'.open = chat.open /\ chat'.peer = chat.peer
        BY <1>1, <3>4 DEF Chat
      <3>6. PageTypes' /\ Closed'
        BY <1>1, <2>1, <2>4, <3>3, <3>5 DEF ListKept, PageTypes, Closed
      <3> QED
        BY <2>1, <2>2, <2>4, <3>1, <3>3, <3>5, <3>6 DEF ListKept, PageAfter
    <2> QED
      BY <2>3, <2>4
  <1>7. CASE ListShape(e)
    <2>1. \A m : ~Hands(e, m)
      BY <1>7 DEF ListShape, Hands
    <2>2. chatList' \subseteq [peer: Peers, unread: BOOLEAN]
      BY <1>1, <1>7, EventFacts DEF ListShape
    <2> QED
      BY <1>1, <1>2, <1>3, <1>7, <2>1, <2>2
      DEF ListShape, RowsKept, PageTypes, Closed, PageAfter
  <1>8. CASE RemovedShape(e)
    <2>1. \A m : ~Hands(e, m)
      BY <1>8 DEF RemovedShape, Hands
    <2>2. CASE chat.open /\ chat.peer = e.peer
      <3>1. /\ chat' = NoChat /\ chatRows' = <<>> /\ listBlocked' = FALSE /\ imCalls' \in Seq(Call)
            /\ chatList' = chatList
        BY <1>8, <2>2 DEF RemovedShape, PageClosed, Asked
      <3>2. <<>> \in Seq(Msg) /\ ToSet(<<>>) = {}
        BY DEF ToSet
      <3>3. listBlocked' \in BOOLEAN
        BY <3>1, Zenon
      <3>4. PageTypes' /\ Closed'
        BY <1>1, <3>1, <3>2, <3>3, NoChatOf DEF PageTypes, Closed
      <3> QED
        BY <3>1, <3>2, <3>4, NoChatOf DEF PageAfter
    <2>3. CASE ~(chat.open /\ chat.peer = e.peer)
      BY <1>1, <1>2, <1>3, <1>8, <2>1, <2>3 DEF RemovedShape, PageTypes, Closed, PageAfter
    <2> QED
      BY <2>2, <2>3
  <1> QED
    BY <1>4, <1>5, <1>6, <1>7, <1>8 DEF DeliverShape

\* Calls are taken off the front at most.
FewerCalls ==
    /\ imCalls' \in Seq(Call)
    /\ imCalls' = imCalls \/ Shorter(imCalls, imCalls')

LEMMA StoreInvInit == MessengerInit => StoreInv
  <1> SUFFICES ASSUME MessengerInit PROVE StoreInv
    OBVIOUS
  <1> USE DEF MessengerInit
  <1>1. Types
    <2>1. [op |-> "contacts"] \in Call /\ NoChat \in Chat
      BY CallsMade, NoChatOf
    <2>2. listBlocked \in BOOLEAN
      BY Zenon
    <2> QED
      BY <2>1, <2>2 DEF Types
  <1>2. Closed
    BY NoChatOf DEF Closed
  <1>3. Numbers
    BY DEF Numbers, ToSet
  <1>4. ReadsShown
    BY DEF ReadsShown
  <1> QED
    BY <1>1, <1>2, <1>3, <1>4 DEF StoreInv

LEMMA StoreInvUser ==
    ASSUME StoreInv, UserShape, PageTypes', Closed'
    PROVE  StoreInv'
  <1> USE DEF StoreInv
  <1>1. Types'
    BY DEF UserShape, PageTypes, Types
  <1>2. Numbers'
    <2>1. \A m \in ToSet(chatRows) : m \in Msg
      BY SeqFacts DEF Types
    <2>2. \A m \in ToSet(chatRows') : m \in ToSet(chatRows) /\ m.peer = chat'.peer
      <3>1. ToSet(<<>>) = {}
        BY DEF ToSet
      <3> QED
        BY <2>1, <3>1, MessengerAssumption DEF UserShape, Numbers, Msg
    <2> QED
      BY <2>2 DEF Numbers, UserShape
  <1>3. ReadsShown'
    BY DEF ReadsShown, UserShape, Longer
  <1> QED
    BY <1>1, <1>2, <1>3

LEMMA StoreInvStored ==
    ASSUME StoreInv, NEW m, StoreShape(m), FewerCalls, PagesKept
    PROVE  StoreInv'
  <1> USE DEF StoreInv
  <1>1. PICK e \in Event : e.kind = "message" /\ e.of = m /\ Told(e)
    BY DEF StoreShape
  <1>2. /\ m \in Msg /\ m.id = numbered + 1 /\ numbered' = numbered + 1 /\ numbered \in Nat
        /\ inbox' = inbox \cup {m}
        /\ seen' = seen \/ (~m.income /\ seen' = seen \cup {m.id})
    BY DEF StoreShape, Types
  <1>3. \A n \in Msg : n.id \in Nat
    BY DEF Msg
  <1>4. Types' /\ Closed'
    BY <1>1, <1>2 DEF Types, Closed, FewerCalls, PagesKept, Told
  <1>5. Numbers'
    <2>1. \A n : Hands(e, n) <=> n = m
      BY <1>1 DEF Hands
    <2>2. \A i \in DOMAIN imEvents' : imEvents'[i] = e \/
              (i \in DOMAIN imEvents /\ imEvents'[i] = imEvents[i])
      BY <1>1 DEF Told, Longer
    <2>3. \A i \in DOMAIN imEvents' : \A n : Hands(imEvents'[i], n) =>
              n \in Msg /\ n.id <= numbered'
      BY <1>2, <1>3, <2>1, <2>2 DEF Numbers
    <2>4. \A n \in inbox' : n.id <= numbered'
      BY <1>2, <1>3 DEF Numbers, Types
    <2>5. \A n, q \in inbox' : n.id = q.id => n = q
      BY <1>2, <1>3 DEF Numbers, Types
    <2>6. \A n \in ToSet(chatRows') : n.id <= numbered' /\ n.peer = chat'.peer
      <3>1. \A n \in ToSet(chatRows) : n.id \in Nat
        BY <1>3, SeqFacts DEF Types
      <3> QED
        BY <1>2, <3>1 DEF Numbers, PagesKept
    <2>7. displayed' \subseteq 0..numbered' /\ seen' \subseteq 0..numbered'
      <3>1. 0..numbered \subseteq 0..numbered' /\ m.id \in 0..numbered'
        BY <1>2
      <3>2. displayed' = displayed /\ displayed \subseteq 0..numbered /\ seen \subseteq 0..numbered
        BY DEF Numbers, PagesKept
      <3> QED
        BY <1>2, <3>1, <3>2
    <2> QED
      BY <2>3, <2>4, <2>5, <2>6, <2>7 DEF Numbers
  <1>6. ReadsShown'
    <2>1. \A i \in DOMAIN imCalls' : \E j \in DOMAIN imCalls : imCalls'[i] = imCalls[j]
      BY DEF FewerCalls, Shorter
    <2>2. m.id \notin seen
      BY <1>2 DEF Numbers
    <2>3. \A n \in inbox : n.income /\ n.id \in seen' => n.id \in displayed
      BY <1>2, <1>3 DEF ReadsShown, Numbers, Types
    <2> QED
      BY <1>2, <2>1, <2>2, <2>3 DEF ReadsShown, PagesKept
  <1> QED
    BY <1>4, <1>5, <1>6

LEMMA StoreInvRun ==
    ASSUME StoreInv, NEW c, RunShape(c)
    PROVE  StoreInv'
  <1> USE DEF StoreInv
  <1>1. FewerCalls /\ PagesKept /\ c \in Call /\ c = imCalls[1] /\ 1 \in DOMAIN imCalls
    BY DEF RunShape, FewerCalls, Shorter
  <1>2. CASE c.op = "send"
    BY <1>1, <1>2, StoreInvStored DEF RunShape
  <1>3. CASE c.op # "send"
    <2>1. /\ inbox' \subseteq inbox /\ numbered' = numbered /\ imEvents' \in Seq(Event)
          /\ seen' = seen \/ (c.op = "read" /\ seen' = seen \cup c.ids)
      BY <1>3 DEF RunShape, StoreKept, Told, Types
    <2>2. c.op = "read" => c.ids \subseteq displayed
      BY <1>1 DEF ReadsShown
    <2>3. \A i \in DOMAIN imEvents' : \A n : Hands(imEvents'[i], n) =>
              n \in inbox \/ \E j \in DOMAIN imEvents : Hands(imEvents[j], n)
      <3>1. CASE imEvents' = imEvents
        BY <3>1
      <3>2. ASSUME NEW e \in Event, Told(e), \A n : Hands(e, n) => n \in inbox
            PROVE  \A i \in DOMAIN imEvents' : \A n : Hands(imEvents'[i], n) =>
                       n \in inbox \/ \E j \in DOMAIN imEvents : Hands(imEvents[j], n)
        <4>1. \A i \in DOMAIN imEvents' : imEvents'[i] = e \/
                  (i \in DOMAIN imEvents /\ imEvents'[i] = imEvents[i])
          BY <3>2 DEF Told, Longer
        <4> QED
          BY <3>2, <4>1
      <3>3. imEvents' = imEvents \/ \E e \in Event : Told(e) /\ \A n : Hands(e, n) => n \in inbox
        BY <1>3 DEF RunShape, Hands, Conversation
      <3> QED
        BY <3>1, <3>2, <3>3
    <2>4. Types' /\ Closed'
      BY <1>1, <2>1 DEF Types, Closed, PagesKept, FewerCalls
    <2>5. Numbers'
      BY <1>1, <2>1, <2>2, <2>3 DEF Numbers, PagesKept, Types
    <2>6. ReadsShown'
      <3>1. \A i \in DOMAIN imCalls' : \E j \in DOMAIN imCalls : imCalls'[i] = imCalls[j]
        BY <1>1 DEF FewerCalls, Shorter
      <3> QED
        BY <1>1, <2>1, <2>2, <3>1 DEF ReadsShown, PagesKept
    <2> QED
      BY <2>4, <2>5, <2>6
  <1> QED
    BY <1>2, <1>3

LEMMA AfterDelivery ==
    ASSUME StoreInv, NEW e, DeliverShape(e)
    PROVE  /\ displayed \subseteq displayed'
           /\ \A i \in displayed' : i \in displayed \/ \E r \in ToSet(chatRows') : r.id = i
           /\ imCalls' = imCalls \/ \E X : Asked(X)
  BY DEF DeliverShape, AddressesShape, MessageShape, MessagesShape, ListShape, RemovedShape,
         RowsKept

LEMMA StoreInvDeliver ==
    ASSUME StoreInv, InOrder, NEW e, DeliverShape(e)
    PROVE  StoreInv'
  <1> USE DEF StoreInv
  <1>1. PageAfter(e)
    BY DeliverPage
  <1>2. /\ e \in Event /\ e = imEvents[1] /\ 1 \in DOMAIN imEvents /\ StoreKept
        /\ imEvents' \in Seq(Event)
    BY DEF DeliverShape, Shorter
  <1>3. Types' /\ Closed'
    BY <1>1, <1>2 DEF PageAfter, PageTypes, Types, StoreKept
  <1>4. \A i \in DOMAIN imEvents' : \E j \in DOMAIN imEvents : imEvents'[i] = imEvents[j]
    BY DEF DeliverShape, Shorter
  <1>5. /\ displayed \subseteq displayed'
        /\ \A i \in displayed' : i \in displayed \/ \E r \in ToSet(chatRows') : r.id = i
        /\ imCalls' = imCalls \/ \E X : Asked(X)
    BY AfterDelivery
  <1>6. Numbers'
    <2>1. \A m \in ToSet(chatRows') : m \in Msg /\ m.id <= numbered /\ m.peer = chat'.peer
      BY <1>1, <1>2, SeqFacts DEF PageAfter, Numbers, Types
    <2>2. displayed' \subseteq 0..numbered
      <3>1. \A r \in ToSet(chatRows') : r.id \in 0..numbered
        BY <2>1 DEF Msg, Types
      <3>2. displayed \subseteq 0..numbered
        BY DEF Numbers
      <3> QED
        BY <1>5, <3>1, <3>2
    <2> QED
      BY <1>2, <1>4, <2>1, <2>2 DEF Numbers, StoreKept
  <1>7. ReadsShown'
    <2>1. \A i \in DOMAIN imCalls' : imCalls'[i].op = "read" => imCalls'[i].ids \subseteq displayed'
      BY <1>5 DEF ReadsShown, Asked, Longer
    <2> QED
      BY <1>2, <1>5, <2>1 DEF ReadsShown, StoreKept
  <1> QED
    BY <1>3, <1>6, <1>7

-----------------------------------------------------------------------------
(* The rows of the page.                                                   *)

LEMMA RowsInvInit == MessengerInit => RowsInv
  <1> SUFFICES ASSUME MessengerInit PROVE RowsInv
    OBVIOUS
  <1>1. imEvents = <<>> /\ chatRows = <<>> /\ ~chat.open /\ inbox = {}
    BY NoChatOf DEF MessengerInit
  <1> QED
    BY <1>1 DEF RowsInv, InOrder, Withdrawn, AskedLast, OnTheirWay, Oldest, ToSet

LEMMA RowsInvUser ==
    ASSUME StoreInv, RowsInv, UserShape
    PROVE  RowsInv'
  <1>1. /\ imEvents' = imEvents /\ inbox' = inbox
        /\ chatRows' = <<>> \/ chatRows' = chatRows
    BY DEF UserShape
  <1>2. ToSet(<<>>) = {} /\ Oldest(<<>>)
    BY DEF ToSet, Oldest
  <1>3. InOrder'
    BY <1>1, <1>2 DEF RowsInv, InOrder
  <1>4. Withdrawn'
    BY <1>1, <1>2 DEF RowsInv, Withdrawn, RemovedComes
  <1>5. PICK X \in SUBSET Call :
            /\ Longer(imCalls, imCalls', X)
            /\ \/ ~chat'.open \/ chat'.peer = NoId
               \/ /\ \E x \in X : IsRequest(x, chat'.peer)
                  /\ \A x \in X : x.op = "messages" => x.peer = chat'.peer
               \/ chat' = chat /\ chatRows' = chatRows /\ \A x \in X : x.op # "messages"
    BY DEF UserShape
  <1>6. CASE ~chat'.open \/ chat'.peer = NoId
    BY <1>3, <1>4, <1>6 DEF RowsInv, AskedLast, OnTheirWay
  <1>7. CASE /\ \E x \in X : IsRequest(x, chat'.peer)
             /\ \A x \in X : x.op = "messages" => x.peer = chat'.peer
    <2>1. PICK l \in DOMAIN imCalls' : l \notin DOMAIN imCalls /\ IsRequest(imCalls'[l], chat'.peer)
      BY <1>5, <1>7 DEF Longer
    <2>2. \A k \in DOMAIN imCalls : k < l
      BY <1>5, <2>1 DEF Longer
    <2>3. \A k \in DOMAIN imCalls' : imCalls'[k].op = "messages" /\ imCalls'[k].peer # chat'.peer
                                     => k < l
      BY <1>5, <1>7, <2>2 DEF Longer
    <2>4. l \in Nat /\ DOMAIN imCalls' \subseteq Nat
      BY <1>5 DEF Longer
    <2>5. AskedLast'
      BY <2>1, <2>3, <2>4 DEF AskedLast
    <2>6. OnTheirWay'
      BY <2>1 DEF OnTheirWay
    <2> QED
      BY <1>3, <1>4, <2>5, <2>6 DEF RowsInv
  <1>8. CASE chat' = chat /\ chatRows' = chatRows /\ \A x \in X : x.op # "messages"
    <2>1. \A k \in DOMAIN imCalls' : imCalls'[k].op = "messages" =>
              k \in DOMAIN imCalls /\ imCalls[k] = imCalls'[k]
      BY <1>5, <1>8 DEF Longer
    <2>2. \A k \in DOMAIN imCalls : k \in DOMAIN imCalls' /\ imCalls'[k] = imCalls[k]
      BY <1>5 DEF Longer
    <2>3. AskedLast'
      BY <1>8, <2>1, <2>2 DEF RowsInv, AskedLast, IsRequest
    <2>4. OnTheirWay'
      BY <1>1, <1>8, <2>1, <2>2 DEF RowsInv, OnTheirWay, IsRequest, RemovedComes
    <2> QED
      BY <1>3, <1>4, <2>3, <2>4 DEF RowsInv
  <1> QED
    BY <1>5, <1>6, <1>7, <1>8

\* Where no request for messages is taken away, the last one is where it was.
LEMMA AskedLastKept ==
    ASSUME AskedLast, FewerCalls, chat' = chat, imCalls[1].op # "messages"
    PROVE  /\ AskedLast'
           /\ \A peer : (\A k \in DOMAIN imCalls' : ~IsRequest(imCalls'[k], peer))
                        => \A k \in DOMAIN imCalls : ~IsRequest(imCalls[k], peer)
  <1>1. CASE imCalls' = imCalls
    BY <1>1 DEF AskedLast
  <1>2. CASE Shorter(imCalls, imCalls')
    <2>1. \A peer : (\A k \in DOMAIN imCalls' : ~IsRequest(imCalls'[k], peer))
                        => \A k \in DOMAIN imCalls : ~IsRequest(imCalls[k], peer)
      BY <1>2 DEF Shorter, IsRequest
    <2>2. ASSUME chat.open /\ chat.peer # NoId, NEW k \in DOMAIN imCalls',
                 imCalls'[k].op = "messages" /\ imCalls'[k].peer # chat.peer
          PROVE  \E l \in DOMAIN imCalls' : l > k /\ IsRequest(imCalls'[l], chat.peer)
      <3>1. k \in Nat /\ k + 1 \in DOMAIN imCalls /\ imCalls'[k] = imCalls[k + 1]
        BY <1>2 DEF Shorter
      <3>2. PICK l \in DOMAIN imCalls : l > k + 1 /\ IsRequest(imCalls[l], chat.peer)
        BY <2>2, <3>1 DEF AskedLast
      <3>3. l \in Nat /\ l # 1
        BY <1>2, <3>1, <3>2 DEF Shorter
      <3>4. l - 1 \in DOMAIN imCalls' /\ imCalls'[l - 1] = imCalls[l] /\ l - 1 > k
        BY <1>2, <3>1, <3>2, <3>3 DEF Shorter
      <3> QED
        BY <3>2, <3>4
    <2> QED
      BY <2>1, <2>2 DEF AskedLast
  <1> QED
    BY <1>1, <1>2 DEF FewerCalls

LEMMA RowsInvStored ==
    ASSUME StoreInv, RowsInv, NEW m, StoreShape(m), FewerCalls, PagesKept,
           imCalls' # imCalls => imCalls[1].op # "messages"
    PROVE  RowsInv'
  <1>1. PICK e \in Event : e.kind = "message" /\ e.of = m /\ Told(e)
    BY DEF StoreShape
  <1>2. /\ m \in Msg /\ m.id = numbered + 1 /\ numbered \in Nat
        /\ inbox' = inbox \cup {m} /\ chat' = chat /\ chatRows' = chatRows
    BY DEF StoreShape, StoreInv, Types, PagesKept
  <1>3. /\ \A i \in DOMAIN imEvents : i \in DOMAIN imEvents' /\ imEvents'[i] = imEvents[i]
        /\ DOMAIN imEvents' \subseteq Nat
        /\ \A i \in DOMAIN imEvents' : i \in DOMAIN imEvents \/
               (imEvents'[i] = e /\ \A j \in DOMAIN imEvents : j < i)
        /\ \E i \in DOMAIN imEvents' : i \notin DOMAIN imEvents /\ imEvents'[i] = e
    BY <1>1 DEF Told, Longer
  <1>4. ~Replaces(e) /\ e.kind # "removed" /\ e.kind # "messages" /\ \A n : Hands(e, n) <=> n = m
    BY <1>1 DEF Replaces, Hands
  <1>5. \A i \in DOMAIN imEvents : \A n : Hands(imEvents[i], n) => n \in Msg /\ n.id < m.id
    BY <1>2 DEF StoreInv, Numbers, Msg
  <1>6. \A n \in ToSet(chatRows) : n.id < m.id
    <2>1. \A n \in ToSet(chatRows) : n \in Msg /\ n.id <= numbered
      BY SeqFacts DEF StoreInv, Types, Numbers
    <2> QED
      BY <1>2, <2>1 DEF Msg
  <1>7. InOrder'
    <2>1. \A i \in DOMAIN imEvents' : imEvents'[i].kind = "messages" => Newest(imEvents'[i].of)
      BY <1>3, <1>4 DEF RowsInv, InOrder
    <2>2. Oldest(chatRows')
      BY <1>2 DEF RowsInv, InOrder
    <2>3. \A i \in DOMAIN imEvents' : imEvents'[i].kind = "message" =>
              \A n \in ToSet(chatRows') : n.id < imEvents'[i].of.id
      BY <1>1, <1>2, <1>3, <1>6 DEF RowsInv, InOrder
    <2>4. ASSUME NEW i \in DOMAIN imEvents', imEvents'[i].kind = "message",
                 NEW j \in DOMAIN imEvents', j < i, NEW n, Hands(imEvents'[j], n)
          PROVE  n.id < imEvents'[i].of.id
      <3>1. CASE i \in DOMAIN imEvents
        <4>1. j \in DOMAIN imEvents
          BY <1>3, <2>4, <3>1
        <4> QED
          BY <1>3, <2>4, <3>1, <4>1 DEF RowsInv, InOrder
      <3>2. CASE i \notin DOMAIN imEvents
        <4>1. j \in DOMAIN imEvents /\ imEvents'[i] = e
          <5>1. SUFFICES ASSUME j \notin DOMAIN imEvents PROVE FALSE
            BY <1>3, <3>2
          <5>2. i = j
            BY <1>1, <3>2, <5>1 DEF Told
          <5> QED
            BY <1>3, <2>4, <5>2
        <4> QED
          BY <1>1, <1>3, <1>5, <2>4, <4>1
      <3> QED
        BY <3>1, <3>2
    <2> QED
      BY <2>1, <2>2, <2>3, <2>4 DEF InOrder
  <1>8. Withdrawn'
    BY <1>2, <1>3, <1>4 DEF RowsInv, Withdrawn, RemovedComes
  <1>9. /\ AskedLast'
        /\ \A peer : (\A k \in DOMAIN imCalls' : ~IsRequest(imCalls'[k], peer))
                     => \A k \in DOMAIN imCalls : ~IsRequest(imCalls[k], peer)
    BY <1>2, AskedLastKept DEF RowsInv, AskedLast
  <1>10. OnTheirWay'
    BY <1>2, <1>3, <1>4, <1>9 DEF RowsInv, OnTheirWay, RemovedComes
  <1> QED
    BY <1>7, <1>8, <1>9, <1>10 DEF RowsInv

LEMMA RowsInvRun ==
    ASSUME StoreInv, RowsInv, NEW c, RunShape(c)
    PROVE  RowsInv'
  <1>1. /\ FewerCalls /\ PagesKept /\ c \in Call /\ c = imCalls[1] /\ 1 \in DOMAIN imCalls
        /\ Shorter(imCalls, imCalls') /\ chat' = chat /\ chatRows' = chatRows
    BY DEF RunShape, FewerCalls, Shorter, PagesKept
  <1>2. CASE c.op = "send"
    BY <1>1, <1>2, RowsInvStored DEF RunShape
  <1>3. CASE c.op = "read"
    <2>1. imEvents' = imEvents /\ inbox' = inbox
      BY <1>3 DEF RunShape
    <2>2. /\ AskedLast'
          /\ \A peer : (\A k \in DOMAIN imCalls' : ~IsRequest(imCalls'[k], peer))
                       => \A k \in DOMAIN imCalls : ~IsRequest(imCalls[k], peer)
      BY <1>1, <1>3, AskedLastKept DEF RowsInv
    <2>3. OnTheirWay'
      BY <1>1, <2>1, <2>2 DEF RowsInv, OnTheirWay, RemovedComes
    <2> QED
      BY <1>1, <2>1, <2>2, <2>3 DEF RowsInv, InOrder, Withdrawn, RemovedComes
  <1>4. ASSUME NEW e \in Event, Told(e), e.kind # "message",
               e.kind = "messages" => /\ Newest(e.of) /\ \A m \in ToSet(e.of) : m \in inbox'
               ,
               \A m \in inbox : m \in inbox' \/ (e.kind = "removed" /\ m.peer = e.peer)
        PROVE  InOrder' /\ Withdrawn'
    <2>1. /\ \A i \in DOMAIN imEvents : i \in DOMAIN imEvents' /\ imEvents'[i] = imEvents[i]
          /\ DOMAIN imEvents' \subseteq Nat
          /\ \A i \in DOMAIN imEvents' : i \in DOMAIN imEvents \/
                 (imEvents'[i] = e /\ \A j \in DOMAIN imEvents : j < i)
          /\ \E i \in DOMAIN imEvents' : i \notin DOMAIN imEvents /\ imEvents'[i] = e
      BY <1>4 DEF Told, Longer
    <2>2. \A m : Hands(e, m) => m \in inbox'
      BY <1>4 DEF Hands
    <2>3. InOrder'
      <3>1. \A i \in DOMAIN imEvents' : imEvents'[i].kind = "messages" => Newest(imEvents'[i].of)
        BY <1>4, <2>1 DEF RowsInv, InOrder
      <3>2. \A i \in DOMAIN imEvents' : imEvents'[i].kind = "message" =>
                \A m \in ToSet(chatRows') : m.id < imEvents'[i].of.id
        BY <1>1, <1>4, <2>1 DEF RowsInv, InOrder
      <3>3. ASSUME NEW i \in DOMAIN imEvents', imEvents'[i].kind = "message",
                   NEW j \in DOMAIN imEvents', j < i
            PROVE  \A m : Hands(imEvents'[j], m) => m.id < imEvents'[i].of.id
        <4>1. i \in DOMAIN imEvents
          BY <1>4, <2>1, <3>3
        <4>2. j \in DOMAIN imEvents
          BY <2>1, <3>3, <4>1
        <4> QED
          BY <2>1, <3>3, <4>1, <4>2 DEF RowsInv, InOrder
      <3> QED
        BY <1>1, <3>1, <3>2, <3>3 DEF RowsInv, InOrder
    <2>4. Withdrawn'
      <3>1. \A m \in ToSet(chatRows') : m \in inbox' \/ RemovedComes(m.peer)'
        BY <1>1, <1>4, <2>1 DEF RowsInv, Withdrawn, RemovedComes
      <3>2. ASSUME NEW i \in DOMAIN imEvents', NEW m, Hands(imEvents'[i], m)
            PROVE  \/ m \in inbox'
                   \/ \E j \in DOMAIN imEvents' : /\ j > i /\ imEvents'[j].kind = "removed"
                                                  /\ imEvents'[j].peer = m.peer
        <4>1. CASE i \in DOMAIN imEvents
          BY <1>4, <2>1, <3>2, <4>1 DEF RowsInv, Withdrawn
        <4>2. CASE i \notin DOMAIN imEvents
          BY <2>1, <2>2, <3>2, <4>2
        <4> QED
          BY <4>1, <4>2
      <3> QED
        BY <3>1, <3>2 DEF Withdrawn
    <2> QED
      BY <2>3, <2>4
  <1>5. CASE c.op \in {"ownAddresses", "contacts", "chats", "remove"}
    <2>1. PICK e \in Event :
              /\ Told(e) /\ e.kind # "message" /\ e.kind # "messages"
              /\ inbox' \subseteq inbox
              /\ \A m \in inbox : m \in inbox' \/ (e.kind = "removed" /\ m.peer = e.peer)
      BY <1>5 DEF RunShape, StoreKept, Conversation
    <2>2. InOrder' /\ Withdrawn'
      BY <1>4, <2>1
    <2>3. /\ AskedLast'
          /\ \A peer : (\A k \in DOMAIN imCalls' : ~IsRequest(imCalls'[k], peer))
                       => \A k \in DOMAIN imCalls : ~IsRequest(imCalls[k], peer)
      BY <1>1, <1>5, AskedLastKept DEF RowsInv
    <2>4. /\ \A i \in DOMAIN imEvents : i \in DOMAIN imEvents' /\ imEvents'[i] = imEvents[i]
          /\ \A i \in DOMAIN imEvents' : i \in DOMAIN imEvents \/ imEvents'[i] = e
          /\ \E i \in DOMAIN imEvents' : imEvents'[i] = e
      BY <2>1 DEF Told, Longer
    <2>5. ~Replaces(e) /\ \A m : ~Hands(e, m)
      BY <2>1 DEF Replaces, Hands
    <2>6. \A peer : ~RemovedComes(peer)' => ~RemovedComes(peer)
      BY <2>4 DEF RemovedComes
    <2>7. OnTheirWay'
      BY <1>1, <2>1, <2>3, <2>4, <2>5, <2>6 DEF RowsInv, OnTheirWay
    <2> QED
      BY <2>2, <2>3, <2>7 DEF RowsInv
  <1>6. CASE c.op = "messages"
    <2>1. PICK e \in Event : /\ e.kind = "messages" /\ Told(e)
                             /\ ToSet(e.of) = Conversation(c.peer) /\ Newest(e.of)
      BY <1>6 DEF RunShape
    <2>2. inbox' = inbox
      BY <1>6 DEF RunShape, StoreKept
    <2>3. InOrder' /\ Withdrawn'
      BY <1>4, <2>1, <2>2 DEF Conversation
    <2>4. AskedLast'
      <3> SUFFICES ASSUME chat.open /\ chat.peer # NoId, NEW k \in DOMAIN imCalls',
                          imCalls'[k].op = "messages" /\ imCalls'[k].peer # chat.peer
                   PROVE  \E l \in DOMAIN imCalls' : l > k /\ IsRequest(imCalls'[l], chat.peer)
        BY <1>1 DEF AskedLast
      <3>1. k \in Nat /\ k + 1 \in DOMAIN imCalls /\ imCalls'[k] = imCalls[k + 1]
        BY <1>1 DEF Shorter
      <3>2. PICK l \in DOMAIN imCalls : l > k + 1 /\ IsRequest(imCalls[l], chat.peer)
        BY <3>1 DEF RowsInv, AskedLast
      <3>3. l \in Nat /\ l # 1
        BY <1>1, <3>1, <3>2 DEF Shorter
      <3>4. l - 1 \in DOMAIN imCalls' /\ imCalls'[l - 1] = imCalls[l] /\ l - 1 > k
        BY <1>1, <3>1, <3>2, <3>3 DEF Shorter
      <3> QED
        BY <3>2, <3>4
    <2>5. OnTheirWay'
      <3> SUFFICES ASSUME chat.open /\ chat.peer # NoId,
                          \A k \in DOMAIN imCalls' : ~IsRequest(imCalls'[k], chat.peer),
                          ~RemovedComes(chat.peer)',
                          NEW m \in inbox, m.peer = chat.peer
                   PROVE  \E i \in DOMAIN imEvents' :
                              /\ Hands(imEvents'[i], m)
                              /\ \A j \in DOMAIN imEvents' :
                                     j > i /\ Replaces(imEvents'[j]) => Hands(imEvents'[j], m)
        BY <1>1, <2>2 DEF OnTheirWay
      <3>1. c.peer = chat.peer
        <4> SUFFICES ASSUME c.peer # chat.peer PROVE FALSE
          OBVIOUS
        <4>1. PICK l \in DOMAIN imCalls : l > 1 /\ IsRequest(imCalls[l], chat.peer)
          BY <1>1, <1>6 DEF RowsInv, AskedLast
        <4>2. l - 1 \in DOMAIN imCalls' /\ imCalls'[l - 1] = imCalls[l]
          BY <1>1, <4>1 DEF Shorter
        <4> QED
          BY <4>1, <4>2
      <3>2. Hands(e, m)
        BY <2>1, <3>1 DEF Hands, Conversation
      <3>3. PICK i \in DOMAIN imEvents' : i \notin DOMAIN imEvents /\ imEvents'[i] = e
        BY <2>1 DEF Told, Longer
      <3>4. \A j \in DOMAIN imEvents' : ~(j > i)
        <4> TAKE j \in DOMAIN imEvents'
        <4>1. i \in Nat /\ j \in Nat
          BY <2>1 DEF Told, Longer
        <4>2. CASE j \in DOMAIN imEvents
          <5>1. j < i
            BY <2>1, <3>3, <4>2 DEF Told, Longer
          <5> QED
            BY <4>1, <5>1
        <4>3. CASE j \notin DOMAIN imEvents
          <5>1. j = i
            BY <2>1, <3>3, <4>3 DEF Told
          <5> QED
            BY <4>1, <5>1
        <4> QED
          BY <4>2, <4>3
      <3> QED
        BY <3>2, <3>3, <3>4
    <2> QED
      BY <2>3, <2>4, <2>5 DEF RowsInv
  <1>7. c.op \in {"ownAddresses", "contacts", "chats", "messages", "remove", "send", "read"}
    BY <1>1, CallFacts
  <1> QED
    BY <1>2, <1>3, <1>5, <1>6, <1>7

\* The requests for messages are where they were.
LEMMA RequestsKept ==
    ASSUME StoreInv, NEW e, DeliverShape(e)
    PROVE  /\ \A k \in DOMAIN imCalls : k \in DOMAIN imCalls' /\ imCalls'[k] = imCalls[k]
           /\ \A k \in DOMAIN imCalls' : imCalls'[k].op = "messages" \/ imCalls'[k].op = "remove"
                  => k \in DOMAIN imCalls /\ imCalls'[k] = imCalls[k]
  <1>1. imCalls' = imCalls \/ \E X : Asked(X)
    BY AfterDelivery
  <1> QED
    BY <1>1 DEF Asked, Longer

LEMMA RowsInvDeliver ==
    ASSUME StoreInv, RowsInv, NEW e, DeliverShape(e)
    PROVE  RowsInv'
  <1>1. PageAfter(e)
    BY DeliverPage DEF StoreInv, RowsInv
  <1>2. /\ e = imEvents[1] /\ 1 \in DOMAIN imEvents /\ inbox' = inbox
        /\ DOMAIN imEvents \subseteq Nat /\ DOMAIN imEvents' \subseteq Nat
        /\ \A i \in DOMAIN imEvents' : i > 0 /\ i + 1 \in DOMAIN imEvents
                                       /\ imEvents'[i] = imEvents[i + 1]
        /\ \A i \in DOMAIN imEvents : i # 1 => /\ i > 1 /\ i - 1 \in DOMAIN imEvents'
                                               /\ imEvents'[i - 1] = imEvents[i]
    BY DEF DeliverShape, Shorter, StoreKept
  <1>3. InOrder'
    <2>1. \A i \in DOMAIN imEvents' : imEvents'[i].kind = "messages" => Newest(imEvents'[i].of)
      BY <1>2 DEF RowsInv, InOrder
    <2>2. ASSUME NEW i \in DOMAIN imEvents', imEvents'[i].kind = "message", NEW m \in ToSet(chatRows')
          PROVE  m.id < imEvents'[i].of.id
      <3>1. i \in Nat /\ i + 1 \in DOMAIN imEvents /\ imEvents'[i] = imEvents[i + 1] /\ 1 < i + 1
        BY <1>2
      <3>2. m \in ToSet(chatRows) \/ Hands(imEvents[1], m)
        BY <1>1, <1>2, <2>2 DEF PageAfter
      <3> QED
        BY <1>2, <2>2, <3>1, <3>2 DEF RowsInv, InOrder
    <2>3. ASSUME NEW i \in DOMAIN imEvents', imEvents'[i].kind = "message",
                 NEW j \in DOMAIN imEvents', j < i
          PROVE  \A m : Hands(imEvents'[j], m) => m.id < imEvents'[i].of.id
      <3>1. /\ i + 1 \in DOMAIN imEvents /\ imEvents'[i] = imEvents[i + 1]
            /\ j + 1 \in DOMAIN imEvents /\ imEvents'[j] = imEvents[j + 1] /\ j + 1 < i + 1
        BY <1>2, <2>3
      <3> QED
        BY <2>3, <3>1 DEF RowsInv, InOrder
    <2>4. Oldest(chatRows')
      <3>1. Oldest(chatRows) /\ Oldest(<<>>)
        BY DEF RowsInv, InOrder, Oldest
      <3>2. CASE MessageShape(e)
        <4>1. CASE chat.open /\ chat.peer = e.of.peer
          <5>1. e.of \in Msg /\ chatRows' = ListInsert(chatRows, <<e.of>>) /\ chatRows \in Seq(Msg)
            BY <3>2, <4>1 DEF MessageShape, StoreInv, Types
          <5>2. \A m \in ToSet(chatRows) : m.id < e.of.id
            BY <1>2, <3>2 DEF MessageShape, RowsInv, InOrder
          <5> QED
            BY <3>1, <5>1, <5>2, OneMoreRow
        <4>2. CASE ~(chat.open /\ chat.peer = e.of.peer)
          BY <3>1, <3>2, <4>2 DEF MessageShape, RowsKept
        <4> QED
          BY <4>1, <4>2
      <3>3. CASE MessagesShape(e)
        <4>1. e.of \in Seq(Msg) /\ Newest(e.of)
          BY <1>2, <3>3 DEF MessagesShape, RowsInv, InOrder
        <4>2. Oldest(ListReset(OfPeer(e.of)))
          BY <4>1, RowsOfAnswer
        <4>3. chatRows' = chatRows \/ chatRows' = ListReset(OfPeer(e.of))
          BY <3>3 DEF MessagesShape, RowsKept
        <4> QED
          BY <3>1, <4>2, <4>3
      <3>4. CASE AddressesShape(e) \/ ListShape(e)
        BY <3>1, <3>4 DEF AddressesShape, ListShape, RowsKept
      <3>5. CASE RemovedShape(e)
        BY <3>1, <3>5 DEF RemovedShape, PageClosed
      <3> QED
        BY <3>2, <3>3, <3>4, <3>5 DEF DeliverShape
    <2> QED
      BY <2>1, <2>2, <2>3, <2>4 DEF InOrder
  <1>4. \A p : RemovedComes(p) => RemovedComes(p)' \/ (e.kind = "removed" /\ e.peer = p)
    BY <1>2 DEF RemovedComes
  <1>5. \A m \in ToSet(chatRows') : ~(e.kind = "removed" /\ e.peer = m.peer)
    <2>1. SUFFICES ASSUME NEW m \in ToSet(chatRows'), e.kind = "removed" /\ e.peer = m.peer
                   PROVE  FALSE
      OBVIOUS
    <2>2. m.peer = chat'.peer /\ chat'.open /\ chat.open /\ chat'.peer = chat.peer
      BY <1>1, <2>1 DEF PageAfter
    <2>3. RemovedShape(e)
      BY <2>1 DEF DeliverShape, AddressesShape, MessageShape, MessagesShape, ListShape
    <2>4. chat' = NoChat
      BY <2>1, <2>2, <2>3 DEF RemovedShape, PageClosed
    <2> QED
      BY <2>2, <2>4, NoChatOf
  <1>6. Withdrawn'
    <2>1. ASSUME NEW m \in ToSet(chatRows')
          PROVE  m \in inbox \/ RemovedComes(m.peer)'
      <3>1. CASE m \in ToSet(chatRows)
        BY <1>4, <1>5, <2>1, <3>1 DEF RowsInv, Withdrawn
      <3>2. CASE Hands(e, m)
        <4>1. m \in inbox \/ RemovedComes(m.peer)
          BY <1>2, <3>2 DEF RowsInv, Withdrawn, RemovedComes
        <4> QED
          BY <1>4, <1>5, <2>1, <4>1
      <3> QED
        BY <1>1, <2>1, <3>1, <3>2 DEF PageAfter
    <2>2. ASSUME NEW i \in DOMAIN imEvents', NEW m, Hands(imEvents'[i], m), m \notin inbox
          PROVE  \E j \in DOMAIN imEvents' : /\ j > i /\ imEvents'[j].kind = "removed"
                                             /\ imEvents'[j].peer = m.peer
      <3>1. i \in Nat /\ i > 0 /\ i + 1 \in DOMAIN imEvents /\ imEvents'[i] = imEvents[i + 1]
        BY <1>2
      <3>2. PICK j \in DOMAIN imEvents : /\ j > i + 1 /\ imEvents[j].kind = "removed"
                                         /\ imEvents[j].peer = m.peer
        BY <2>2, <3>1 DEF RowsInv, Withdrawn
      <3>3. j \in Nat /\ j # 1 /\ j - 1 > i
        BY <1>2, <3>1, <3>2
      <3> QED
        BY <1>2, <3>2, <3>3
    <2> QED
      BY <1>2, <2>1, <2>2 DEF Withdrawn
  <1>7. /\ \A k \in DOMAIN imCalls : k \in DOMAIN imCalls' /\ imCalls'[k] = imCalls[k]
        /\ \A k \in DOMAIN imCalls' : imCalls'[k].op = "messages" =>
               k \in DOMAIN imCalls /\ imCalls'[k] = imCalls[k]
    BY RequestsKept
  <1>8. AskedLast'
    BY <1>1, <1>7 DEF PageAfter, RowsInv, AskedLast, IsRequest
  <1>9. OnTheirWay'
    <2> SUFFICES ASSUME chat'.open /\ chat'.peer # NoId,
                        \A k \in DOMAIN imCalls' : ~IsRequest(imCalls'[k], chat'.peer),
                        ~RemovedComes(chat.peer)',
                        NEW m \in inbox, m.peer = chat'.peer
                 PROVE  \/ /\ m \in ToSet(chatRows')
                           /\ \A j \in DOMAIN imEvents' :
                                  Replaces(imEvents'[j]) => Hands(imEvents'[j], m)
                        \/ \E i \in DOMAIN imEvents' :
                               /\ Hands(imEvents'[i], m)
                               /\ \A j \in DOMAIN imEvents' :
                                      j > i /\ Replaces(imEvents'[j]) => Hands(imEvents'[j], m)
      BY <1>2 DEF OnTheirWay
    <2>1. chat.open /\ chat'.peer = chat.peer
      BY <1>1 DEF PageAfter
    <2>2. \A k \in DOMAIN imCalls : ~IsRequest(imCalls[k], chat.peer)
      BY <1>7, <2>1
    <2>3. ~RemovedComes(chat.peer)
      <3>1. ~(e.kind = "removed" /\ e.peer = chat.peer)
        <4> SUFFICES ASSUME e.kind = "removed" /\ e.peer = chat.peer PROVE FALSE
          OBVIOUS
        <4>1. RemovedShape(e)
          BY DEF DeliverShape, AddressesShape, MessageShape, MessagesShape, ListShape
        <4>2. chat' = NoChat
          BY <2>1, <4>1 DEF RemovedShape, PageClosed
        <4> QED
          BY <4>2, NoChatOf
      <3> QED
        BY <1>4, <2>1, <3>1 DEF RemovedComes
    <2>4. CASE /\ m \in ToSet(chatRows)
               /\ \A j \in DOMAIN imEvents : Replaces(imEvents[j]) => Hands(imEvents[j], m)
      <3>1. \A j \in DOMAIN imEvents' : Replaces(imEvents'[j]) => Hands(imEvents'[j], m)
        BY <1>2, <2>4
      <3>2. m \in ToSet(chatRows')
        BY <1>1, <1>2, <2>1, <2>4 DEF PageAfter
      <3> QED
        BY <3>1, <3>2
    <2>5. ASSUME NEW i \in DOMAIN imEvents, Hands(imEvents[i], m),
                 \A j \in DOMAIN imEvents :
                     j > i /\ Replaces(imEvents[j]) => Hands(imEvents[j], m)
          PROVE  \/ /\ m \in ToSet(chatRows')
                    /\ \A j \in DOMAIN imEvents' :
                           Replaces(imEvents'[j]) => Hands(imEvents'[j], m)
                 \/ \E k \in DOMAIN imEvents' :
                        /\ Hands(imEvents'[k], m)
                        /\ \A j \in DOMAIN imEvents' :
                               j > k /\ Replaces(imEvents'[j]) => Hands(imEvents'[j], m)
      <3>1. CASE i = 1
        <4>1. m \in ToSet(chatRows')
          BY <1>1, <1>2, <2>1, <2>5, <3>1 DEF PageAfter
        <4>2. ASSUME NEW j \in DOMAIN imEvents', Replaces(imEvents'[j])
              PROVE  Hands(imEvents'[j], m)
          <5>1. j + 1 \in DOMAIN imEvents /\ imEvents'[j] = imEvents[j + 1] /\ j + 1 > 1
            BY <1>2
          <5> QED
            BY <2>5, <3>1, <4>2, <5>1
        <4> QED
          BY <4>1, <4>2
      <3>2. CASE i # 1
        <4>1. i - 1 \in DOMAIN imEvents' /\ imEvents'[i - 1] = imEvents[i] /\ i \in Nat
          BY <1>2, <3>2
        <4>2. ASSUME NEW j \in DOMAIN imEvents', j > i - 1, Replaces(imEvents'[j])
              PROVE  Hands(imEvents'[j], m)
          <5>1. j + 1 \in DOMAIN imEvents /\ imEvents'[j] = imEvents[j + 1] /\ j \in Nat
            BY <1>2
          <5>2. j + 1 > i
            BY <4>1, <4>2, <5>1
          <5> QED
            BY <2>5, <4>2, <5>1, <5>2
        <4> QED
          BY <2>5, <4>1, <4>2
      <3> QED
        BY <3>1, <3>2
    <2> QED
      BY <2>1, <2>2, <2>3, <2>4, <2>5 DEF RowsInv, OnTheirWay
  <1> QED
    BY <1>3, <1>6, <1>8, <1>9 DEF RowsInv

-----------------------------------------------------------------------------
(* The list of chats.                                                      *)

RemovesFollowed ==
    \A k \in DOMAIN imCalls : imCalls[k].op = "remove" =>
        \E l \in DOMAIN imCalls : l > k /\ IsRefresh(imCalls[l])

\* The last answer for the list, or the list itself, names the peers.
ListNamed ==
    /\ \A n \in DOMAIN imEvents : IsLastAnswer(n) => Names(imEvents[n].of, n)
    /\ (\A n \in DOMAIN imEvents : imEvents[n].kind # "chats") => Names(chatList, 0)

LEMMA ListInvParts ==
    ListInv <=> /\ ~listBlocked => RemovesFollowed
                /\ ~listBlocked /\ ~Due => ListNamed
  BY DEF ListInv, RemovesFollowed, ListNamed

LEMMA ListInvInit == MessengerInit => ListInv
  <1> SUFFICES ASSUME MessengerInit PROVE ListInv
    OBVIOUS
  <1>1. imCalls = <<[op |-> "contacts"]>>
    BY DEF MessengerInit
  <1>2. DOMAIN imCalls = {1} /\ imCalls[1].op = "contacts"
    BY <1>1
  <1> QED
    BY <1>2 DEF ListInv, Due, IsRefresh

\* Where the list is asked for again, nothing is said of it.
LEMMA DueAfter ==
    ASSUME NEW X, Longer(imCalls, imCalls', X), NEW x \in X, IsRefresh(x)
    PROVE  Due' /\ ((\A y \in X : y.op # "remove") => RemovesFollowed')
  <1>1. PICK l \in DOMAIN imCalls' : l \notin DOMAIN imCalls /\ IsRefresh(imCalls'[l])
    BY DEF Longer
  <1>2. Due'
    BY <1>1 DEF Due
  <1>3. ASSUME \A y \in X : y.op # "remove", NEW k \in DOMAIN imCalls', imCalls'[k].op = "remove"
        PROVE  l > k
    <2>1. k \in DOMAIN imCalls
      BY <1>3 DEF Longer
    <2>2. k < l /\ k \in Nat /\ l \in Nat
      BY <1>1, <2>1 DEF Longer
    <2> QED
      BY <2>2
  <1>4. (\A y \in X : y.op # "remove") => RemovesFollowed'
    BY <1>1, <1>3 DEF RemovesFollowed
  <1> QED
    BY <1>2, <1>4

LEMMA ListInvUser ==
    ASSUME StoreInv, ListInv, UserShape
    PROVE  ListInv'
  <1>1. PICK X \in SUBSET Call : /\ Longer(imCalls, imCalls', X)
                                 /\ ~listBlocked' => X = {[op |-> "contacts"]}
    BY DEF UserShape
  <1>2. CASE listBlocked'
    BY <1>2 DEF ListInv
  <1>3. CASE ~listBlocked'
    <2>1. [op |-> "contacts"] \in X /\ IsRefresh([op |-> "contacts"])
          /\ \A y \in X : y.op # "remove"
      BY <1>1, <1>3 DEF IsRefresh
    <2>2. Due' /\ RemovesFollowed'
      BY <1>1, <2>1, DueAfter
    <2> QED
      BY <2>2 DEF ListInv, RemovesFollowed
  <1> QED
    BY <1>2, <1>3

\* What is not taken off the front still is asked for.
LEMMA RefreshKept ==
    ASSUME FewerCalls
    PROVE  /\ RemovesFollowed => RemovesFollowed'
           /\ /\ imCalls' = imCalls \/ ~IsRefresh(imCalls[1])
              /\ \E i \in DOMAIN imCalls : IsRefresh(imCalls[i])
              => \E i \in DOMAIN imCalls' : IsRefresh(imCalls'[i])
           /\ /\ Shorter(imCalls, imCalls') /\ imCalls[1].op = "remove" /\ RemovesFollowed
              => \E i \in DOMAIN imCalls' : IsRefresh(imCalls'[i])
  <1>0. Shorter(imCalls, imCalls') /\ imCalls[1].op = "remove" /\ RemovesFollowed
        => \E i \in DOMAIN imCalls' : IsRefresh(imCalls'[i])
    <2> SUFFICES ASSUME Shorter(imCalls, imCalls'), imCalls[1].op = "remove", RemovesFollowed
                 PROVE  \E i \in DOMAIN imCalls' : IsRefresh(imCalls'[i])
      OBVIOUS
    <2>1. 1 \in DOMAIN imCalls
      BY DEF Shorter
    <2>2. PICK l \in DOMAIN imCalls : l > 1 /\ IsRefresh(imCalls[l])
      BY <2>1 DEF RemovesFollowed
    <2> QED
      BY <2>2 DEF Shorter
  <1>1. CASE imCalls' = imCalls
    BY <1>0, <1>1 DEF RemovesFollowed
  <1>2. CASE Shorter(imCalls, imCalls')
    <2>1. ASSUME RemovesFollowed, NEW k \in DOMAIN imCalls', imCalls'[k].op = "remove"
          PROVE  \E l \in DOMAIN imCalls' : l > k /\ IsRefresh(imCalls'[l])
      <3>1. k \in Nat /\ k > 0 /\ k + 1 \in DOMAIN imCalls /\ imCalls'[k] = imCalls[k + 1]
        BY <1>2 DEF Shorter
      <3>2. PICK l \in DOMAIN imCalls : l > k + 1 /\ IsRefresh(imCalls[l])
        BY <2>1, <3>1 DEF RemovesFollowed
      <3>3. l \in Nat /\ l # 1 /\ l - 1 > k
        BY <1>2, <3>1, <3>2 DEF Shorter
      <3>4. l - 1 \in DOMAIN imCalls' /\ imCalls'[l - 1] = imCalls[l]
        BY <1>2, <3>3 DEF Shorter
      <3> QED
        BY <3>2, <3>3, <3>4
    <2>2. ASSUME NEW i \in DOMAIN imCalls, i # 1, IsRefresh(imCalls[i])
          PROVE  \E l \in DOMAIN imCalls' : IsRefresh(imCalls'[l])
      BY <1>2, <2>2 DEF Shorter
    <2>4. RemovesFollowed => RemovesFollowed'
      BY <2>1 DEF RemovesFollowed
    <2>5. (\E i \in DOMAIN imCalls : IsRefresh(imCalls[i])) /\ ~IsRefresh(imCalls[1])
          => \E i \in DOMAIN imCalls' : IsRefresh(imCalls'[i])
      BY <2>2
    <2> QED
      BY <1>0, <2>4, <2>5
  <1> QED
    BY <1>1, <1>2 DEF FewerCalls

\* Another event, other than an answer for the list, changes nothing but that
\* it may tell of a new message.
LEMMA ListNamedTold ==
    ASSUME ListNamed, NEW e, Told(e), e.kind # "chats", chatList' = chatList,
           PeersStored \subseteq PeersStored',
           \A p \in PeersStored' : p \in PeersStored \/ (e.kind = "message" /\ e.of.peer = p)
    PROVE  ListNamed'
  <1>1. /\ \A i \in DOMAIN imEvents : i \in DOMAIN imEvents' /\ imEvents'[i] = imEvents[i]
        /\ DOMAIN imEvents' \subseteq Nat
        /\ \A i \in DOMAIN imEvents' : i \in DOMAIN imEvents \/
               (imEvents'[i] = e /\ \A j \in DOMAIN imEvents : j < i)
        /\ \E i \in DOMAIN imEvents' : i \notin DOMAIN imEvents /\ imEvents'[i] = e
    BY DEF Told, Longer
  <1>2. PICK l \in DOMAIN imEvents' : l \notin DOMAIN imEvents /\ imEvents'[l] = e
    BY <1>1
  <1>3. l \in Nat /\ \A j \in DOMAIN imEvents : j < l
    BY <1>1, <1>2
  <1>5. ASSUME NEW n \in DOMAIN imEvents', IsLastAnswer(n)'
        PROVE  Names(imEvents[n].of, n)'
    <2>1. n \in DOMAIN imEvents /\ imEvents'[n] = imEvents[n]
      BY <1>1, <1>5 DEF IsLastAnswer
    <2>2. IsLastAnswer(n)
      BY <1>1, <1>5, <2>1 DEF IsLastAnswer
    <2>3. Names(imEvents[n].of, n)
      BY <2>1, <2>2 DEF ListNamed
    <2> DEFINE list == imEvents[n].of
    <2> HIDE DEF list
    <2>5. Names(list, n)
      BY <2>3 DEF list
    <2>6. PeersOf(list) \subseteq PeersStored'
      BY <2>5 DEF Names
    <2>7. \A p \in PeersStored' : p \in PeersOf(list) \/ ToldAfter(n, p)'
      <3>1. \A p \in PeersStored : p \in PeersOf(list) \/ ToldAfter(n, p)
        BY <2>5 DEF Names
      <3>2. \A p : ToldAfter(n, p) => ToldAfter(n, p)'
        BY <1>1 DEF ToldAfter
      <3>3. \A p : e.kind = "message" /\ e.of.peer = p => ToldAfter(n, p)'
        BY <1>2, <1>3, <2>1 DEF ToldAfter
      <3> QED
        BY <3>1, <3>2, <3>3
    <2>8. imEvents'[n].of = list
      BY <2>1 DEF list
    <2> QED
      BY <2>6, <2>7, <2>8 DEF Names, PeersOf
  <1>6. ASSUME \A n \in DOMAIN imEvents' : imEvents'[n].kind # "chats"
        PROVE  Names(chatList, 0)'
    <2>1. Names(chatList, 0)
      BY <1>1, <1>6 DEF ListNamed
    <2>2. PeersOf(chatList) \subseteq PeersStored'
      BY <2>1 DEF Names
    <2>3. l > 0
      <3>1. imEvents' \in Seq(Event)
        BY DEF Told
      <3> QED
        BY <1>2, <3>1, SeqFacts
    <2>4. \A p \in PeersStored' : p \in PeersOf(chatList) \/ ToldAfter(0, p)'
      <3>1. \A p \in PeersStored : p \in PeersOf(chatList) \/ ToldAfter(0, p)
        BY <2>1 DEF Names
      <3>2. \A p : ToldAfter(0, p) => ToldAfter(0, p)'
        BY <1>1 DEF ToldAfter
      <3>3. \A p : e.kind = "message" /\ e.of.peer = p => ToldAfter(0, p)'
        BY <1>2, <2>3 DEF ToldAfter
      <3> QED
        BY <3>1, <3>2, <3>3
    <2>5. PeersOf(chatList)' = PeersOf(chatList)
      BY DEF PeersOf
    <2> QED
      BY <2>2, <2>4, <2>5 DEF Names
  <1> QED
    BY <1>5, <1>6 DEF ListNamed

LEMMA ListInvStored ==
    ASSUME StoreInv, ListInv, NEW m, StoreShape(m), FewerCalls, PagesKept,
           imCalls' = imCalls \/ ~IsRefresh(imCalls[1])
    PROVE  ListInv'
  <1>1. PICK e \in Event : e.kind = "message" /\ e.of = m /\ Told(e)
    BY DEF StoreShape
  <1>2. /\ inbox' = inbox \cup {m} /\ listBlocked' = listBlocked /\ chatList' = chatList
    BY DEF StoreShape, PagesKept
  <1>3. ~listBlocked' => RemovesFollowed'
    BY <1>2, RefreshKept, ListInvParts
  <1>4. Due => Due'
    BY <1>1, RefreshKept DEF Due, Told, Longer
  <1>5. ASSUME ~listBlocked', ~Due' PROVE ListNamed'
    <2>1. ListNamed
      BY <1>2, <1>4, <1>5, ListInvParts
    <2>2. PeersStored' = PeersStored \cup {m.peer}
      BY <1>2 DEF PeersStored
    <2> QED
      BY <1>1, <1>2, <2>1, <2>2, ListNamedTold
  <1>6. ListInv' <=> /\ ~listBlocked' => RemovesFollowed'
                     /\ ~listBlocked' /\ ~Due' => ListNamed'
    BY DEF ListInv, RemovesFollowed, ListNamed
  <1> QED
    BY <1>3, <1>5, <1>6

LEMMA ListInvRun ==
    ASSUME StoreInv, ListInv, NEW c, RunShape(c)
    PROVE  ListInv'
  <1>1. /\ FewerCalls /\ PagesKept /\ c \in Call /\ c = imCalls[1] /\ 1 \in DOMAIN imCalls
        /\ Shorter(imCalls, imCalls') /\ chatList' = chatList /\ listBlocked' = listBlocked
    BY DEF RunShape, FewerCalls, Shorter, PagesKept
  <1>2. CASE c.op = "send"
    <2>1. ~IsRefresh(imCalls[1])
      BY <1>1, <1>2 DEF IsRefresh
    <2> QED
      BY <1>1, <1>2, <2>1, ListInvStored DEF RunShape
  <1>3. ~listBlocked' => RemovesFollowed'
    BY <1>1, RefreshKept, ListInvParts
  <1>4. ListInv' <=> /\ ~listBlocked' => RemovesFollowed'
                     /\ ~listBlocked' /\ ~Due' => ListNamed'
    BY DEF ListInv, RemovesFollowed, ListNamed
  <1>5. CASE c.op \in {"ownAddresses", "contacts"}
    <2>1. PICK e \in Event : e.kind = c.op /\ Told(e)
      BY <1>5 DEF RunShape
    <2>2. Due'
      BY <1>5, <2>1 DEF Due, Announces, Told, Longer
    <2> QED
      BY <1>3, <1>4, <2>2
  <1>6. CASE c.op = "remove"
    <2>1. ~listBlocked' => Due'
      BY <1>1, <1>6, RefreshKept, ListInvParts DEF Due
    <2> QED
      BY <1>3, <1>4, <2>1
  <1>7. CASE c.op \in {"messages", "read"}
    <2>1. inbox' = inbox
      BY <1>7 DEF RunShape, StoreKept
    <2>2. PeersStored' = PeersStored
      BY <2>1 DEF PeersStored
    <2>3. ~IsRefresh(imCalls[1])
      BY <1>1, <1>7 DEF IsRefresh
    <2>4. \/ imEvents' = imEvents
          \/ \E e : Told(e) /\ e.kind # "chats"
      BY <1>7 DEF RunShape
    <2>5. \A i \in DOMAIN imEvents : i \in DOMAIN imEvents' /\ imEvents'[i] = imEvents[i]
      BY <2>4 DEF Told, Longer
    <2>6. Due => Due'
      BY <1>1, <2>3, <2>5, RefreshKept DEF Due
    <2>7. ASSUME ~listBlocked', ~Due' PROVE ListNamed'
      <3>1. ListNamed
        BY <1>1, <2>6, <2>7, ListInvParts
      <3>2. CASE imEvents' = imEvents
        BY <1>1, <2>2, <3>1, <3>2 DEF ListNamed, IsLastAnswer, Names, ToldAfter, PeersOf
      <3>3. ASSUME NEW e, Told(e), e.kind # "chats" PROVE ListNamed'
        BY <1>1, <2>2, <3>1, <3>3, ListNamedTold
      <3> QED
        BY <2>4, <3>2, <3>3
    <2> QED
      BY <1>3, <1>4, <2>7
  <1>8. CASE c.op = "chats"
    <2>1. PICK e \in Event : e.kind = "chats" /\ Told(e) /\ PeersOf(e.of) = PeersStored
      BY <1>8 DEF RunShape
    <2>2. PeersStored' = PeersStored
      BY <1>8 DEF RunShape, StoreKept, PeersStored
    <2>3. PICK l \in DOMAIN imEvents' : l \notin DOMAIN imEvents /\ imEvents'[l] = e
      BY <2>1 DEF Told, Longer
    <2>4. ASSUME NEW n \in DOMAIN imEvents', IsLastAnswer(n)'
          PROVE  Names(imEvents[n].of, n)'
      <3>1. n \notin DOMAIN imEvents
        <4> SUFFICES ASSUME n \in DOMAIN imEvents PROVE FALSE
          OBVIOUS
        <4>1. l > n
          BY <2>1, <2>3 DEF Told, Longer
        <4> QED
          BY <2>1, <2>3, <2>4, <4>1 DEF IsLastAnswer
      <3>2. imEvents'[n] = e
        BY <2>1, <2>3, <3>1 DEF Told
      <3> DEFINE list == e.of
      <3>3. PeersOf(list) = PeersStored'
        BY <2>1, <2>2
      <3>4. imEvents'[n].of = list
        BY <3>2
      <3> QED
        BY <3>3, <3>4 DEF Names, PeersOf
    <2>5. ListNamed'
      BY <2>1, <2>3, <2>4 DEF ListNamed
    <2> QED
      BY <1>3, <1>4, <2>5
  <1>9. c.op \in {"ownAddresses", "contacts", "chats", "messages", "remove", "send", "read"}
    BY <1>1, CallFacts
  <1> QED
    BY <1>2, <1>5, <1>6, <1>7, <1>8, <1>9

\* Where the head is taken off, the last answer for the list is the last one
\* still.
LEMMA LastAnswerTaken ==
    ASSUME ListNamed, NEW e, DeliverShape(e), NEW n \in DOMAIN imEvents', IsLastAnswer(n)'
    PROVE  Names(imEvents[n].of, n)'
  <1>1. /\ e = imEvents[1] /\ 1 \in DOMAIN imEvents /\ inbox' = inbox
        /\ DOMAIN imEvents \subseteq Nat /\ DOMAIN imEvents' \subseteq Nat
        /\ \A i \in DOMAIN imEvents' : i > 0 /\ i + 1 \in DOMAIN imEvents
                                       /\ imEvents'[i] = imEvents[i + 1]
        /\ \A i \in DOMAIN imEvents : i # 1 => /\ i > 1 /\ i - 1 \in DOMAIN imEvents'
                                               /\ imEvents'[i - 1] = imEvents[i]
    BY DEF DeliverShape, Shorter, StoreKept
  <1>2. PeersStored' = PeersStored
    BY <1>1 DEF PeersStored
  <1>3. n \in Nat /\ n + 1 \in DOMAIN imEvents /\ imEvents'[n] = imEvents[n + 1]
    BY <1>1
  <1>4. IsLastAnswer(n + 1)
    <2>1. imEvents[n + 1].kind = "chats"
      BY <1>3 DEF IsLastAnswer
    <2>2. ASSUME NEW j \in DOMAIN imEvents, j > n + 1 PROVE imEvents[j].kind # "chats"
      <3>1. j \in Nat /\ j # 1 /\ j - 1 > n
        BY <1>1, <1>3, <2>2
      <3>2. j - 1 \in DOMAIN imEvents' /\ imEvents'[j - 1] = imEvents[j]
        BY <1>1, <3>1
      <3> QED
        BY <3>1, <3>2 DEF IsLastAnswer
    <2> QED
      BY <2>1, <2>2 DEF IsLastAnswer
  <1> DEFINE list == imEvents[n + 1].of
  <1>5. Names(list, n + 1)
    BY <1>3, <1>4 DEF ListNamed
  <1>6. imEvents'[n].of = list
    BY <1>3
  <1> HIDE DEF list
  <1>7. \A p : ToldAfter(n + 1, p) => ToldAfter(n, p)'
    <2> SUFFICES ASSUME NEW p, NEW i \in DOMAIN imEvents, i > n + 1,
                        imEvents[i].kind = "message" /\ imEvents[i].of.peer = p
                 PROVE  \E k \in DOMAIN imEvents' :
                            k > n /\ imEvents'[k].kind = "message" /\ imEvents'[k].of.peer = p
      BY DEF ToldAfter
    <2>1. i \in Nat /\ i # 1 /\ i - 1 > n
      BY <1>1, <1>3
    <2>2. i - 1 \in DOMAIN imEvents' /\ imEvents'[i - 1] = imEvents[i]
      BY <1>1, <2>1
    <2> QED
      BY <2>1, <2>2
  <1> QED
    BY <1>2, <1>5, <1>6, <1>7 DEF Names, PeersOf

\* An event other than an answer for the list is taken off: a message in it is
\* of a peer the list has.
LEMMA ListNamedTaken ==
    ASSUME StoreInv, ListNamed, NEW e, DeliverShape(e), e.kind # "chats", chatList' = chatList,
           e.kind = "message" => e.of.peer \in PeersOf(chatList)
    PROVE  ListNamed'
  <1>1. /\ e = imEvents[1] /\ 1 \in DOMAIN imEvents /\ inbox' = inbox
        /\ DOMAIN imEvents \subseteq Nat /\ DOMAIN imEvents' \subseteq Nat
        /\ \A i \in DOMAIN imEvents' : i > 0 /\ i + 1 \in DOMAIN imEvents
                                       /\ imEvents'[i] = imEvents[i + 1]
        /\ \A i \in DOMAIN imEvents : i # 1 => /\ i > 1 /\ i - 1 \in DOMAIN imEvents'
                                               /\ imEvents'[i - 1] = imEvents[i]
    BY DEF DeliverShape, Shorter, StoreKept
  <1>2. PeersStored' = PeersStored
    BY <1>1 DEF PeersStored
  <1>3. ASSUME NEW n \in DOMAIN imEvents', IsLastAnswer(n)'
        PROVE  Names(imEvents[n].of, n)'
    BY <1>3, LastAnswerTaken
  <1>4. ASSUME \A n \in DOMAIN imEvents' : imEvents'[n].kind # "chats"
        PROVE  Names(chatList, 0)'
    <2>1. \A n \in DOMAIN imEvents : imEvents[n].kind # "chats"
      BY <1>1, <1>4
    <2>2. Names(chatList, 0)
      BY <2>1 DEF ListNamed
    <2>3. \A p : ToldAfter(0, p) => ToldAfter(0, p)' \/ p \in PeersOf(chatList)
      <3> SUFFICES ASSUME NEW p, NEW i \in DOMAIN imEvents,
                          imEvents[i].kind = "message" /\ imEvents[i].of.peer = p,
                          p \notin PeersOf(chatList)
                   PROVE  \E k \in DOMAIN imEvents' :
                              k > 0 /\ imEvents'[k].kind = "message" /\ imEvents'[k].of.peer = p
        BY DEF ToldAfter
      <3>1. i # 1
        BY <1>1
      <3>2. i - 1 \in DOMAIN imEvents' /\ imEvents'[i - 1] = imEvents[i] /\ i - 1 > 0
        BY <1>1, <3>1
      <3> QED
        BY <3>2
    <2>4. PeersOf(chatList)' = PeersOf(chatList)
      BY DEF PeersOf
    <2> QED
      BY <1>2, <2>2, <2>3, <2>4 DEF Names
  <1> QED
    BY <1>3, <1>4 DEF ListNamed

LEMMA ListInvDeliver ==
    ASSUME StoreInv, ListInv, NEW e, DeliverShape(e)
    PROVE  ListInv'
  <1>1. /\ e = imEvents[1] /\ 1 \in DOMAIN imEvents /\ inbox' = inbox
        /\ DOMAIN imEvents \subseteq Nat /\ DOMAIN imEvents' \subseteq Nat
        /\ \A i \in DOMAIN imEvents' : i > 0 /\ i + 1 \in DOMAIN imEvents
                                       /\ imEvents'[i] = imEvents[i + 1]
        /\ \A i \in DOMAIN imEvents : i # 1 => /\ i > 1 /\ i - 1 \in DOMAIN imEvents'
                                               /\ imEvents'[i - 1] = imEvents[i]
    BY DEF DeliverShape, Shorter, StoreKept
  <1>2. ListInv' <=> /\ ~listBlocked' => RemovesFollowed'
                     /\ ~listBlocked' /\ ~Due' => ListNamed'
    BY DEF ListInv, RemovesFollowed, ListNamed
  <1>3. ASSUME NEW X, Asked(X), NEW x \in X, IsRefresh(x)
        PROVE  ListInv'
    <2>1. Due' /\ RemovesFollowed'
      BY <1>3, DueAfter DEF Asked
    <2> QED
      BY <1>2, <2>1
  <1>4. RemovesFollowed => RemovesFollowed'
    <2>1. /\ \A k \in DOMAIN imCalls : k \in DOMAIN imCalls' /\ imCalls'[k] = imCalls[k]
          /\ \A k \in DOMAIN imCalls' : imCalls'[k].op = "messages" \/ imCalls'[k].op = "remove"
                 => k \in DOMAIN imCalls /\ imCalls'[k] = imCalls[k]
      BY RequestsKept
    <2> QED
      BY <2>1 DEF RemovesFollowed
  <1>5. ~Announces(e) => (Due => Due')
    <2>1. \A k \in DOMAIN imCalls : k \in DOMAIN imCalls' /\ imCalls'[k] = imCalls[k]
      BY RequestsKept
    <2> QED
      BY <1>1, <2>1 DEF Due
  <1>6. ASSUME listBlocked' = listBlocked, chatList' = chatList, e.kind # "chats", ~Announces(e),
               ~listBlocked /\ e.kind = "message" => e.of.peer \in PeersOf(chatList)
        PROVE  ListInv'
    <2>1. ASSUME ~listBlocked', ~Due' PROVE ListNamed'
      <3>1. ListNamed
        BY <1>5, <1>6, <2>1, ListInvParts
      <3> QED
        BY <1>6, <2>1, <3>1, ListNamedTaken
    <2> QED
      BY <1>2, <1>4, <1>6, <2>1, ListInvParts
  <1>7. CASE AddressesShape(e)
    <2>1. PICK X : Asked(X) /\ (~listBlocked => \E x \in X : IsRefresh(x))
      BY <1>7 DEF AddressesShape
    <2>2. listBlocked' = listBlocked
      BY <1>7 DEF AddressesShape, ListKept
    <2>3. CASE listBlocked
      BY <1>2, <2>2, <2>3
    <2>4. CASE ~listBlocked
      BY <1>3, <2>1, <2>4
    <2> QED
      BY <2>3, <2>4
  <1>8. CASE MessageShape(e)
    <2>1. PICK X : Asked(X) /\ (~listBlocked /\ e.of.peer \notin PeersOf(chatList)
                                => \E x \in X : IsRefresh(x))
      BY <1>8 DEF MessageShape
    <2>2. /\ listBlocked' = listBlocked /\ chatList' = chatList /\ e.kind = "message"
          /\ ~Announces(e)
      BY <1>8 DEF MessageShape, ListKept, Announces
    <2>3. CASE ~listBlocked /\ e.of.peer \notin PeersOf(chatList)
      BY <1>3, <2>1, <2>3
    <2>4. CASE ~(~listBlocked /\ e.of.peer \notin PeersOf(chatList))
      BY <1>6, <2>2, <2>4
    <2> QED
      BY <2>3, <2>4
  <1>9. CASE MessagesShape(e)
    <2>1. /\ listBlocked' = listBlocked /\ chatList' = chatList /\ e.kind = "messages"
          /\ ~Announces(e)
      BY <1>9 DEF MessagesShape, ListKept, Announces
    <2> QED
      BY <1>6, <2>1
  <1>10. CASE RemovedShape(e)
    <2>1. chatList' = chatList /\ e.kind = "removed" /\ ~Announces(e)
      BY <1>10 DEF RemovedShape, Announces
    <2>2. CASE chat.open /\ chat.peer = e.peer
      <3>1. \E X : Asked(X) /\ \E x \in X : IsRefresh(x)
        BY <1>10, <2>2 DEF RemovedShape
      <3> QED
        BY <1>3, <3>1
    <2>3. CASE ~(chat.open /\ chat.peer = e.peer)
      <3>1. listBlocked' = listBlocked
        BY <1>10, <2>3 DEF RemovedShape
      <3> QED
        BY <1>6, <2>1, <3>1
    <2> QED
      BY <2>2, <2>3
  <1>11. CASE ListShape(e)
    <2>1. /\ e.kind = "chats" /\ listBlocked' = listBlocked /\ imCalls' = imCalls
          /\ chatList' = IF listBlocked THEN chatList ELSE e.of
          /\ ~Announces(e)
      BY <1>11 DEF ListShape, Announces
    <2>2. CASE listBlocked
      BY <1>2, <2>1, <2>2
    <2>3. CASE ~listBlocked
      <3>1. CASE IsLastAnswer(1)
        <4>1. \A n \in DOMAIN imEvents' : imEvents'[n].kind # "chats"
          <5> TAKE n \in DOMAIN imEvents'
          <5>1. n + 1 \in DOMAIN imEvents /\ n + 1 > 1 /\ imEvents'[n] = imEvents[n + 1]
            BY <1>1
          <5> QED
            BY <3>1, <5>1 DEF IsLastAnswer
        <4>2. ~Due' => Names(e.of, 1)
          BY <1>1, <1>5, <2>1, <2>3, <3>1, ListInvParts DEF ListNamed
        <4>3. \A p : ToldAfter(1, p) => ToldAfter(0, p)'
          BY <1>1 DEF ToldAfter
        <4>4. PeersStored' = PeersStored /\ PeersOf(chatList)' = PeersOf(e.of)
          BY <1>1, <2>1, <2>3 DEF PeersStored, PeersOf
        <4>5. ~Due' => Names(chatList, 0)'
          BY <4>2, <4>3, <4>4 DEF Names
        <4>6. ~Due' => ListNamed'
          BY <4>1, <4>5 DEF ListNamed, IsLastAnswer
        <4> QED
          BY <1>2, <1>4, <2>1, <2>3, <4>6, ListInvParts
      <3>2. CASE ~IsLastAnswer(1)
        <4>1. PICK j \in DOMAIN imEvents : j > 1 /\ imEvents[j].kind = "chats"
          BY <1>1, <2>1, <3>2 DEF IsLastAnswer
        <4>2. j - 1 \in DOMAIN imEvents' /\ imEvents'[j - 1].kind = "chats"
          BY <1>1, <4>1
        <4>3. ASSUME ~Due', NEW n \in DOMAIN imEvents', IsLastAnswer(n)'
              PROVE  Names(imEvents[n].of, n)'
          <5>1. ListNamed
            BY <1>5, <2>1, <2>3, <4>3, ListInvParts
          <5> QED
            BY <4>3, <5>1, LastAnswerTaken
        <4>4. ~Due' => ListNamed'
          BY <4>2, <4>3 DEF ListNamed
        <4> QED
          BY <1>2, <1>4, <2>1, <2>3, <4>4, ListInvParts
      <3> QED
        BY <3>1, <3>2
    <2> QED
      BY <2>2, <2>3
  <1> QED
    BY <1>7, <1>8, <1>9, <1>10, <1>11 DEF DeliverShape

-----------------------------------------------------------------------------
(* The own address.                                                        *)

NothingUnderWay == (\A i : ~Asks(i)) /\ (\A i : ~Answers(i))

LEMMA UnderWayOf == ~MessagesUnderWay <=> NothingUnderWay
  BY DEF MessagesUnderWay, NothingUnderWay, Asks, Answers

LEMMA OwnInvInit == MessengerInit => OwnInv
  BY DEF MessengerInit, OwnInv, NoChat

\* A page that opens, or is given a peer, asks once.
LEMMA OneRequest ==
    ASSUME NEW s \in Seq(Call), NEW b \in Call
    PROVE  /\ \A i \in DOMAIN Append(s, b) : i \in DOMAIN s \/ i = Len(s) + 1
           /\ \A i \in DOMAIN s : Append(s, b)[i] = s[i]
           /\ Append(s, b)[Len(s) + 1] = b
           /\ DOMAIN s = 1..Len(s) /\ Len(s) \in Nat /\ Len(Append(s, b)) = Len(s) + 1
  BY AppendPlaces, SeqFacts

\* With nothing under way before, what is asked is what is new.
LEMMA OwnInvAsked ==
    ASSUME StoreInv, NothingUnderWay, imEvents' = imEvents, chat'.own = chat'.chosen,
           NEW peer \in Peers, chat'.peer = peer,
           NEW s \in Seq(Call), \A i \in DOMAIN s : s[i].op # "messages",
           imCalls' = Append(s, [op |-> "messages", peer |-> peer])
    PROVE  OwnInv'
  <1> DEFINE b == [op |-> "messages", peer |-> peer]
  <1>1. b \in Call /\ b.peer = peer
    BY CallsMade
  <1> HIDE DEF b
  <1>2. imCalls' = Append(s, b)
    BY DEF b
  <1>3. \A i : Asks(i)' => i = Len(s) + 1 /\ imCalls'[i] = b
    BY <1>1, <1>2, OneRequest DEF Asks
  <1>4. \A i : ~Answers(i)'
    BY DEF NothingUnderWay, Answers
  <1>5. peer # NoId
    BY MessengerAssumption
  <1> QED
    BY <1>1, <1>3, <1>4, <1>5 DEF OwnInv

LEMMA OwnInvUser ==
    ASSUME StoreInv, OwnInv, MessengerUser
    PROVE  OwnInv'
  <1>1. imCalls \in Seq(Call) /\ imEvents \in Seq(Event) /\ chat \in Chat
    BY DEF StoreInv, Types
  <1>2. ASSUME chat' = NoChat PROVE OwnInv'
    BY <1>2, NoChatOf DEF OwnInv
  <1>3. ASSUME NEW peer \in Peers, OpenChat(peer) PROVE OwnInv'
    <2> DEFINE a == [op |-> "ownAddresses"]
               b == [op |-> "messages", peer |-> peer]
    <2>1. a \in Call /\ b \in Call /\ a.op = "ownAddresses"
      BY CallsMade
    <2>2. /\ imCalls' = imCalls \o <<a, b>> /\ imEvents' = imEvents
          /\ chat' = [NoChat EXCEPT !.open = TRUE, !.peer = peer, !.calm = ~MessagesUnderWay]
      BY <1>3 DEF OpenChat, wallet
    <2>3. chat'.own = chat'.chosen /\ chat'.peer = peer /\ chat'.calm = ~MessagesUnderWay
      BY <2>2 DEF NoChat
    <2>4. CASE MessagesUnderWay
      BY <2>3, <2>4 DEF OwnInv
    <2>5. CASE ~MessagesUnderWay
      <3>1. NothingUnderWay
        BY <2>5, UnderWayOf
      <3> DEFINE s == Append(imCalls, a)
      <3>2. s \in Seq(Call) /\ \A i \in DOMAIN s : s[i].op # "messages"
        <4>1. s \in Seq(Call)
          BY <1>1, <2>1, AppendLonger
        <4>2. \A i \in DOMAIN imCalls : imCalls[i].op # "messages"
          BY <3>1 DEF NothingUnderWay, Asks
        <4> HIDE DEF a
        <4>3. \A i \in DOMAIN s : s[i].op # "messages"
          BY <1>1, <2>1, <4>2, OneRequest
        <4> QED
          BY <4>1, <4>3
      <3>3. imCalls' = Append(s, b)
        BY <1>1, <2>1, <2>2, AskedTwice
      <3> HIDE DEF s
      <3> QED
        BY <2>2, <2>3, <3>1, <3>2, <3>3, OwnInvAsked
    <2> QED
      BY <2>4, <2>5
  <1>4. ASSUME NewChat PROVE OwnInv'
    <2> DEFINE a == [op |-> "ownAddresses"]
    <2>1. a \in Call /\ a.op = "ownAddresses"
      BY CallsMade
    <2>2. /\ imCalls' = Append(imCalls, a) /\ imEvents' = imEvents
          /\ chat' = [NoChat EXCEPT !.open = TRUE, !.calm = ~MessagesUnderWay]
      BY <1>4 DEF NewChat, wallet
    <2> HIDE DEF a
    <2>3. /\ chat'.own = NoId /\ chat'.chosen = NoId /\ chat'.peer = NoId
          /\ chat'.calm = ~MessagesUnderWay
      BY <2>2 DEF NoChat
    <2>4. CASE MessagesUnderWay
      BY <2>3, <2>4 DEF OwnInv
    <2>5. CASE ~MessagesUnderWay
      <3>1. NothingUnderWay
        BY <2>5, UnderWayOf
      <3>2. NothingUnderWay'
        <4>1. \A i : ~Asks(i)'
          BY <1>1, <2>1, <2>2, <3>1, OneRequest DEF NothingUnderWay, Asks
        <4>2. \A i : ~Answers(i)'
          BY <2>2, <3>1 DEF NothingUnderWay, Answers
        <4> QED
          BY <4>1, <4>2 DEF NothingUnderWay
      <3>3. ~MessagesUnderWay'
        BY <3>2 DEF MessagesUnderWay, NothingUnderWay, Asks, Answers
      <3> QED
        BY <2>3, <3>2, <3>3 DEF OwnInv, NothingUnderWay
    <2> QED
      BY <2>4, <2>5
  <1>5. ASSUME NEW peer \in Peers, NEW own \in OwnIds, ChoosePeer(peer, own) PROVE OwnInv'
    <2>1. /\ imCalls' = Append(imCalls, [op |-> "messages", peer |-> peer])
          /\ imEvents' = imEvents /\ chat.peer = NoId
          /\ chat' = [chat EXCEPT !.peer = peer, !.own = own, !.chosen = own]
      BY <1>5 DEF ChoosePeer, wallet
    <2>2. /\ chat'.peer = peer /\ chat'.own = chat'.chosen /\ chat'.calm = chat.calm
          /\ chat'.renamed = chat.renamed
      BY <1>1, <2>1 DEF Chat
    <2>3. CASE chat.calm /\ ~chat.renamed
      <3>1. NothingUnderWay
        BY <2>1, <2>3, UnderWayOf DEF OwnInv
      <3>2. \A i \in DOMAIN imCalls : imCalls[i].op # "messages"
        BY <3>1 DEF NothingUnderWay, Asks
      <3> QED
        BY <1>1, <2>1, <2>2, <3>1, <3>2, OwnInvAsked
    <2>4. CASE ~(chat.calm /\ ~chat.renamed)
      BY <2>2, <2>4 DEF OwnInv
    <2> QED
      BY <2>3, <2>4
  <1>6. ASSUME RenameContact PROVE OwnInv'
    <2>1. chat'.renamed
      BY <1>1, <1>6 DEF RenameContact, Chat
    <2> QED
      BY <2>1 DEF OwnInv
  <1>7. ASSUME NEW c \in Call, c.op # "messages", imCalls' = Append(imCalls, c),
               UNCHANGED <<wallet, pages>>
        PROVE  OwnInv'
    <2>1. chat' = chat /\ chatRows' = chatRows /\ imEvents' = imEvents
      BY <1>7 DEF wallet, pages
    <2>2. \A i : Asks(i)' <=> Asks(i)
      BY <1>1, <1>7, OneRequest DEF Asks
    <2>3. \A i : Answers(i)' <=> Answers(i)
      BY <2>1 DEF Answers
    <2>4. \A i : Asks(i) => imCalls'[i] = imCalls[i]
      BY <1>1, <1>7, OneRequest DEF Asks
    <2>5. MessagesUnderWay' <=> MessagesUnderWay
      BY <2>2, <2>3 DEF MessagesUnderWay, Asks, Answers
    <2> QED
      BY <2>1, <2>2, <2>3, <2>4, <2>5 DEF OwnInv
  <1>8. ASSUME SendMessage PROVE OwnInv'
    <2>1. chat.peer \in Peers /\ chat.own \in OwnIds
      BY <1>1, <1>8 DEF SendMessage, Chat
    <2>2. [op |-> "send", peer |-> chat.peer, own |-> chat.own] \in Call
      BY <2>1, CallsMade
    <2> QED
      BY <1>7, <1>8, <2>2 DEF SendMessage
  <1>9. ASSUME RemoveChat PROVE OwnInv'
    <2>1. chat.peer \in Peers
      BY <1>1, <1>9 DEF RemoveChat, Chat
    <2>2. [op |-> "remove", peer |-> chat.peer] \in Call
      BY <2>1, CallsMade
    <2> QED
      BY <1>7, <1>9, <2>2 DEF RemoveChat
  <1>10. CancelChoice \/ LeaveByPath \/ EnterMessenger => chat' = NoChat
    BY DEF CancelChoice, LeaveByPath, EnterMessenger, PageClosed
  <1> QED
    BY <1>2, <1>3, <1>4, <1>5, <1>6, <1>8, <1>9, <1>10 DEF MessengerUser

\* No request is new, and no answer: what is left of them are those of before,
\* each at a place of its own.
FewerAsks(place) ==
    /\ \A i : Asks(i)' => Asks(place[i]) /\ imCalls'[i] = imCalls[place[i]]
    /\ \A i, j : Asks(i)' /\ Asks(j)' /\ place[i] = place[j] => i = j

FewerAnswers(place) ==
    /\ \A i : Answers(i)' => Answers(place[i]) /\ imEvents'[i] = imEvents[place[i]]
    /\ \A i, j : Answers(i)' /\ Answers(j)' /\ place[i] = place[j] => i = j

LEMMA OwnInvFewer ==
    ASSUME OwnInv, NEW p, NEW q, FewerAsks(p), FewerAnswers(q),
           chat'.calm = chat.calm, chat'.renamed = chat.renamed, chat'.peer = chat.peer,
           chat'.own = chat.own, chat'.chosen = chat.chosen,
           chat.own # NoId /\ chat.own # chat.chosen =>
               \A m \in ToSet(chatRows) :
                   m.own = chat.own => \E n \in ToSet(chatRows') : n.own = chat.own
    PROVE  OwnInv'
  <1> SUFFICES ASSUME chat.calm /\ ~chat.renamed
               PROVE  OwnInv'
    BY DEF OwnInv
  <1>1. ~MessagesUnderWay => ~MessagesUnderWay'
    <2>1. NothingUnderWay => NothingUnderWay'
      BY DEF NothingUnderWay, FewerAsks, FewerAnswers
    <2>2. NothingUnderWay' => ~MessagesUnderWay'
      BY DEF NothingUnderWay, MessagesUnderWay, Asks, Answers
    <2> QED
      BY <2>1, <2>2, UnderWayOf
  <1>2. \A i : Asks(i)' => imCalls'[i].peer = chat.peer
    BY DEF OwnInv, FewerAsks
  <1>3. \A i : Answers(i)' => \A m \in ToSet(imEvents'[i].of) : m.peer = chat.peer
    BY DEF OwnInv, FewerAnswers
  <1>4. \A i, j : Asks(i)' /\ Asks(j)' => i = j
    BY DEF OwnInv, FewerAsks
  <1>5. \A i, j : Answers(i)' /\ Answers(j)' => i = j
    BY DEF OwnInv, FewerAnswers
  <1>6. \A i, j : ~(Asks(i)' /\ Answers(j)')
    BY DEF OwnInv, FewerAsks, FewerAnswers
  <1> QED
    BY <1>1, <1>2, <1>3, <1>4, <1>5, <1>6 DEF OwnInv

Same(s) == [i \in DOMAIN s |-> i]
Next1(s) == [i \in DOMAIN s |-> i + 1]

LEMMA AsksTaken ==
    ASSUME FewerCalls
    PROVE  FewerAsks(Same(imCalls')) \/ FewerAsks(Next1(imCalls'))
  <1>1. CASE imCalls' = imCalls
    BY <1>1 DEF FewerAsks, Same, Asks
  <1>2. CASE Shorter(imCalls, imCalls')
    <2>1. \A i \in DOMAIN imCalls' : /\ i \in Nat /\ i + 1 \in DOMAIN imCalls
                                     /\ imCalls'[i] = imCalls[i + 1] /\ Next1(imCalls')[i] = i + 1
      BY <1>2 DEF Shorter, Next1
    <2> QED
      BY <2>1 DEF FewerAsks, Asks
  <1> QED
    BY <1>1, <1>2 DEF FewerCalls

LEMMA AnswersTold ==
    ASSUME imEvents' = imEvents \/ \E e : Told(e) /\ e.kind # "messages"
    PROVE  FewerAnswers(Same(imEvents'))
  BY DEF FewerAnswers, Same, Answers, Told, Longer

LEMMA OwnInvRun ==
    ASSUME StoreInv, OwnInv, NEW c, RunShape(c)
    PROVE  OwnInv'
  <1>1. /\ FewerCalls /\ PagesKept /\ c \in Call /\ c = imCalls[1] /\ 1 \in DOMAIN imCalls
        /\ Shorter(imCalls, imCalls')
    BY DEF RunShape, FewerCalls, Shorter
  <1>2. FewerAsks(Same(imCalls')) \/ FewerAsks(Next1(imCalls'))
    BY <1>1, AsksTaken
  <1>3. CASE c.op # "messages"
    <2>1. imEvents' = imEvents \/ \E e : Told(e) /\ e.kind # "messages"
      BY <1>3 DEF RunShape, StoreShape
    <2>2. FewerAnswers(Same(imEvents'))
      BY <2>1, AnswersTold
    <2>3. PagesKept
      BY <1>1
    <2> QED
      BY <1>2, <2>2, <2>3, OwnInvFewer DEF PagesKept
  <1>4. CASE c.op = "messages"
    <2>1. PICK e \in Event : /\ e.kind = "messages" /\ Told(e)
                             /\ ToSet(e.of) = Conversation(c.peer)
      BY <1>4 DEF RunShape
    <2> SUFFICES ASSUME chat.calm /\ ~chat.renamed
                 PROVE  OwnInv'
      BY <1>1 DEF OwnInv, PagesKept
    <2>2. Asks(1) /\ c.peer = chat.peer
      BY <1>1, <1>4 DEF OwnInv, Asks
    <2>3. \A i : ~Asks(i)'
      <3>1. \A i \in DOMAIN imCalls' : /\ i \in Nat /\ i > 0 /\ i + 1 \in DOMAIN imCalls
                                       /\ imCalls'[i] = imCalls[i + 1]
        BY <1>1 DEF Shorter
      <3>2. \A i : Asks(i)' => Asks(i + 1) /\ i + 1 # 1
        BY <3>1 DEF Asks
      <3> QED
        BY <2>2, <3>2 DEF OwnInv
    <2>4. \A i : ~Answers(i)
      BY <2>2 DEF OwnInv
    <2>5. \A i : Answers(i)' => i \notin DOMAIN imEvents /\ imEvents'[i] = e
      BY <2>1, <2>4 DEF Told, Longer, Answers
    <2>6. \A i, j : Answers(i)' /\ Answers(j)' => i = j
      BY <2>1, <2>5 DEF Told, Answers
    <2>7. \A m \in ToSet(e.of) : m.peer = chat.peer
      BY <2>1, <2>2 DEF Conversation
    <2>8. MessagesUnderWay
      BY <2>2 DEF MessagesUnderWay, Asks
    <2>9. chat' = chat /\ chatRows' = chatRows
      BY <1>1 DEF PagesKept
    <2> QED
      BY <2>3, <2>5, <2>6, <2>7, <2>8, <2>9 DEF OwnInv
  <1> QED
    BY <1>3, <1>4

LEMMA OwnInvStored ==
    ASSUME StoreInv, OwnInv, NEW m, StoreShape(m), FewerCalls, PagesKept
    PROVE  OwnInv'
  <1>1. \E e : Told(e) /\ e.kind # "messages"
    BY DEF StoreShape
  <1>2. FewerAnswers(Same(imEvents'))
    BY <1>1, AnswersTold
  <1>3. FewerAsks(Same(imCalls')) \/ FewerAsks(Next1(imCalls'))
    BY AsksTaken
  <1> QED
    BY <1>2, <1>3, OwnInvFewer DEF PagesKept

LEMMA OwnInvDeliver ==
    ASSUME StoreInv, RowsInv, OwnInv, NEW e, DeliverShape(e)
    PROVE  OwnInv'
  <1>1. /\ e = imEvents[1] /\ 1 \in DOMAIN imEvents
        /\ \A i \in DOMAIN imEvents' : i \in Nat /\ i > 0 /\ i + 1 \in DOMAIN imEvents
                                       /\ imEvents'[i] = imEvents[i + 1]
    BY DEF DeliverShape, Shorter
  <1>2. FewerAnswers(Next1(imEvents'))
    <2>1. \A i \in DOMAIN imEvents' : Next1(imEvents')[i] = i + 1
      BY DEF Next1
    <2> QED
      BY <1>1, <2>1 DEF FewerAnswers, Answers
  <1>3. FewerAsks(Same(imCalls'))
    BY RequestsKept DEF FewerAsks, Same, Asks
  <1>4. PageAfter(e) /\ chat \in Chat
    BY DeliverPage DEF StoreInv, RowsInv, Types
  <1>5. CASE ~chat'.open
    BY <1>4, <1>5, NoChatOf DEF PageAfter, Closed, OwnInv
  <1>6. CASE chat'.open /\ ~MessagesShape(e)
    <2>1. /\ chat'.calm = chat.calm /\ chat'.renamed = chat.renamed /\ chat'.peer = chat.peer
          /\ chat'.own = chat.own /\ chat'.chosen = chat.chosen
      <3>1. CASE AddressesShape(e)
        BY <1>4, <3>1 DEF AddressesShape, Chat
      <3>2. CASE MessageShape(e) \/ ListShape(e)
        BY <3>2 DEF MessageShape, ListShape
      <3>3. CASE RemovedShape(e)
        BY <1>6, <3>3, NoChatOf DEF RemovedShape, PageClosed
      <3> QED
        BY <1>6, <3>1, <3>2, <3>3 DEF DeliverShape
    <2>2. ~Replaces(e)
      BY <1>6 DEF DeliverShape, AddressesShape, MessageShape, ListShape, RemovedShape, Replaces
    <2>3. \A m \in ToSet(chatRows) : m \in ToSet(chatRows')
      BY <1>4, <1>6, <2>2 DEF PageAfter
    <2> QED
      BY <1>2, <1>3, <2>1, <2>3, OwnInvFewer
  <1>7. CASE chat'.open /\ MessagesShape(e)
    <2>1. chat.open /\ chat'.peer = chat.peer /\ e.of \in Seq(Msg) /\ Answers(1)
      BY <1>1, <1>4, <1>7 DEF PageAfter, MessagesShape, Answers
    <2>2. CASE e.of = <<>>
      BY <1>2, <1>3, <1>7, <2>2, OwnInvFewer DEF MessagesShape, RowsKept
    <2>3. CASE e.of # <<>>
      <3>1. chat' = [chat EXCEPT !.own = OwnAddressFrom(e.of)]
        BY <1>7, <2>1, <2>3 DEF MessagesShape
      <3>2. /\ chat'.calm = chat.calm /\ chat'.renamed = chat.renamed
            /\ chat'.own = OwnAddressFrom(e.of) /\ chat'.chosen = chat.chosen
        BY <1>4, <3>1 DEF Chat
      <3> SUFFICES ASSUME chat.calm /\ ~chat.renamed
                   PROVE  OwnInv'
        BY <3>2 DEF OwnInv
      <3>3. MessagesUnderWay
        BY <2>1 DEF MessagesUnderWay, Answers
      <3>4. NothingUnderWay'
        <4>1. \A i : ~Asks(i)'
          BY <1>3, <2>1 DEF OwnInv, FewerAsks
        <4>2. \A i : Answers(i)' => Answers(i + 1) /\ i + 1 # 1
          BY <1>1 DEF Answers
        <4>3. \A i : ~Answers(i)'
          BY <2>1, <4>2 DEF OwnInv
        <4> QED
          BY <4>1, <4>3 DEF NothingUnderWay
      <3>5. ~MessagesUnderWay'
        BY <3>4 DEF MessagesUnderWay, NothingUnderWay, Asks, Answers
      <3>6. chat.own = NoId \/ chat.own = chat.chosen
        BY <3>3 DEF OwnInv
      <3>7. chat.peer # NoId
        BY <3>3 DEF OwnInv
      <3>8. chat'.chosen # NoId => chat'.own = chat'.chosen
        BY <3>2 DEF OwnInv, OwnAddressFrom
      <3>9. ASSUME chat'.own # NoId, chat'.own # chat'.chosen
            PROVE  \E m \in ToSet(chatRows') : m.own = chat'.own
        <4>1. chat'.own = Last(e.of).own
          BY <3>2, <3>6, <3>9 DEF OwnAddressFrom
        <4>2. Last(e.of) \in ToSet(e.of)
          BY <2>1, <2>3, SeqFacts DEF Last
        <4>3. Last(e.of).peer = chat.peer
          BY <1>1, <2>1, <4>2 DEF OwnInv
        <4>4. Hands(e, Last(e.of))
          BY <1>7, <4>2 DEF MessagesShape, Hands
        <4> QED
          BY <1>4, <1>7, <4>1, <4>3, <4>4 DEF PageAfter
      <3> QED
        BY <2>1, <3>2, <3>4, <3>5, <3>7, <3>8, <3>9 DEF OwnInv, NothingUnderWay
    <2> QED
      BY <2>2, <2>3
  <1> QED
    BY <1>5, <1>6, <1>7

-----------------------------------------------------------------------------
(* Always.                                                                 *)

MessengerInv == StoreInv /\ RowsInv /\ ListInv /\ OwnInv

LEMMA MessengerInvInit == MessengerInit => MessengerInv
  BY StoreInvInit, RowsInvInit, ListInvInit, OwnInvInit DEF MessengerInv

LEMMA MessengerInvNext == MessengerInv /\ [MessengerNext]_messengerVars => MessengerInv'
  <1> SUFFICES ASSUME MessengerInv, [MessengerNext]_messengerVars
               PROVE  MessengerInv'
    OBVIOUS
  <1> USE DEF MessengerInv
  <1>1. Types /\ Closed /\ Numbers /\ InOrder
    BY DEF StoreInv, RowsInv
  <1>2. CASE MessengerUser
    <2>1. UserShape /\ PageTypes' /\ Closed'
      BY <1>1, <1>2, UserSteps
    <2> QED
      BY <1>2, <2>1, StoreInvUser, RowsInvUser, ListInvUser, OwnInvUser
  <1>3. ASSUME NEW peer \in Peers, NEW own \in GivenTo[peer], Receive(peer, own)
        PROVE  MessengerInv'
    <2>1. own \in OwnIds
      BY MessengerAssumption
    <2>2. /\ Store(peer, own, TRUE) /\ imCalls' = imCalls /\ PagesKept
      BY <1>3 DEF Receive, pages, PagesKept
    <2>3. PICK m : StoreShape(m)
      BY <1>1, <2>1, <2>2, StoreSteps
    <2>4. FewerCalls
      BY <1>1, <2>2 DEF FewerCalls, Types
    <2>5. StoreInv'
      BY <2>2, <2>3, <2>4, StoreInvStored
    <2>6. RowsInv'
      BY <2>2, <2>3, <2>4, RowsInvStored
    <2>7. ListInv'
      BY <2>2, <2>3, <2>4, ListInvStored
    <2>8. OwnInv'
      BY <2>2, <2>3, <2>4, OwnInvStored
    <2> QED
      BY <2>5, <2>6, <2>7, <2>8
  <1>4. CASE RunImCall
    <2>1. RunShape(imCalls[1])
      BY <1>1, <1>4, RunSteps
    <2> QED
      BY <2>1, StoreInvRun, RowsInvRun, ListInvRun, OwnInvRun
  <1>5. CASE DeliverImEvent
    <2>1. DeliverShape(imEvents[1])
      BY <1>1, <1>5, DeliverSteps
    <2> QED
      BY <1>1, <2>1, StoreInvDeliver, RowsInvDeliver, ListInvDeliver, OwnInvDeliver
  <1>6. CASE UNCHANGED messengerVars
    <2>1. /\ inbox' = inbox /\ seen' = seen /\ numbered' = numbered /\ imCalls' = imCalls
          /\ imEvents' = imEvents /\ chat' = chat /\ chatRows' = chatRows
          /\ chatList' = chatList /\ listBlocked' = listBlocked /\ displayed' = displayed
      BY <1>6 DEF messengerVars
    <2>2. StoreInv'
      BY <2>1 DEF StoreInv, Types, Closed, Numbers, ReadsShown
    <2>3. RowsInv'
      BY <2>1 DEF RowsInv, InOrder, Withdrawn, RemovedComes, AskedLast, OnTheirWay
    <2>4. ListInv'
      <3>1. (Due' <=> Due) /\ PeersStored' = PeersStored
        BY <2>1 DEF Due, PeersStored
      <3>2. \A n : (IsLastAnswer(n)' <=> IsLastAnswer(n)) /\ \A p : ToldAfter(n, p)' <=> ToldAfter(n, p)
        BY <2>1 DEF IsLastAnswer, ToldAfter
      <3>3. Names(chatList, 0)' <=> Names(chatList, 0)
        BY <2>1, <3>1, <3>2 DEF Names, PeersOf
      <3>4. \A n : Names(imEvents[n].of, n)' <=> Names(imEvents[n].of, n)
        BY <2>1, <3>1, <3>2 DEF Names, PeersOf
      <3> QED
        BY <2>1, <3>1, <3>2, <3>3, <3>4 DEF ListInv
    <2>5. OwnInv'
      BY <2>1 DEF OwnInv, Asks, Answers, MessagesUnderWay
    <2> QED
      BY <2>2, <2>3, <2>4, <2>5
  <1> QED
    BY <1>2, <1>3, <1>4, <1>5, <1>6 DEF MessengerNext

\* What is shown at rest is the conversation, once and in order: two lists of
\* the same messages in the order of their numbers are one.
LEMMA RowsAtRest ==
    ASSUME StoreInv, RowsInv, chat.open, chat.peer # NoId, imEvents = <<>>, ~MessagesUnderWay
    PROVE  chatRows = Reverse(NewestFirst(Conversation(chat.peer)))
  <1> DEFINE S == Conversation(chat.peer)
             q == NewestFirst(S)
             t == ListReset(q)
             s == chatRows
  <1>1. /\ S \in SUBSET Msg /\ numbered \in Nat /\ \A m \in S : m.id <= numbered
        /\ \A m, n \in S : m.id = n.id => m = n
        /\ s \in Seq(Msg)
    BY DEF Conversation, StoreInv, Types, Numbers
  <1>2. \A m : m \in ToSet(s) <=> m \in S
    <2>1. DOMAIN imEvents = {}
      OBVIOUS
    <2>2. \A m \in ToSet(s) : m \in inbox /\ m.peer = chat.peer
      BY <2>1 DEF RowsInv, Withdrawn, RemovedComes, StoreInv, Numbers
    <2>3. /\ \A k \in DOMAIN imCalls : ~IsRequest(imCalls[k], chat.peer)
          /\ ~RemovedComes(chat.peer)
      BY <2>1 DEF MessagesUnderWay, IsRequest, RemovedComes
    <2>4. \A m \in inbox : m.peer = chat.peer => m \in ToSet(s)
      BY <2>1, <2>3 DEF RowsInv, OnTheirWay
    <2> QED
      BY <2>2, <2>4 DEF Conversation
  <1> HIDE DEF S
  <1>3. q \in Seq(Msg) /\ Newest(q) /\ ToSet(q) = S
    BY <1>1, NewestFirstOf
  <1> HIDE DEF q
  <1>4. /\ t \in Seq(Msg) /\ ToSet(t) = S /\ Len(t) = Len(q) /\ Len(q) \in Nat
        /\ \A i \in 1..Len(q) : t[i] = q[Len(q) - i + 1]
    BY <1>3, ListResetOf, SeqFacts
  <1> HIDE DEF t
  <1>5. Oldest(t)
    <2> SUFFICES ASSUME NEW i \in 1..Len(q), NEW j \in 1..Len(q), i < j
                 PROVE  t[i].id < t[j].id
      BY <1>4 DEF Oldest
    <2> DEFINE a == Len(q) - j + 1
               b == Len(q) - i + 1
    <2>1. a \in 1..Len(q) /\ b \in 1..Len(q) /\ a < b
      BY <1>4
    <2>2. t[i] = q[b] /\ t[j] = q[a]
      BY <1>4
    <2> HIDE DEF a, b
    <2>3. q[a].id > q[b].id
      BY <1>3, <2>1 DEF Newest
    <2>4. q[a] \in Msg /\ q[b] \in Msg
      BY <1>3, <2>1, SeqFacts
    <2> QED
      BY <2>2, <2>3, <2>4 DEF Msg
  <1>6. Oldest(s)
    BY DEF RowsInv, InOrder
  <1> HIDE DEF s
  <1> DEFINE ids(u) == [i \in 1..Len(u) |-> u[i].id]
  <1>7. ASSUME NEW u \in Seq(Msg), Oldest(u)
        PROVE  ids(u) \in Seq(Int) /\ Rising(ids(u)) /\ Len(ids(u)) = Len(u)
    <2>1. Len(u) \in Nat /\ \A i \in 1..Len(u) : u[i] \in Msg
      BY SeqFacts
    <2>2. \A i \in 1..Len(u) : u[i].id \in Int
      BY <2>1 DEF Msg
    <2>3. ids(u) \in [1..Len(u) -> Int]
      BY <2>2
    <2>4. ids(u) \in Seq(Int) /\ Len(ids(u)) = Len(u)
      BY <2>1, <2>3, SeqDef, LenProperties
    <2> QED
      BY <1>7, <2>4 DEF Rising, Oldest
  <1>8. \A i \in 1..Len(s) : \E j \in 1..Len(t) : t[j] = s[i]
    BY <1>1, <1>2, <1>4, SeqFacts
  <1>9. \A i \in 1..Len(t) : \E j \in 1..Len(s) : s[j] = t[i]
    <2>1. \A i \in 1..Len(t) : t[i] \in ToSet(s)
      BY <1>2, <1>4, SeqFacts
    <2> QED
      BY <1>1, <2>1, SeqFacts
  <1>10. ids(s) = ids(t)
    <2>1. /\ ids(s) \in Seq(Int) /\ Rising(ids(s)) /\ Len(ids(s)) = Len(s)
          /\ ids(t) \in Seq(Int) /\ Rising(ids(t)) /\ Len(ids(t)) = Len(t)
      BY <1>1, <1>4, <1>5, <1>6, <1>7
    <2>2. Within(ids(s), ids(t))
      BY <1>8, <2>1 DEF Within
    <2>3. Within(ids(t), ids(s))
      BY <1>9, <2>1 DEF Within
    <2> HIDE DEF ids
    <2> QED
      BY <2>1, <2>2, <2>3, OneOrder
  <1>11. Len(s) = Len(t) /\ \A i \in 1..Len(s) : s[i].id = t[i].id
    <2>1. Len(ids(s)) = Len(s) /\ Len(ids(t)) = Len(t)
      BY <1>1, <1>4, <1>5, <1>6, <1>7
    <2>2. \A i \in 1..Len(s) : ids(s)[i] = s[i].id
      OBVIOUS
    <2>3. \A i \in 1..Len(t) : ids(t)[i] = t[i].id
      OBVIOUS
    <2> QED
      BY <1>10, <2>1, <2>2, <2>3
  <1>12. \A i \in 1..Len(s) : s[i] = t[i]
    <2> TAKE i \in 1..Len(s)
    <2>1. s[i] \in S /\ t[i] \in S
      BY <1>1, <1>2, <1>4, <1>11, SeqFacts
    <2> QED
      BY <1>1, <1>11, <2>1
  <1>13. s = t
    BY <1>1, <1>4, <1>11, <1>12, SeqEqual
  <1> QED
    BY <1>13 DEF s, t, q, S, ListReset

LEMMA ListAtRest ==
    ASSUME ListInv, ~listBlocked, imEvents = <<>>,
           \A i \in DOMAIN imCalls : imCalls[i].op \notin {"contacts", "ownAddresses", "chats"}
    PROVE  {c.peer : c \in chatList} = {m.peer : m \in inbox}
  <1>1. DOMAIN imEvents = {}
    OBVIOUS
  <1>2. ~Due
    BY <1>1 DEF Due, IsRefresh
  <1>3. Names(chatList, 0)
    BY <1>1, <1>2 DEF ListInv
  <1>4. \A p : ~ToldAfter(0, p)
    BY <1>1 DEF ToldAfter
  <1>5. PeersOf(chatList) = PeersStored
    BY <1>3, <1>4 DEF Names
  <1> QED
    BY <1>5 DEF PeersOf, PeersStored

LEMMA MessengerInvShows ==
    ASSUME MessengerInv
    PROVE  ReadWasShown /\ OwnAddressOfChat /\ MessengerShowsInbox
  <1> USE DEF MessengerInv
  <1>1. ReadWasShown
    BY DEF StoreInv, ReadsShown, ReadWasShown
  <1>2. OwnAddressOfChat
    <2>1. \A m \in ToSet(chatRows) : \E i \in DOMAIN chatRows : chatRows[i] = m
      BY SeqFacts DEF StoreInv, Types
    <2> QED
      BY <2>1 DEF OwnInv, OwnAddressOfChat
  <1>3. MessengerShowsInbox
    BY RowsAtRest, ListAtRest DEF MessengerShowsInbox
  <1> QED
    BY <1>1, <1>2, <1>3

\* The invariant, of any behaviour of the messenger.
THEOREM MessengerInvAlways == MessengerSpec => []MessengerInv
  BY MessengerInvInit, MessengerInvNext, PTL DEF MessengerSpec

\* A message that came in counts as read only when a page of its chat has
\* shown it, whichever page is open when an answer arrives (onMessage,
\* onMessages).
THEOREM ReadWasShownAlways == MessengerSpec => []ReadWasShown
  BY MessengerInvAlways, MessengerInvShows, PTL

\* For a user who opens a chat when no messages are under way and leaves the
\* contact's name alone, the address messages are sent from is one the
\* conversation on the page was led from, or the one chosen (onMessages).
THEOREM OwnAddressOfChatAlways == MessengerSpec => []OwnAddressOfChat
  BY MessengerInvAlways, MessengerInvShows, PTL

\* The page of a chat, once everything for it has arrived, has exactly the
\* messages of its peer, each once and in order, and the list, at rest and not
\* blocked, names the peers there are messages of (resetList, insert,
\* blockSignals).
THEOREM MessengerShowsInboxAlways == MessengerSpec => []MessengerShowsInbox
  BY MessengerInvAlways, MessengerInvShows, PTL
=============================================================================
