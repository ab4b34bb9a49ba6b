----------------------------- MODULE Messenger -----------------------------
(***************************************************************************)
(* The messenger (viewmodel/messenger_chat.cpp, messenger_chat_list.cpp,   *)
(* view/beam_messenger.qml and view/beam_chat.qml): a list of chats, and   *)
(* over it the page of one chat. Both hear every answer of the wallet,     *)
(* whoever asked. The wallet's store of messages is external.              *)
(***************************************************************************)
EXTENDS ListModel

CONSTANTS
    Peers,          \* whom one may talk to
    OwnIds,         \* the wallet's own addresses
    GivenTo,        \* those a peer has been given
    FirstOwn,       \* the one the dialog offers first
    NoId,           \* a WalletID that is not valid
    MaxMessages,    \* bound on the messages ever stored
    MaxUnderWay,    \* bound on what is under way when a chat is
                    \* opened or a message comes in
    MaxBehind       \* bound on it when the user does anything else that asks

ASSUME MessengerAssumption ==
    /\ FirstOwn \in OwnIds
    /\ GivenTo \in [Peers -> SUBSET OwnIds]
    /\ NoId \notin Peers \cup OwnIds
    /\ MaxMessages \in Nat /\ MaxUnderWay \in Nat /\ MaxBehind \in Nat

VARIABLES
    inbox,          \* the wallet's messages
    seen,           \* those of them marked as read, by number
    numbered,       \* how many messages there have ever been
    imCalls,        \* requests to the wallet, in order
    imEvents,       \* its answers and signals, in order
    chat,           \* the page of a chat
    chatRows,       \* _messeges of that page
    chatList,       \* _chats: peer and unread mark
    listBlocked,    \* _signalBlocker
    displayed       \* history: the messages a page of their chat has shown

messengerVars == <<inbox, seen, numbered, imCalls, imEvents, chat, chatRows,
                   chatList, listBlocked, displayed>>

Message == [id: 1..MaxMessages, peer: Peers, own: OwnIds, income: BOOLEAN]

ImCall == [op: {"ownAddresses", "contacts", "chats"}]
          \cup [op: {"messages", "remove"}, peer: Peers]
          \cup [op: {"send"}, peer: Peers, own: OwnIds]
          \cup [op: {"read"}, ids: SUBSET (1..MaxMessages)]

ImEvent == [kind: {"ownAddresses", "contacts"}]
           \cup [kind: {"message"}, of: Message]
           \cup [kind: {"messages"}, of: Seq(Message), unread: SUBSET (1..MaxMessages)]
           \cup [kind: {"chats"}, of: SUBSET [peer: Peers, unread: BOOLEAN]]
           \cup [kind: {"removed"}, peer: Peers]

\* peer, own: _peerID, _myID; known: _myIds has arrived; chosen: the own
\* address picked in the dialog. calm and renamed are history: nobody's
\* messages were under way when the page opened; the contact was renamed.
Chat == [open: BOOLEAN, peer: Peers \cup {NoId}, own: OwnIds \cup {NoId},
         known: BOOLEAN, chosen: OwnIds \cup {NoId}, calm: BOOLEAN, renamed: BOOLEAN]

NoChat == [open |-> FALSE, peer |-> NoId, own |-> NoId, known |-> FALSE,
           chosen |-> NoId, calm |-> FALSE, renamed |-> FALSE]

MessengerTypeOK ==
    /\ inbox \subseteq Message
    /\ seen \subseteq 1..MaxMessages
    /\ numbered \in 0..MaxMessages
    /\ imCalls \in Seq(ImCall)
    /\ imEvents \in Seq(ImEvent)
    /\ chat \in Chat
    /\ chatRows \in Seq(Message)
    /\ chatList \subseteq [peer: Peers, unread: BOOLEAN]
    /\ listBlocked \in BOOLEAN
    /\ displayed \subseteq 1..MaxMessages

MessengerInit ==
    /\ inbox = {}
    /\ seen = {}
    /\ numbered = 0
    /\ imCalls = <<[op |-> "contacts"]>>
    /\ imEvents = <<>>
    /\ chat = NoChat
    /\ chatRows = <<>>
    /\ chatList = {}
    /\ listBlocked = FALSE
    /\ displayed = {}

-----------------------------------------------------------------------------
Conversation(peer) == {m \in inbox : m.peer = peer}

\* What the wallet hands out: newest first.
NewestFirst(messages) ==
    LET ids == Ascending({m.id : m \in messages})
    IN  Reverse([i \in DOMAIN ids |-> CHOOSE m \in messages : m.id = ids[i]])

MessagesUnderWay ==
    \/ \E i \in DOMAIN imCalls : imCalls[i].op = "messages"
    \/ \E i \in DOMAIN imEvents : imEvents[i].kind = "messages"

UnderWay == Len(imCalls) + Len(imEvents)

\* One more message stays within MaxMessages, with those about to be sent.
Room == numbered + Cardinality({i \in DOMAIN imCalls : imCalls[i].op = "send"}) < MaxMessages

wallet == <<inbox, seen, numbered, imEvents>>
pages == <<chat, chatRows, chatList, listBlocked, displayed>>

-----------------------------------------------------------------------------
(* The user.                                                               *)

\* The row of a chat: blockSignals, push of the page, its constructor, and
\* the address it is given.
OpenChat(peer) ==
    /\ ~chat.open /\ UnderWay < MaxUnderWay
    /\ \E c \in chatList : c.peer = peer
    /\ chat' = [NoChat EXCEPT !.open = TRUE, !.peer = peer, !.calm = ~MessagesUnderWay]
    /\ chatRows' = <<>>
    /\ listBlocked' = TRUE
    /\ imCalls' = imCalls \o <<[op |-> "ownAddresses"], [op |-> "messages", peer |-> peer]>>
    /\ UNCHANGED <<wallet, chatList, displayed>>

\* New chat: the page without a peer, and a dialog over it.
NewChat ==
    /\ ~chat.open /\ UnderWay < MaxUnderWay
    /\ chat' = [NoChat EXCEPT !.open = TRUE, !.calm = ~MessagesUnderWay]
    /\ chatRows' = <<>>
    /\ listBlocked' = TRUE
    /\ imCalls' = Append(imCalls, [op |-> "ownAddresses"])
    /\ UNCHANGED <<wallet, chatList, displayed>>

\* The dialog closes with a peer: setAddr, then setMyAddress.
ChoosePeer(peer, own) ==
    /\ chat.open /\ chat.peer = NoId /\ chat.known
    /\ chat' = [chat EXCEPT !.peer = peer, !.own = own, !.chosen = own]
    /\ imCalls' = Append(imCalls, [op |-> "messages", peer |-> peer])
    /\ UNCHANGED <<wallet, chatRows, chatList, listBlocked, displayed>>

\* The dialog closes without one: onClosed, as when the chat is removed.
PageClosed ==
    /\ chat' = NoChat
    /\ chatRows' = <<>>
    /\ listBlocked' = FALSE

CancelChoice ==
    /\ chat.open /\ chat.peer = NoId
    /\ PageClosed
    /\ imCalls' = Append(imCalls, [op |-> "contacts"])
    /\ UNCHANGED <<wallet, chatList, displayed>>

\* The dialog to rename the contact hands the address back, and its own
\* address with it: the one chosen in it before, or the first of the list.
RenameContact ==
    /\ chat.open /\ chat.peer # NoId /\ chat.known /\ UnderWay < MaxBehind
    /\ chat' = [chat EXCEPT !.own = IF chat.chosen = NoId THEN FirstOwn ELSE chat.chosen,
                            !.renamed = TRUE]
    /\ imCalls' = Append(imCalls, [op |-> "messages", peer |-> chat.peer])
    /\ UNCHANGED <<wallet, chatRows, chatList, listBlocked, displayed>>

\* The title's path: the page is popped, its onClosed is not called.
LeaveByPath ==
    /\ chat.open
    /\ chat' = NoChat
    /\ chatRows' = <<>>
    /\ UNCHANGED <<wallet, imCalls, chatList, listBlocked, displayed>>

\* The side menu: all pages are made anew.
EnterMessenger ==
    /\ UnderWay < MaxBehind
    /\ PageClosed
    /\ chatList' = {}
    /\ imCalls' = Append(imCalls, [op |-> "contacts"])
    /\ UNCHANGED <<wallet, displayed>>

SendMessage ==
    /\ chat.open /\ chat.peer # NoId /\ chat.own # NoId
    /\ UnderWay < MaxBehind /\ Room
    /\ imCalls' = Append(imCalls, [op |-> "send", peer |-> chat.peer, own |-> chat.own])
    /\ UNCHANGED <<wallet, pages>>

RemoveChat ==
    /\ chat.open /\ chat.peer # NoId /\ UnderWay < MaxBehind
    /\ imCalls' = Append(imCalls, [op |-> "remove", peer |-> chat.peer])
    /\ UNCHANGED <<wallet, pages>>

-----------------------------------------------------------------------------
(* The wallet (external): stores, answers, signals, in the order of calls. *)

Store(peer, own, income) ==
    LET m == [id |-> numbered + 1, peer |-> peer, own |-> own, income |-> income]
    IN  /\ numbered' = numbered + 1
        /\ inbox' = inbox \cup {m}
        /\ seen' = IF income THEN seen ELSE seen \cup {m.id}
        /\ imEvents' = Append(imEvents, [kind |-> "message", of |-> m])

Receive(peer, own) ==
    /\ UnderWay < MaxUnderWay /\ Room
    /\ Store(peer, own, TRUE)
    /\ UNCHANGED <<imCalls, pages>>

Answered(event) ==
    /\ imEvents' = Append(imEvents, event)
    /\ UNCHANGED <<inbox, seen, numbered>>

RunImCall ==
    /\ imCalls # <<>>
    /\ imCalls' = Tail(imCalls)
    /\ UNCHANGED pages
    /\ LET call == Head(imCalls)
       IN  \/ /\ call.op \in {"ownAddresses", "contacts"}
              /\ Answered([kind |-> call.op])
           \/ /\ call.op = "messages"
              /\ LET told == Conversation(call.peer)
                 IN  Answered([kind |-> "messages", of |-> NewestFirst(told),
                               unread |-> {m.id : m \in told} \ seen])
           \/ /\ call.op = "chats"
              /\ Answered([kind |-> "chats",
                           of |-> {[peer |-> p,
                                    unread |-> \E m \in Conversation(p) : m.id \notin seen] :
                                   p \in {m.peer : m \in inbox}}])
           \/ /\ call.op = "read"
              /\ seen' = seen \cup call.ids
              /\ UNCHANGED <<inbox, numbered, imEvents>>
           \/ /\ call.op = "remove"
              /\ inbox' = inbox \ Conversation(call.peer)
              /\ imEvents' = Append(imEvents, [kind |-> "removed", peer |-> call.peer])
              /\ UNCHANGED <<seen, numbered>>
           \/ /\ call.op = "send"
              /\ Store(call.peer, call.own, FALSE)

-----------------------------------------------------------------------------
(* The event loop: the head of imEvents goes to both pages.                *)

Delivered == /\ imEvents' = Tail(imEvents)
             /\ UNCHANGED <<inbox, seen, numbered>>

\* Rows are shown when they are put into the list of the page.
Shows(rows) ==
    /\ chatRows' = rows
    /\ displayed' = displayed \cup
           {rows[i].id : i \in {i \in DOMAIN rows : rows[i].peer = chat.peer}}

\* A mutant: whatever was asked for, it is taken for the chat on the page.
OfPeer_Everyone(messages) == messages

\* Messages of the peer of the page.
OfPeer(messages) ==
    ItemsAt(messages, {i \in DOMAIN messages : messages[i].peer = chat.peer})

OnAddresses(own) ==
    /\ imEvents # <<>>
    /\ Head(imEvents) = [kind |-> IF own THEN "ownAddresses" ELSE "contacts"]
    /\ Delivered
    /\ chat' = IF own /\ chat.open THEN [chat EXCEPT !.known = TRUE] ELSE chat
    /\ imCalls' = IF listBlocked THEN imCalls ELSE Append(imCalls, [op |-> "chats"])
    /\ UNCHANGED <<chatRows, chatList, listBlocked, displayed>>

\* A page shows a new message of its peer and has it marked as read; the
\* list asks again when it does not know the chat.
OnMessage ==
    /\ imEvents # <<>> /\ Head(imEvents).kind = "message"
    /\ Delivered
    /\ LET m == Head(imEvents).of
           mine == chat.open /\ chat.peer = m.peer
           news == ~listBlocked /\ ~ \E c \in chatList : c.peer = m.peer
       IN  /\ IF mine THEN Shows(ListInsert(chatRows, <<m>>))
                      ELSE UNCHANGED <<chatRows, displayed>>
           /\ imCalls' = imCalls
                \o (IF mine THEN <<[op |-> "read", ids |-> {m.id}]>> ELSE <<>>)
                \o (IF news THEN <<[op |-> "chats"]>> ELSE <<>>)
    /\ UNCHANGED <<chat, chatList, listBlocked>>

\* A mutant: the first own address will do.
OwnAddressFrom_First(messages) ==
    IF chat.own = NoId /\ chat.known THEN FirstOwn ELSE chat.own

\* The own address of a chat is that of the last message handed out, when
\* the wallet still has it.
OwnAddressFrom(messages) ==
    IF chat.own = NoId /\ chat.known THEN Last(messages).own ELSE chat.own

OnMessages ==
    /\ imEvents # <<>> /\ Head(imEvents).kind = "messages"
    /\ Delivered
    /\ LET e == Head(imEvents)
           rows == OfPeer(e.of)
           unread == {rows[i].id : i \in DOMAIN rows} \cap e.unread
       IN  IF ~chat.open \/ e.of = <<>>
           THEN UNCHANGED <<chat, chatRows, displayed, imCalls>>
           ELSE /\ Shows(ListReset(rows))
                /\ imCalls' = IF unread = {} THEN imCalls
                              ELSE Append(imCalls, [op |-> "read", ids |-> unread])
                /\ chat' = [chat EXCEPT !.own = OwnAddressFrom(e.of)]
    /\ UNCHANGED <<chatList, listBlocked>>

OnChatList ==
    /\ imEvents # <<>> /\ Head(imEvents).kind = "chats"
    /\ Delivered
    /\ chatList' = IF listBlocked THEN chatList ELSE Head(imEvents).of
    /\ UNCHANGED <<imCalls, chat, chatRows, listBlocked, displayed>>

OnChatRemoved ==
    /\ imEvents # <<>> /\ Head(imEvents).kind = "removed"
    /\ Delivered
    /\ IF chat.open /\ chat.peer = Head(imEvents).peer
       THEN /\ PageClosed
            /\ imCalls' = Append(imCalls, [op |-> "contacts"])
       ELSE UNCHANGED <<imCalls, chat, chatRows, listBlocked>>
    /\ UNCHANGED <<chatList, displayed>>

DeliverImEvent ==
    \/ \E own \in BOOLEAN : OnAddresses(own)
    \/ OnMessage
    \/ OnMessages
    \/ OnChatList
    \/ OnChatRemoved

MessengerUser ==
    \/ \E peer \in Peers : OpenChat(peer)
    \/ NewChat
    \/ \E peer \in Peers, own \in OwnIds : ChoosePeer(peer, own)
    \/ CancelChoice
    \/ RenameContact
    \/ LeaveByPath
    \/ EnterMessenger
    \/ SendMessage
    \/ RemoveChat

MessengerNext ==
    \/ MessengerUser
    \/ \E peer \in Peers : \E own \in GivenTo[peer] : Receive(peer, own)
    \/ RunImCall
    \/ DeliverImEvent

MessengerSpec == MessengerInit /\ [][MessengerNext]_messengerVars

-----------------------------------------------------------------------------
(* Properties.                                                             *)

\* A message that came in counts as read only when a page of its chat has
\* shown it: every answer reaches the page that happens to be open, whoever
\* asked for it (messenger_chat.cpp: onMessage, onMessages).
ReadWasShown == \A m \in inbox : m.income /\ m.id \in seen => m.id \in displayed

\* The address messages are sent from is one the conversation on the page was
\* led from, or the one chosen for it. This holds for a user who opens a chat
\* when no messages are under way and leaves the contact's name alone:
\* onMessages takes the address from whatever answer comes first.
OwnAddressOfChat ==
    chat.own # NoId /\ chat.calm /\ ~chat.renamed
    => \/ chat.own = chat.chosen
       \/ \E i \in DOMAIN chatRows : chatRows[i].own = chat.own

\* What the messenger shows is the wallet's store. The page of a chat, once
\* everything for it has arrived, has exactly the messages of its peer, each
\* once and in order: answers replace the rows, new messages are added, and
\* an answer for a former page may come between. The list, at rest and not
\* blocked, names the peers there are messages of: blocking drops answers,
\* and unblocking has to ask again.
MessengerShowsInbox ==
    /\ chat.open /\ chat.peer # NoId /\ imEvents = <<>> /\ ~MessagesUnderWay
       => chatRows = Reverse(NewestFirst(Conversation(chat.peer)))
    /\ /\ ~listBlocked /\ imEvents = <<>>
       /\ \A i \in DOMAIN imCalls : imCalls[i].op \notin {"contacts", "ownAddresses", "chats"}
       => {c.peer : c \in chatList} = {m.peer : m \in inbox}
=============================================================================
