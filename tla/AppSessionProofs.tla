--------------------------- MODULE AppSessionProofs ---------------------------
(***************************************************************************)
(* Theorems about AppSession, for every set of accounts, whatever the      *)
(* bounds on connections and posted events.                                *)
(*                                                                         *)
(* The safety properties are not inductive by themselves.  The invariant   *)
(* below adds what they rest on: where the one pending teardown can be,    *)
(* what a session at rest on the start page looks like, in which order the *)
(* events of the node thread can be waiting, and that the deletion of a    *)
(* former main page never waits behind a reset.                            *)
(***************************************************************************)
EXTENDS AppSession, TLAPS

\* No "started" and no second "reset" waits behind a "reset".
Ordered(q) ==
    \A i, j \in 1..Len(q) : i < j /\ q[i] = "reset" => q[j] # "started"

OneReset(q) ==
    \A i, j \in 1..Len(q) : q[i] = "reset" /\ q[j] = "reset" => i = j

\* Every former main page is deleted before a reset that waits.
DiscardsFirst(q) ==
    \A i, j \in 1..Len(q) : q[i] = "reset" /\ q[j] = "discard" => j < i

\* The node thread will not post anything to this AppModel.
Quiet == nsc = 0 \/ (stage = "idle" /\ ~should)

-------------------------------------------------------------------------------
(* The invariant. *)

\* onResetWallet is connected as often as there is a session to tear down,
\* and a removal belongs to a session, is asked for from the page that then
\* loads, and reaches that page.
SessionInv ==
    /\ resetConns = IF open THEN 1 ELSE 0
    /\ removing => open /\ linked /\ screen = "start"
    /\ screen = "start" /\ open => removing

\* There is one teardown at most, and it is in one place.
TeardownInv ==
    /\ Teardown => removing
    /\ dconns \in {0, 1}
    /\ pc = "connect" => dconns = 0
    /\ pc = "connect" \/ dconns = 1 => ~Pending("reset")
    /\ OneReset(queue)
    /\ DiscardsFirst(queue)
    /\ fault \notin {"resetWallet", "managersHeld"}

\* What a removal requested while the node thread was at rest can count on.
SettledInv ==
    settled =>
        /\ removing => \/ pc = "connect"
                       \/ Pending("reset")
                       \/ dconns = 1 /\ OnItsWayOut
        /\ pc = "connect" => stage = "running" /\ ~stop
        /\ dconns = 1 => ~should /\ OnItsWayOut
        /\ Pending("reset") => stage = "idle" /\ ~should
        /\ ~open \/ removing => Quiet
        /\ ~open => ~Pending("started")
        /\ Ordered(queue)
        /\ fault # "startedNode"

\* The start page shows the account AppModel points to, or is about to.
ShownInv ==
    screen = "start" /\ ~open /\ ~stale /\ acct \in dbs =>
        shown = acct \/ Pending("repoint")

PatientInv ==
    patient => /\ fault # "alreadyOpen"
               /\ Pending("repoint") => screen = "start"
               /\ screen = "main" => open

IInv ==
    /\ TypeOK
    /\ SessionInv
    /\ TeardownInv
    /\ SettledInv
    /\ ShownInv
    /\ PatientInv

-------------------------------------------------------------------------------
(* Lemmas on the operators of the model. *)

\* The first of a non-empty set of accounts is one of them and bounds them.
LEMMA FirstIn ==
    ASSUME NEW S \in SUBSET Accounts, S # {}
    PROVE  First(S) \in S /\ \A b \in S : First(S) <= b
BY AccountsAssumption DEF First

\* An account that holds nothing is found if there is one.
LEMMA NewAccountIndexIn ==
    ASSUME Accounts \ dbs # {}
    PROVE  NewAccountIndex \in Accounts \ dbs
BY FirstIn DEF NewAccountIndex

\* What posting one event does to the queue.
LEMMA PostOne ==
    ASSUME NEW q \in Seq(Events), NEW e \in Events
    PROVE  /\ Append(q, e) \in Seq(Events)
           /\ \A x : Has(Append(q, e), x) <=> Has(q, x) \/ x = e
           /\ OneReset(q) /\ (e = "reset" => ~Has(q, "reset"))
                => OneReset(Append(q, e))
           /\ Ordered(q) /\ (e = "started" => ~Has(q, "reset"))
                => Ordered(Append(q, e))
           /\ DiscardsFirst(q) /\ (e = "discard" => ~Has(q, "reset"))
                => DiscardsFirst(Append(q, e))
<1>1. /\ Append(q, e) \in Seq(Events)
      /\ Len(Append(q, e)) = Len(q) + 1
      /\ \A i \in 1..Len(q) : Append(q, e)[i] = q[i]
      /\ Append(q, e)[Len(q) + 1] = e
      /\ Len(q) \in Nat
    OBVIOUS
<1>2. \A i \in 1..(Len(q) + 1) : i \in 1..Len(q) \/ i = Len(q) + 1
    BY <1>1
<1>3. \A x : Has(Append(q, e), x) <=> Has(q, x) \/ x = e
    BY <1>1, <1>2 DEF Has
<1>4. ASSUME OneReset(q), e = "reset" => ~Has(q, "reset")
      PROVE  OneReset(Append(q, e))
    BY <1>1, <1>2, <1>4 DEF OneReset, Has
<1>5. ASSUME Ordered(q), e = "started" => ~Has(q, "reset")
      PROVE  Ordered(Append(q, e))
    BY <1>1, <1>2, <1>5 DEF Ordered, Has
<1>6. ASSUME DiscardsFirst(q), e = "discard" => ~Has(q, "reset")
      PROVE  DiscardsFirst(Append(q, e))
    BY <1>1, <1>2, <1>6 DEF DiscardsFirst, Has
<1> QED
    BY <1>1, <1>3, <1>4, <1>5, <1>6

\* What posting the same event n times does to the queue.
LEMMA PostMany ==
    ASSUME NEW q \in Seq(Events), NEW e \in Events, NEW n \in Nat
    PROVE  LET r == q \o [i \in 1..n |-> e]
           IN  /\ r \in Seq(Events)
               /\ \A x : Has(r, x) <=> Has(q, x) \/ (n > 0 /\ x = e)
               /\ OneReset(q) /\ (e = "reset" => n <= 1 /\ ~Has(q, "reset"))
                    => OneReset(r)
               /\ Ordered(q) /\ (e = "started" => ~Has(q, "reset"))
                    => Ordered(r)
               /\ DiscardsFirst(q) /\ e # "discard" => DiscardsFirst(r)
<1> DEFINE c == [i \in 1..n |-> e]
           r == q \o c
<1>1. c \in Seq(Events) /\ Len(c) = n /\ \A i \in 1..n : c[i] = e
    OBVIOUS
<1> HIDE DEF c
<1>2. /\ r \in Seq(Events)
      /\ Len(q) \in Nat
      /\ Len(r) = Len(q) + n
      /\ \A i \in 1..Len(r) :
            r[i] = IF i <= Len(q) THEN q[i] ELSE c[i - Len(q)]
    BY <1>1
<1> HIDE DEF r
<1>3. /\ \A i \in 1..Len(q) : i \in 1..Len(r) /\ r[i] = q[i]
      /\ \A i \in 1..Len(r) : i \in 1..Len(q) \/ (i > Len(q) /\ r[i] = e)
      /\ n > 0 => r[Len(q) + 1] = e /\ Len(q) + 1 \in 1..Len(r)
    BY <1>1, <1>2, SMTT(60)
<1>4. \A x : Has(r, x) <=> Has(q, x) \/ (n > 0 /\ x = e)
    BY <1>2, <1>3 DEF Has
<1>5. ASSUME OneReset(q), e = "reset" => n <= 1 /\ ~Has(q, "reset")
      PROVE  OneReset(r)
    <2>1. CASE e = "reset"
        BY <1>2, <1>3, <1>5, <2>1 DEF OneReset, Has
    <2>2. CASE e # "reset"
        BY <1>2, <1>3, <1>5, <2>2 DEF OneReset
    <2> QED
        BY <2>1, <2>2
<1>6. ASSUME Ordered(q), e = "started" => ~Has(q, "reset")
      PROVE  Ordered(r)
    BY <1>2, <1>3, <1>6 DEF Ordered, Has
<1>7. ASSUME DiscardsFirst(q), e # "discard"
      PROVE  DiscardsFirst(r)
    BY <1>2, <1>3, <1>7 DEF DiscardsFirst
<1> QED
    BY <1>2, <1>4, <1>5, <1>6, <1>7 DEF r, c

\* What delivering the oldest event does to the queue.
LEMMA TakeOne ==
    ASSUME NEW q \in Seq(Events), q # << >>
    PROVE  /\ Tail(q) \in Seq(Events)
           /\ Has(q, Head(q))
           /\ \A x : Has(Tail(q), x) => Has(q, x)
           /\ \A x : Has(q, x) /\ x # Head(q) => Has(Tail(q), x)
           /\ OneReset(q) => /\ OneReset(Tail(q))
                             /\ Head(q) = "reset" => ~Has(Tail(q), "reset")
           /\ Ordered(q) => /\ Ordered(Tail(q))
                            /\ Head(q) = "reset" => ~Has(Tail(q), "started")
           /\ DiscardsFirst(q) => /\ DiscardsFirst(Tail(q))
                                  /\ Head(q) = "reset" => ~Has(q, "discard")
<1>1. /\ Tail(q) \in Seq(Events)
      /\ Len(q) \in Nat /\ Len(q) >= 1
      /\ Len(Tail(q)) = Len(q) - 1
      /\ Head(q) = q[1]
      /\ \A i \in 1..Len(Tail(q)) : Tail(q)[i] = q[i + 1]
    OBVIOUS
<1>2. /\ \A i \in 1..Len(Tail(q)) : i + 1 \in 1..Len(q) /\ i + 1 # 1
      /\ \A i \in 1..Len(q) : i # 1 => /\ i - 1 \in 1..Len(Tail(q))
                                       /\ Tail(q)[i - 1] = q[i]
      /\ 1 \in 1..Len(q)
    BY <1>1
<1>3. Has(q, Head(q)) /\ \A x : Has(Tail(q), x) => Has(q, x)
    BY <1>1, <1>2 DEF Has
<1>4. \A x : Has(q, x) /\ x # Head(q) => Has(Tail(q), x)
    BY <1>1, <1>2 DEF Has
<1>5. OneReset(q) => /\ OneReset(Tail(q))
                     /\ Head(q) = "reset" => ~Has(Tail(q), "reset")
    BY <1>1, <1>2 DEF OneReset, Has
<1>6. Ordered(q) => /\ Ordered(Tail(q))
                    /\ Head(q) = "reset" => ~Has(Tail(q), "started")
    BY <1>1, <1>2 DEF Ordered, Has
<1>7. DiscardsFirst(q) => /\ DiscardsFirst(Tail(q))
                          /\ Head(q) = "reset" => ~Has(q, "discard")
    BY <1>1, <1>2 DEF DiscardsFirst, Has
<1> QED
    BY <1>1, <1>3, <1>4, <1>5, <1>6, <1>7

\* Nothing is posted at first.
LEMMA EmptyQueue ==
    /\ ~Has(<< >>, "reset") /\ ~Has(<< >>, "started") /\ ~Has(<< >>, "repoint")
    /\ OneReset(<< >>) /\ Ordered(<< >>) /\ DiscardsFirst(<< >>)
BY DEF Has, OneReset, Ordered, DiscardsFirst

\* Without a "reset" there is nothing to order.
LEMMA NoReset ==
    ASSUME NEW q, ~Has(q, "reset")
    PROVE  Ordered(q) /\ OneReset(q) /\ DiscardsFirst(q)
BY DEF Has, Ordered, OneReset, DiscardsFirst

\* The queue a new AppModel starts with.
LEMMA FreshQueues ==
    ASSUME NEW waiting
    PROVE  LET q == Survivors(waiting)
           IN  /\ q \in Seq(Events)
               /\ ~Has(q, "reset") /\ ~Has(q, "started")
               /\ OneReset(q) /\ Ordered(q) /\ DiscardsFirst(q)
               /\ Has(q, "repoint") <=> Has(waiting, "repoint")
<1> DEFINE q == Survivors(waiting)
           calls == IF Has(waiting, "repoint") THEN <<"repoint">> ELSE << >>
<1>1. /\ calls \in Seq(Events)
      /\ \A x : Has(calls, x) <=> Has(waiting, "repoint") /\ x = "repoint"
  <2>1. CASE Has(waiting, "repoint")
    <3>1. calls = <<"repoint">>
        BY <2>1
    <3> HIDE DEF calls
    <3>2. calls \in Seq(Events) /\ Len(calls) = 1 /\ calls[1] = "repoint"
        BY <3>1 DEF Events
    <3>3. \A x : Has(calls, x) <=> x = "repoint"
        BY <3>2 DEF Has
    <3> QED
        BY <2>1, <3>2, <3>3
  <2>2. CASE ~Has(waiting, "repoint")
    <3>1. calls = << >>
        BY <2>2
    <3> HIDE DEF calls
    <3>2. calls \in Seq(Events) /\ \A x : ~Has(calls, x)
        BY <3>1 DEF Has
    <3> QED
        BY <2>2, <3>2
  <2> QED
    BY <2>1, <2>2
<1>2. q = calls \/ q = Append(calls, "discard")
    BY DEF Survivors
<1> HIDE DEF calls, q
<1>3. /\ q \in Seq(Events)
      /\ \A x : x # "discard" =>
            (Has(q, x) <=> Has(waiting, "repoint") /\ x = "repoint")
  <2>1. "discard" \in Events
    BY DEF Events
  <2>2. /\ Append(calls, "discard") \in Seq(Events)
        /\ \A x : Has(Append(calls, "discard"), x)
                    <=> Has(calls, x) \/ x = "discard"
    BY <1>1, <2>1, PostOne
  <2>3. CASE q = calls
    BY <1>1, <2>3
  <2>4. CASE q = Append(calls, "discard")
    BY <1>1, <2>2, <2>4
  <2> QED
    BY <1>2, <2>3, <2>4
<1> QED
    <2>1. /\ q \in Seq(Events) /\ ~Has(q, "reset") /\ ~Has(q, "started")
          /\ Has(q, "repoint") <=> Has(waiting, "repoint")
        BY <1>3
    <2>2. OneReset(q) /\ Ordered(q) /\ DiscardsFirst(q)
        BY <2>1, NoReset
    <2> QED
        BY <2>1, <2>2 DEF q

-------------------------------------------------------------------------------
(* Type correctness. *)

LEMMA TypeInit == Init => TypeOK
BY AccountsAssumption, FirstIn
   DEF Init, TypeOK, Screens, Stages, Faults, Events

LEMMA StopNodeTypes ==
    ASSUME StopNode
    PROVE  /\ should' = FALSE
           /\ stop' \in BOOLEAN
           /\ stage' = stage
           /\ stage \in {"starting", "running"} => stop' = TRUE
<1>1. CASE stage \in {"starting", "running"}
    BY <1>1 DEF StopNode
<1>2. CASE stage \notin {"starting", "running"}
    BY <1>2 DEF StopNode
<1> QED
    BY <1>1, <1>2

\* Replacing AppModel keeps the types of what it assigns.
LEMMA ReplaceTypes ==
    ASSUME NEW a \in Accounts, NEW waiting, TypeOK, ReplaceInstance(a, waiting)
    PROVE  /\ acct' \in Accounts /\ removing' \in BOOLEAN /\ dconns' \in Nat
           /\ queue' \in Seq(Events) /\ stage' \in Stages
           /\ stop' \in BOOLEAN /\ settled' \in BOOLEAN
           /\ linked' \in BOOLEAN
           /\ pc' \in {"loop", "connect"} /\ fault' \in Faults
BY FreshQueues DEF ReplaceInstance, TypeOK, Stages

\* setCurrentAccountIndexForced(0) keeps the types of what it assigns.
LEMMA PointTypes ==
    ASSUME NEW accounts \in SUBSET Accounts, NEW waiting, TypeOK,
           PointAtFirst(accounts, waiting),
           UNCHANGED <<disk, patient>>, screen' \in Screens
    PROVE  TypeOK'
<1>1. PICK a \in Accounts : ResetInstance(a, waiting)
    BY FirstIn, AccountsAssumption DEF PointAtFirst
<1>2. shown' \in Accounts \cup {NoAccount}
    BY FirstIn DEF PointAtFirst
<1>3. /\ open' \in BOOLEAN /\ should' \in BOOLEAN /\ stale' \in BOOLEAN
      /\ resetConns' \in Nat /\ nsc' \in Nat
    <2>1. ResetInstance(a, waiting) /\ stale' = FALSE
        BY <1>1 DEF PointAtFirst
    <2> QED
        BY <2>1 DEF ResetInstance
<1> QED
    BY <1>1, <1>2, <1>3, ReplaceTypes
       DEF ResetInstance, PointAtFirst, TypeOK, disk

LEMMA TypeUser == TypeOK /\ User => TypeOK'
<1> SUFFICES ASSUME TypeOK, User
             PROVE  TypeOK'
    OBVIOUS
<1>1. ASSUME NEW a \in Accounts, SelectAccount(a)
      PROVE  TypeOK'
    BY <1>1, ReplaceTypes
       DEF SelectAccount, AtStartScreen, ResetInstance, TypeOK, disk
<1>2. CASE CreateWallet
    BY <1>2, ReplaceTypes, NewAccountIndexIn
       DEF CreateWallet, AtStartScreen, Start, TypeOK, Screens
<1>3. CASE CreateWalletFails
    BY <1>3, ReplaceTypes, NewAccountIndexIn
       DEF CreateWalletFails, AtStartScreen, ResetInstance, TypeOK
<1>4. CASE OpenWallet
    <2>1. open' \in BOOLEAN /\ should' \in BOOLEAN
        BY <1>4, Zenon DEF OpenWallet, Start, TypeOK
    <2> QED
        BY <1>4, <2>1 DEF OpenWallet, AtStartScreen, Start, TypeOK, disk,
                          Screens, Faults
<1>5. CASE Lock
    <2>1. queue' \in Seq(Events)
        BY <1>5, PostOne DEF Lock, DiscardMainPage, TypeOK, Events
    <2> QED
        BY <1>5, <2>1, FirstIn
           DEF Lock, LoadStartScreen, TypeOK, disk, sess, conns, thread, aux,
               Screens
<1>6. CASE Unlock
    BY <1>6 DEF Unlock, TypeOK, disk, sess, conns, thread, aux, Screens
<1>7. CASE Logout
    BY <1>7, PointTypes DEF Logout, TypeOK, disk, Screens
<1>8. ASSUME NEW run \in BOOLEAN, ApplyLocalNodeChanges(run)
      PROVE  TypeOK'
    <2>1. runLocal' \in [Accounts -> BOOLEAN]
        BY <1>8 DEF ApplyLocalNodeChanges, TypeOK
    <2>2. /\ should' \in BOOLEAN /\ stop' \in BOOLEAN /\ nsc' \in Nat
          /\ stage' \in Stages
        <3>1. CASE run = TRUE
            BY <1>8, <3>1 DEF ApplyLocalNodeChanges, TypeOK
        <3>2. CASE run = FALSE
            BY <1>8, <3>2, StopNodeTypes DEF ApplyLocalNodeChanges, TypeOK
        <3> QED
            BY <1>8, <3>1, <3>2
    <2> QED
        BY <1>8, <2>1, <2>2 DEF ApplyLocalNodeChanges, TypeOK, page, sess, aux
<1>9. CASE RemoveCurrentWallet
    <2>1. settled' \in BOOLEAN
        BY <1>9, Zenon DEF RemoveCurrentWallet, TypeOK
    <2>2. queue' \in Seq(Events)
        <3>1. Append(queue, "discard") \in Seq(Events)
            BY PostOne DEF TypeOK, Events
        <3>2. Append(Append(queue, "discard"), "reset") \in Seq(Events)
            BY <3>1, PostOne DEF Events
        <3> QED
            BY <1>9, <3>1, <3>2 DEF RemoveCurrentWallet, DiscardMainPage
    <2>3. nsc' \in Nat /\ pc' \in {"loop", "connect"}
        BY <1>9 DEF RemoveCurrentWallet, TypeOK
    <2>4. /\ screen' \in Screens /\ listed' \in SUBSET Accounts
          /\ shown' \in Accounts \cup {NoAccount}
          /\ linked' \in BOOLEAN /\ stale' \in BOOLEAN
        BY <1>9, FirstIn
           DEF RemoveCurrentWallet, LoadStartScreen, TypeOK, Screens
    <2>5. /\ removing' = TRUE
          /\ UNCHANGED <<disk, acct, open, resetConns, dconns, thread, patient,
                         fault>>
        BY <1>9 DEF RemoveCurrentWallet
    <2> QED
        BY <2>1, <2>2, <2>3, <2>4, <2>5 DEF TypeOK, disk, thread
<1> QED
    BY <1>1, <1>2, <1>3, <1>4, <1>5, <1>6, <1>7, <1>8, <1>9 DEF User

LEMMA TypeEventLoop == TypeOK /\ EventLoop => TypeOK'
<1> SUFFICES ASSUME TypeOK, EventLoop
             PROVE  TypeOK'
    OBVIOUS
<1>1. CASE ConnectDestroyedNode
    BY <1>1, StopNodeTypes DEF ConnectDestroyedNode, TypeOK, disk, page, sess
<1>2. CASE OnStartedNode
    BY <1>2, TakeOne
       DEF OnStartedNode, Deliver, TypeOK, disk, page, sess, thread, Faults
<1>3. CASE OnFailedToStartNode
    BY <1>3, TakeOne
       DEF OnFailedToStartNode, Deliver, TypeOK, disk, page, sess, thread, aux
<1>4. CASE OnResetWallet
    <2>1. Tail(queue) \in Seq(Events)
        BY <1>4, TakeOne DEF OnResetWallet, Deliver, TypeOK
    <2>2. queue' \in Seq(Events)
        <3>1. queue' \in {Tail(queue), Append(Tail(queue), "repoint")}
            BY <1>4 DEF OnResetWallet
        <3> QED
            BY <2>1, <3>1, PostOne DEF Events
    <2>3. /\ dbs' \in SUBSET Accounts /\ listed' \in SUBSET Accounts
          /\ shown' \in Accounts \cup {NoAccount}
        BY <1>4, FirstIn DEF OnResetWallet, TypeOK
    <2> QED
        BY <1>4, <2>2, <2>3 DEF OnResetWallet, TypeOK, conns, thread, Faults
<1>5. CASE OnRepoint
    <2>1. PICK accounts \in SUBSET Accounts :
              PointAtFirst(accounts, Tail(queue))
        BY <1>5 DEF OnRepoint, TypeOK
    <2> QED
        BY <1>5, <2>1, PointTypes DEF OnRepoint, TypeOK, disk
<1>6. CASE OnDiscard
    BY <1>6, TakeOne
       DEF OnDiscard, Deliver, TypeOK, disk, page, sess, conns, thread, aux
<1> QED
    BY <1>1, <1>2, <1>3, <1>4, <1>5, <1>6 DEF EventLoop

LEMMA TypeNodeThread == TypeOK /\ NodeThread => TypeOK'
<1> SUFFICES ASSUME TypeOK, NodeThread
             PROVE  TypeOK'
    OBVIOUS
<1>1. CASE NodeCreated
    BY <1>1 DEF NodeCreated, TypeOK, disk, page, sess, conns, aux, Stages
<1>2. CASE NodeStarted
    BY <1>2, PostMany
       DEF NodeStarted, Post, TypeOK, disk, page, sess, conns, aux, Stages,
           Events
<1>3. CASE NodeFailedToStart
    BY <1>3, PostMany
       DEF NodeFailedToStart, Post, TypeOK, disk, page, sess, conns, aux,
           Stages, Events
<1>4. CASE NodeFailedToSync
    BY <1>4, PostMany
       DEF NodeFailedToSync, Post, TypeOK, disk, page, sess, conns, thread,
           aux, Events
<1>5. CASE NodeStopped
    BY <1>5 DEF NodeStopped, TypeOK, disk, page, sess, conns, aux, Stages
<1>6. CASE NodeDestroyed
    <2>1. dconns * resetConns \in Nat
        BY DEF TypeOK
    <2>2. queue' \in Seq(Events)
        BY <1>6, <2>1, PostMany DEF NodeDestroyed, TypeOK, Events
    <2> QED
        BY <1>6, <2>2
           DEF NodeDestroyed, TypeOK, disk, page, sess, aux, Stages
<1> QED
    BY <1>1, <1>2, <1>3, <1>4, <1>5, <1>6 DEF NodeThread

LEMMA TypeStep == TypeOK /\ [Next]_vars => TypeOK'
<1>1. ASSUME TypeOK, Restart
      PROVE  TypeOK'
    <2>1. queue' \in Seq(Events)
        BY <1>1 DEF Restart
    <2> QED
        BY <1>1, <2>1, AccountsAssumption, FirstIn
           DEF Restart, LoadStartScreen, TypeOK, disk, Screens, Stages, Faults
<1>2. ASSUME TypeOK, UNCHANGED vars
      PROVE  TypeOK'
    BY <1>2 DEF TypeOK, vars, disk, page, sess, conns, thread, aux
<1> QED
    BY <1>1, <1>2, TypeUser, TypeEventLoop, TypeNodeThread DEF Next

\* Every variable keeps its type, for all values of the constants: in
\* particular AppModel always points to an account.
THEOREM TypeCorrect == Spec => []TypeOK
BY TypeInit, TypeStep, PTL DEF Spec

-------------------------------------------------------------------------------
(* The invariant holds initially and is preserved. *)

\* Account 0, when it is there, is the first.
LEMMA FirstZero ==
    ASSUME NEW S \in SUBSET Accounts, 0 \in S
    PROVE  First(S) = 0
<1>1. First(S) \in S /\ \A b \in S : First(S) <= b
    BY FirstIn
<1>2. First(S) \in Nat /\ First(S) <= 0
    BY <1>1, AccountsAssumption
<1> QED
    BY <1>2

\* What posting a signal of the node thread does to the queue.
LEMMA PostSignal ==
    ASSUME TypeOK, NEW ev \in Events
    PROVE  /\ \A x : Has(Post(ev), x) <=> Has(queue, x) \/ (nsc > 0 /\ x = ev)
           /\ OneReset(queue) /\ ev # "reset" => OneReset(Post(ev))
           /\ Ordered(queue) /\ (ev = "started" => ~Has(queue, "reset"))
                => Ordered(Post(ev))
           /\ DiscardsFirst(queue) /\ ev # "discard"
                => DiscardsFirst(Post(ev))
BY PostMany DEF Post, TypeOK

LEMMA InitInv == Init => IInv
<1> SUFFICES ASSUME Init
             PROVE  IInv
    OBVIOUS
<1>1. queue = << >> /\ ~Has(queue, "reset") /\ ~Has(queue, "started")
      /\ ~Has(queue, "repoint") /\ OneReset(queue) /\ Ordered(queue)
      /\ DiscardsFirst(queue)
    BY EmptyQueue DEF Init
<1>2. TypeOK
    BY TypeInit
<1>3. SessionInv /\ TeardownInv /\ PatientInv
    BY <1>1 DEF Init, SessionInv, TeardownInv, PatientInv, Teardown, Pending
<1>4. SettledInv
    BY <1>1 DEF Init, SettledInv, Pending, Quiet
<1>5. ShownInv
    <2>1. 0 \in dbs => First(dbs) = 0
        BY <1>2, FirstZero DEF TypeOK
    <2> QED
        BY <2>1 DEF Init, ShownInv
<1> QED
    BY <1>2, <1>3, <1>4, <1>5 DEF IInv

\* What a new AppModel finds in the queue.
LEMMA ReplacedQueue ==
    ASSUME NEW a, NEW waiting, ReplaceInstance(a, waiting)
    PROVE  /\ ~Has(queue', "reset") /\ ~Has(queue', "started")
           /\ OneReset(queue') /\ Ordered(queue') /\ DiscardsFirst(queue')
           /\ Has(queue', "repoint") <=> Has(waiting, "repoint")
<1>1. queue' = Survivors(waiting)
    BY DEF ReplaceInstance
<1> QED
    BY <1>1, FreshQueues

\* Replacing AppModel leaves nothing of a teardown, and a session at rest.
LEMMA ReplaceInv ==
    ASSUME NEW a, NEW waiting, InLoop, ReplaceInstance(a, waiting),
           open' \/ nsc' = 0
    PROVE  TeardownInv' /\ SettledInv'
<1>1. /\ ~Has(queue', "reset") /\ ~Has(queue', "started")
      /\ OneReset(queue') /\ Ordered(queue') /\ DiscardsFirst(queue')
    BY ReplacedQueue
<1>2. /\ ~removing' /\ dconns' = 0 /\ pc' = "loop" /\ fault' = "none"
    BY DEF ReplaceInstance, InLoop
<1>3. TeardownInv'
    BY <1>1, <1>2 DEF TeardownInv, Teardown, Pending
<1>4. SettledInv'
    BY <1>1, <1>2 DEF SettledInv, Quiet, Pending
<1> QED
    BY <1>3, <1>4

\* setCurrentAccountIndexForced(0), called from the event loop.
LEMMA PointInv ==
    ASSUME NEW accounts \in SUBSET Accounts, NEW waiting, InLoop,
           PointAtFirst(accounts, waiting), dbs' = dbs,
           accounts = {} => dbs = {},
           patient' => screen' = "start"
    PROVE  SessionInv' /\ TeardownInv' /\ SettledInv' /\ ShownInv' /\ PatientInv'
<1> DEFINE a == IF accounts = {} THEN 0 ELSE First(accounts)
<1>1. /\ ResetInstance(a, waiting)
      /\ shown' = IF accounts = {} THEN NoAccount ELSE First(accounts)
    BY DEF PointAtFirst
<1> HIDE DEF a
<1>2. /\ acct' = a /\ ~open' /\ ~removing' /\ resetConns' = 0 /\ nsc' = 0
      /\ fault' = "none" /\ ReplaceInstance(a, waiting)
    BY <1>1 DEF ResetInstance, ReplaceInstance, InLoop
<1>3. TeardownInv' /\ SettledInv'
    BY <1>2, ReplaceInv
<1>4. SessionInv'
    BY <1>2 DEF SessionInv
<1>5. ShownInv'
    BY <1>1, <1>2 DEF ShownInv, a
<1>6. PatientInv'
    BY <1>2, ReplacedQueue DEF PatientInv, Pending
<1> QED
    BY <1>3, <1>4, <1>5, <1>6

LEMMA InvUser ==
    ASSUME IInv, TypeOK', User
    PROVE  SessionInv' /\ TeardownInv' /\ SettledInv' /\ ShownInv' /\ PatientInv'
<1> USE DEF IInv
<1>1. ASSUME NEW a \in Accounts, SelectAccount(a)
      PROVE  SessionInv' /\ TeardownInv' /\ SettledInv' /\ ShownInv' /\ PatientInv'
    <2>1. ReplaceInstance(a, queue) /\ ~open' /\ nsc' = 0 /\ resetConns' = 0 /\ InLoop
        BY <1>1 DEF SelectAccount, AtStartScreen, ResetInstance
    <2>2. TeardownInv' /\ SettledInv'
        BY <2>1, ReplaceInv
    <2>3. SessionInv'
        BY <1>1, <2>1
           DEF SelectAccount, ReplaceInstance, SessionInv
    <2>4. ShownInv'
        BY <1>1, <2>1
           DEF SelectAccount, ReplaceInstance, ShownInv, Pending
    <2>5. PatientInv'
        BY <1>1, <2>1, ReplacedQueue
           DEF SelectAccount, ReplaceInstance, AtStartScreen, InLoop,
               PatientInv, Pending
    <2> QED
        BY <2>1, <2>2, <2>3, <2>4, <2>5
<1>2. CASE CreateWallet
    <2>1. ReplaceInstance(NewAccountIndex, queue) /\ open' /\ InLoop
        BY <1>2 DEF CreateWallet, AtStartScreen, Start
    <2>2. TeardownInv' /\ SettledInv'
        BY <2>1, ReplaceInv
    <2>3. SessionInv'
        BY <1>2, <2>1
           DEF CreateWallet, Start, ReplaceInstance, SessionInv
    <2>4. ShownInv'
        BY <1>2, <2>1
           DEF CreateWallet, ShownInv, Pending
    <2>5. PatientInv'
        BY <1>2, <2>1, ReplacedQueue
           DEF CreateWallet, ReplaceInstance, AtStartScreen, InLoop,
               PatientInv, Pending
    <2> QED
        BY <2>1, <2>2, <2>3, <2>4, <2>5
<1>3. CASE CreateWalletFails
    <2>1. ReplaceInstance(NewAccountIndex, queue) /\ ~open' /\ nsc' = 0 /\ InLoop
          /\ resetConns' = 0
        BY <1>3 DEF CreateWalletFails, AtStartScreen, ResetInstance
    <2>2. TeardownInv' /\ SettledInv'
        BY <2>1, ReplaceInv
    <2>3. SessionInv'
        BY <1>3, <2>1
           DEF CreateWalletFails, ReplaceInstance, SessionInv
    <2>4. ShownInv'
        BY <1>3, <2>1
           DEF CreateWalletFails, ShownInv, Pending
    <2>5. PatientInv'
        BY <1>3, <2>1, ReplacedQueue
           DEF CreateWalletFails, ReplaceInstance, AtStartScreen, InLoop,
               PatientInv, Pending
    <2> QED
        BY <2>1, <2>2, <2>3, <2>4, <2>5
<1>4. CASE OpenWallet
    <2>1. ~Has(queue, "reset") /\ ~Has(queue, "started") /\ ~Has(queue, "repoint")
          /\ queue' = queue /\ InLoop
        BY <1>4, EmptyQueue DEF OpenWallet, AtStartScreen
    <2>2. SessionInv'
        BY <1>4, <2>1
           DEF OpenWallet, Start, SessionInv
    <2>3. TeardownInv'
        BY <1>4, <2>1
           DEF OpenWallet, InLoop, TeardownInv, Teardown, Pending
    <2>4. SettledInv'
        BY <1>4, <2>1
           DEF OpenWallet, Start, InLoop, SessionInv, TeardownInv, Teardown,
               SettledInv, Quiet, Pending, OnItsWayOut
    <2>5. ShownInv'
        BY <1>4, <2>1
           DEF OpenWallet, Start, ShownInv, Pending
    <2>6. PatientInv'
        BY <1>4, <2>1
           DEF OpenWallet, Start, AtStartScreen, InLoop, SessionInv,
               PatientInv, Pending
    <2> QED
        BY <2>1, <2>2, <2>3, <2>4, <2>5, <2>6
<1>5. CASE Lock
    <2>1. screen' = "locked" /\ linked' /\ InLoop /\ screen = "main"
          /\ queue' = Append(queue, "discard")
          /\ UNCHANGED <<disk, sess, conns, thread, aux>>
        BY <1>5 DEF Lock, LoadStartScreen, DiscardMainPage
    <2>5. ~Has(queue, "reset")
        BY <2>1 DEF SessionInv, TeardownInv, Teardown, Pending
    <2>6. /\ \A x \in {"reset", "started", "repoint"} :
                Has(queue', x) <=> Has(queue, x)
          /\ OneReset(queue') /\ Ordered(queue') /\ DiscardsFirst(queue')
        BY <2>1, <2>5, NoReset, PostOne DEF TypeOK, Events
    <2>2. SessionInv' /\ TeardownInv'
        BY <1>5, <2>1, <2>6
           DEF disk, sess, conns, aux, SessionInv, TeardownInv, Teardown,
               Pending
    <2>3. SettledInv'
        BY <1>5, <2>1, <2>6
           DEF sess, conns, thread, aux, SettledInv, Quiet, Pending,
               OnItsWayOut
    <2>4. ShownInv' /\ PatientInv'
        BY <1>5, <2>1, <2>6
           DEF sess, aux, ShownInv, Pending, PatientInv
    <2> QED
        BY <2>1, <2>2, <2>3, <2>4
<1>6. CASE Unlock
    <2>1. SessionInv' /\ TeardownInv'
        BY <1>6
           DEF Unlock, disk, sess, conns, aux, SessionInv, TeardownInv,
               Teardown, Pending
    <2>2. SettledInv'
        BY <1>6
           DEF Unlock, sess, conns, thread, aux, SettledInv, Quiet, Pending,
               OnItsWayOut
    <2>3. ShownInv' /\ PatientInv'
        BY <1>6
           DEF Unlock, sess, aux, ShownInv, Pending, PatientInv
    <2> QED
        BY <2>1, <2>2, <2>3
<1>7. CASE Logout
    <2>1. dbs \in SUBSET Accounts /\ dbs' = dbs
        BY <1>7 DEF Logout, TypeOK, disk
    <2> QED
        BY <1>7, <2>1, PointInv DEF Logout
<1>8. ASSUME NEW run \in BOOLEAN, ApplyLocalNodeChanges(run)
      PROVE  SessionInv' /\ TeardownInv' /\ SettledInv' /\ ShownInv' /\ PatientInv'
    <2>1. /\ InLoop /\ screen = "main" /\ open
          /\ UNCHANGED <<dbs, page, sess, dconns, queue, aux>>
        BY <1>8 DEF ApplyLocalNodeChanges
    <2>2. ~removing /\ ~Teardown
        BY <2>1 DEF SessionInv, TeardownInv
    <2>3. SessionInv' /\ TeardownInv'
        BY <1>8, <2>1, <2>2
           DEF page, sess, aux, SessionInv, TeardownInv, Teardown, Pending
    <2>4. SettledInv'
        BY <1>8, <2>1, <2>2
           DEF Teardown, page, sess, aux, TypeOK, SettledInv, Quiet, Pending,
               OnItsWayOut
    <2>5. ShownInv' /\ PatientInv'
        BY <1>8, <2>1
           DEF page, sess, aux, ShownInv, Pending, PatientInv
    <2> QED
        BY <2>1, <2>2, <2>3, <2>4, <2>5
<1>9. CASE RemoveCurrentWallet
    <2>1. /\ InLoop /\ screen = "main" /\ open /\ ~removing
          /\ ~Teardown /\ dconns = 0 /\ queue \in Seq(Events)
          /\ removing' /\ open' = open /\ resetConns' = resetConns
          /\ screen' = "start" /\ linked' = TRUE /\ dconns' = dconns
          /\ fault' = fault /\ UNCHANGED thread
        BY <1>9 DEF RemoveCurrentWallet, LoadStartScreen, SessionInv,
                    TeardownInv, Teardown, TypeOK
    <2> DEFINE q == Append(queue, "discard")
    <2>2. /\ (queue' = q /\ pc' = "connect" /\ nsc' = 0 /\ stage = "running")
             \/ (/\ queue' = Append(q, "reset") /\ pc' = "loop"
                 /\ stage # "running" /\ nsc' = nsc)
          /\ settled' => (stage = "idle" /\ ~should)
                          \/ (stage = "running" /\ ~stop)
        BY <1>9, <2>1
           DEF RemoveCurrentWallet, InLoop, IsNodeRunning, DiscardMainPage
    <2>3. /\ OneReset(queue') /\ (settled' => Ordered(queue'))
          /\ DiscardsFirst(queue')
          /\ pc' = "connect" => ~Has(queue', "reset")
          /\ pc' = "loop" => Has(queue', "reset")
          /\ Has(queue', "repoint") <=> Has(queue, "repoint")
        <3>1. ~Has(queue, "reset") /\ Ordered(queue) /\ OneReset(queue)
            BY <2>1, NoReset DEF Teardown, Pending
        <3>5. /\ q \in Seq(Events)
              /\ \A x : Has(q, x) <=> Has(queue, x) \/ x = "discard"
            BY <2>1, PostOne DEF Events
        <3> HIDE DEF q
        <3>6. ~Has(q, "reset") /\ OneReset(q) /\ Ordered(q) /\ DiscardsFirst(q)
            BY <3>1, <3>5, NoReset
        <3>2. /\ OneReset(Append(q, "reset"))
              /\ Ordered(Append(q, "reset"))
              /\ DiscardsFirst(Append(q, "reset"))
              /\ \A x : Has(Append(q, "reset"), x)
                          <=> Has(q, x) \/ x = "reset"
            BY <3>5, <3>6, PostOne DEF Events
        <3>3. CASE queue' = q /\ pc' = "connect"
            BY <3>3, <3>5, <3>6
        <3>4. CASE queue' = Append(q, "reset") /\ pc' = "loop"
            BY <3>2, <3>4, <3>5
        <3> QED
            BY <2>2, <3>3, <3>4
    <2> HIDE DEF q
    <2>4. SessionInv'
        BY <1>9, <2>1
           DEF RemoveCurrentWallet, SessionInv
    <2>5. TeardownInv'
        BY <1>9, <2>1, <2>2, <2>3
           DEF InLoop, TeardownInv, Teardown, Pending
    <2>6. SettledInv'
        BY <1>9, <2>1, <2>2, <2>3
           DEF InLoop, thread, SettledInv, Quiet, Pending, OnItsWayOut
    <2>7. ShownInv' /\ PatientInv'
        BY <1>9, <2>1, <2>3
           DEF InLoop, ShownInv, Pending, PatientInv
    <2> QED
        BY <2>1, <2>2, <2>3, <2>4, <2>5, <2>6, <2>7
<1> QED
    BY <1>1, <1>2, <1>3, <1>4, <1>5, <1>6, <1>7, <1>8, <1>9 DEF User

LEMMA InvEventLoop ==
    ASSUME IInv, TypeOK', EventLoop
    PROVE  SessionInv' /\ TeardownInv' /\ SettledInv' /\ ShownInv' /\ PatientInv'
<1> USE DEF IInv
<1>1. CASE ConnectDestroyedNode
    <2>1. SessionInv'
        BY <1>1
           DEF ConnectDestroyedNode, page, sess, SessionInv
    <2>2. TeardownInv'
        BY <1>1
           DEF ConnectDestroyedNode, sess, TeardownInv, Teardown, Pending
    <2>3. SettledInv'
        BY <1>1, StopNodeTypes
           DEF ConnectDestroyedNode, TeardownInv, sess, SettledInv, Quiet,
               Pending, OnItsWayOut
    <2>4. ShownInv' /\ PatientInv'
        BY <1>1
           DEF ConnectDestroyedNode, disk, page, sess, ShownInv, Pending,
               PatientInv
    <2> QED
        BY <2>1, <2>2, <2>3, <2>4
<1>2. CASE OnStartedNode
    <2>1. /\ queue # << >> /\ queue \in Seq(Events) /\ queue' = Tail(queue)
          /\ Head(queue) = "started" /\ InLoop /\ nsc' = 0
          /\ UNCHANGED <<disk, page, sess, dconns, thread, pc, settled, patient>>
        BY <1>2 DEF OnStartedNode, Deliver, TypeOK
    <2>2. /\ OneReset(queue') /\ (Ordered(queue) => Ordered(queue'))
          /\ DiscardsFirst(queue')
          /\ \A x : Has(queue', x) => Has(queue, x)
          /\ Has(queue, "reset") => Has(queue', "reset")
          /\ Has(queue, "repoint") => Has(queue', "repoint")
          /\ Has(queue, "started")
        BY <2>1, TakeOne DEF TeardownInv
    <2>3. fault' = IF open THEN fault ELSE "startedNode"
        BY <1>2 DEF OnStartedNode
    <2>4. SessionInv'
        BY <1>2, <2>1
           DEF page, sess, SessionInv
    <2>5. TeardownInv'
        BY <1>2, <2>1, <2>2, <2>3
           DEF InLoop, sess, TeardownInv, Teardown, Pending
    <2>6. SettledInv'
        BY <1>2, <2>1, <2>2, <2>3
           DEF InLoop, sess, thread, TeardownInv, SettledInv, Quiet, Pending,
               OnItsWayOut
    <2>7. ShownInv' /\ PatientInv'
        BY <1>2, <2>1, <2>2, <2>3
           DEF InLoop, disk, page, sess, ShownInv, Pending, PatientInv
    <2> QED
        BY <2>1, <2>2, <2>3, <2>4, <2>5, <2>6, <2>7
<1>3. CASE OnFailedToStartNode
    <2>1. /\ queue # << >> /\ queue \in Seq(Events) /\ queue' = Tail(queue)
          /\ Head(queue) = "failed" /\ InLoop /\ nsc' = 0
          /\ UNCHANGED <<disk, page, sess, dconns, thread, pc, settled, patient>>
        BY <1>3 DEF OnFailedToStartNode, Deliver, TypeOK, aux
    <2>2. /\ OneReset(queue') /\ (Ordered(queue) => Ordered(queue'))
          /\ DiscardsFirst(queue')
          /\ \A x : Has(queue', x) => Has(queue, x)
          /\ Has(queue, "reset") => Has(queue', "reset")
          /\ Has(queue, "repoint") => Has(queue', "repoint")
          /\ Has(queue, "failed")
        BY <2>1, TakeOne DEF TeardownInv
    <2>3. fault' = fault
        BY <1>3 DEF OnFailedToStartNode, aux
    <2>4. SessionInv'
        BY <1>3, <2>1
           DEF page, sess, SessionInv
    <2>5. TeardownInv'
        BY <1>3, <2>1, <2>2, <2>3
           DEF InLoop, sess, TeardownInv, Teardown, Pending
    <2>6. SettledInv'
        BY <1>3, <2>1, <2>2, <2>3
           DEF InLoop, sess, thread, TeardownInv, SettledInv, Quiet, Pending,
               OnItsWayOut
    <2>7. ShownInv' /\ PatientInv'
        BY <1>3, <2>1, <2>2, <2>3
           DEF InLoop, disk, page, sess, ShownInv, Pending, PatientInv
    <2> QED
        BY <2>1, <2>2, <2>3, <2>4, <2>5, <2>6, <2>7
<1>4. CASE OnResetWallet
    <2>1. /\ queue # << >> /\ queue \in Seq(Events) /\ Tail(queue) \in Seq(Events)
          /\ Head(queue) = "reset" /\ Has(queue, "reset") /\ InLoop
          /\ OneReset(Tail(queue)) /\ ~Has(Tail(queue), "reset")
          /\ DiscardsFirst(Tail(queue)) /\ ~Has(Tail(queue), "discard")
          /\ \A x : Has(Tail(queue), x) => Has(queue, x)
          /\ settled => Ordered(Tail(queue)) /\ ~Has(Tail(queue), "started")
        BY <1>4, TakeOne DEF OnResetWallet, Deliver, TypeOK, TeardownInv,
                             SettledInv
    <2>2. /\ open /\ removing /\ linked /\ screen = "start" /\ dconns = 0
          /\ pc = "loop"
        BY <2>1 DEF SessionInv, TeardownInv, Teardown, Pending, InLoop
    <2>3. /\ ~open' /\ ~removing' /\ resetConns' = 0 /\ fault' = fault
          /\ queue' = Append(Tail(queue), "repoint")
          /\ UNCHANGED <<screen, linked, conns, thread, pc, settled, patient>>
        BY <1>4, <2>1, <2>2 DEF OnResetWallet, ManagersHeld
    <2>4. /\ OneReset(queue') /\ DiscardsFirst(queue') /\ ~Has(queue', "reset") /\ Has(queue', "repoint")
          /\ settled => Ordered(queue') /\ ~Has(queue', "started")
        BY <2>1, <2>3, PostOne DEF Events
    <2>5. SessionInv'
        BY <1>4, <2>2, <2>3
           DEF SessionInv
    <2>6. TeardownInv'
        BY <1>4, <2>2, <2>3, <2>4
           DEF conns, InLoop, TeardownInv, Teardown, Pending
    <2>7. SettledInv'
        BY <1>4, <2>1, <2>2, <2>3, <2>4
           DEF conns, thread, InLoop, SettledInv, Quiet, Pending, OnItsWayOut
    <2>8. ShownInv' /\ PatientInv'
        BY <1>4, <2>1, <2>2, <2>3, <2>4
           DEF InLoop, ShownInv, Pending, PatientInv
    <2> QED
        BY <2>1, <2>2, <2>3, <2>4, <2>5, <2>6, <2>7, <2>8
<1>5. CASE OnRepoint
    <2> DEFINE accounts == IF listed = {} THEN dbs ELSE listed
    <2>1. /\ accounts \in SUBSET Accounts /\ dbs' = dbs /\ screen' = screen
          /\ InLoop /\ PointAtFirst(accounts, Tail(queue))
          /\ accounts = {} => dbs = {}
        BY <1>5 DEF OnRepoint, Deliver, TypeOK, disk
    <2>2. patient' => screen = "start"
        BY <1>5, TakeOne DEF OnRepoint, Deliver, TypeOK, PatientInv, Pending
    <2> QED
        BY <2>1, <2>2, PointInv
<1>6. CASE OnDiscard
    <2>1. /\ queue # << >> /\ queue \in Seq(Events) /\ queue' = Tail(queue)
          /\ Head(queue) = "discard" /\ InLoop
          /\ UNCHANGED <<disk, page, sess, conns, thread, aux>>
        BY <1>6 DEF OnDiscard, Deliver, TypeOK
    <2>2. /\ OneReset(queue') /\ (Ordered(queue) => Ordered(queue'))
          /\ DiscardsFirst(queue')
          /\ \A x \in {"reset", "started", "repoint"} :
                Has(queue', x) <=> Has(queue, x)
        BY <2>1, TakeOne DEF TeardownInv
    <2>3. SessionInv' /\ TeardownInv'
        BY <2>1, <2>2
           DEF page, sess, conns, aux, SessionInv, TeardownInv, Teardown,
               Pending
    <2>4. SettledInv'
        BY <2>1, <2>2
           DEF sess, conns, thread, aux, SettledInv, Quiet, Pending,
               OnItsWayOut
    <2>5. ShownInv' /\ PatientInv'
        BY <2>1, <2>2
           DEF disk, page, sess, aux, ShownInv, Pending, PatientInv
    <2> QED
        BY <2>3, <2>4, <2>5
<1> QED
    BY <1>1, <1>2, <1>3, <1>4, <1>5, <1>6 DEF EventLoop

LEMMA InvNodeThread ==
    ASSUME IInv, TypeOK', NodeThread
    PROVE  SessionInv' /\ TeardownInv' /\ SettledInv' /\ ShownInv' /\ PatientInv'
<1> USE DEF IInv
<1>1. CASE NodeCreated
    <2>1. SessionInv' /\ TeardownInv'
        BY <1>1
           DEF NodeCreated, page, sess, conns, aux, SessionInv, TeardownInv,
               Teardown, Pending
    <2>2. SettledInv'
        BY <1>1
           DEF NodeCreated, sess, conns, aux, TeardownInv, SettledInv, Quiet,
               Pending, OnItsWayOut
    <2>3. ShownInv' /\ PatientInv'
        BY <1>1
           DEF NodeCreated, disk, page, sess, aux, ShownInv, Pending,
               PatientInv
    <2> QED
        BY <2>1, <2>2, <2>3
<1>2. CASE NodeStarted
    <2>1. /\ queue' = Post("started") /\ OneReset(queue')
          /\ DiscardsFirst(queue')
          /\ \A x : Has(queue', x) <=> Has(queue, x) \/ (nsc > 0 /\ x = "started")
          /\ Ordered(queue) /\ ~Has(queue, "reset")
                => Ordered(queue')
        BY <1>2, PostSignal DEF NodeStarted, TeardownInv, Events
    <2>2. SessionInv'
        BY <1>2
           DEF NodeStarted, page, sess, SessionInv
    <2>3. TeardownInv'
        BY <1>2, <2>1
           DEF NodeStarted, sess, conns, aux, TeardownInv, Teardown, Pending
    <2>4. SettledInv'
        BY <1>2, <2>1
           DEF NodeStarted, sess, conns, aux, SessionInv, TeardownInv, TypeOK,
               SettledInv, Quiet, Pending, OnItsWayOut
    <2>5. ShownInv' /\ PatientInv'
        BY <1>2, <2>1
           DEF NodeStarted, disk, page, sess, aux, ShownInv, Pending,
               PatientInv
    <2> QED
        BY <2>1, <2>2, <2>3, <2>4, <2>5
<1>3. CASE NodeFailedToStart
    <2>1. /\ queue' = Post("failed") /\ OneReset(queue')
          /\ DiscardsFirst(queue')
          /\ \A x : Has(queue', x) <=> Has(queue, x) \/ (nsc > 0 /\ x = "failed")
          /\ Ordered(queue)
                => Ordered(queue')
        BY <1>3, PostSignal DEF NodeFailedToStart, TeardownInv, Events
    <2>2. SessionInv'
        BY <1>3
           DEF NodeFailedToStart, page, sess, SessionInv
    <2>3. TeardownInv'
        BY <1>3, <2>1
           DEF NodeFailedToStart, sess, conns, aux, TeardownInv, Teardown,
               Pending
    <2>4. SettledInv'
        BY <1>3, <2>1
           DEF NodeFailedToStart, sess, conns, aux, SessionInv, TeardownInv,
               TypeOK, SettledInv, Quiet, Pending, OnItsWayOut
    <2>5. ShownInv' /\ PatientInv'
        BY <1>3, <2>1
           DEF NodeFailedToStart, disk, page, sess, aux, ShownInv, Pending,
               PatientInv
    <2> QED
        BY <2>1, <2>2, <2>3, <2>4, <2>5
<1>4. CASE NodeFailedToSync
    <2>1. /\ queue' = Post("failed") /\ OneReset(queue')
          /\ DiscardsFirst(queue')
          /\ \A x : Has(queue', x) <=> Has(queue, x) \/ (nsc > 0 /\ x = "failed")
          /\ Ordered(queue)
                => Ordered(queue')
        BY <1>4, PostSignal DEF NodeFailedToSync, TeardownInv, Events
    <2>2. SessionInv'
        BY <1>4
           DEF NodeFailedToSync, page, sess, thread, SessionInv
    <2>3. TeardownInv'
        BY <1>4, <2>1
           DEF NodeFailedToSync, sess, conns, aux, TeardownInv, Teardown,
               Pending
    <2>4. SettledInv'
        BY <1>4, <2>1
           DEF NodeFailedToSync, sess, conns, aux, SessionInv, TeardownInv,
               TypeOK, thread, SettledInv, Quiet, Pending, OnItsWayOut
    <2>5. ShownInv' /\ PatientInv'
        BY <1>4, <2>1
           DEF NodeFailedToSync, disk, page, sess, aux, ShownInv, Pending,
               PatientInv
    <2> QED
        BY <2>1, <2>2, <2>3, <2>4, <2>5
<1>5. CASE NodeStopped
    <2>1. SessionInv' /\ TeardownInv'
        BY <1>5
           DEF NodeStopped, page, sess, conns, aux, SessionInv, TeardownInv,
               Teardown, Pending
    <2>2. SettledInv'
        BY <1>5
           DEF NodeStopped, sess, conns, aux, TeardownInv, SettledInv, Quiet,
               Pending, OnItsWayOut
    <2>3. ShownInv' /\ PatientInv'
        BY <1>5
           DEF NodeStopped, disk, page, sess, aux, ShownInv, Pending,
               PatientInv
    <2> QED
        BY <2>1, <2>2, <2>3
<1>6. CASE NodeDestroyed
    <2>1. dconns * resetConns = IF dconns = 1 THEN 1 ELSE 0
        <3>1. dconns = 1 => resetConns = 1
            BY DEF TeardownInv, Teardown, SessionInv
        <3>2. dconns \in {0, 1} /\ resetConns \in Nat
            BY DEF TeardownInv, TypeOK
        <3> QED
            BY <3>1, <3>2
    <2>2. /\ OneReset(queue') /\ DiscardsFirst(queue')
          /\ \A x : x # "reset" => (Has(queue', x) <=> Has(queue, x))
          /\ Has(queue', "reset") <=> Has(queue, "reset") \/ dconns = 1
          /\ Ordered(queue) => Ordered(queue')
        BY <1>6, <2>1, PostMany, SMTT(60)
           DEF NodeDestroyed, TypeOK, TeardownInv, Pending, Events
    <2>3. /\ stage = "destructing" /\ stage' = "idle" /\ stop' = FALSE /\ dconns' = 0
          /\ UNCHANGED <<disk, page, sess, nsc, should, aux>>
        BY <1>6 DEF NodeDestroyed
    <2>4. SessionInv'
        BY <1>6, <2>3
           DEF page, sess, SessionInv
    <2>5. TeardownInv'
        BY <1>6, <2>2, <2>3
           DEF sess, aux, TeardownInv, Teardown, Pending
    <2>6. SettledInv'
        BY <1>6, <2>2, <2>3
           DEF sess, aux, TeardownInv, Teardown, SettledInv, Quiet, Pending,
               OnItsWayOut
    <2>7. ShownInv' /\ PatientInv'
        BY <1>6, <2>2, <2>3
           DEF disk, page, sess, aux, ShownInv, Pending, PatientInv
    <2> QED
        BY <2>1, <2>2, <2>3, <2>4, <2>5, <2>6, <2>7
<1> QED
    BY <1>1, <1>2, <1>3, <1>4, <1>5, <1>6 DEF NodeThread

LEMMA StepInv == IInv /\ [Next]_vars => IInv'
<1> SUFFICES ASSUME IInv, [Next]_vars
             PROVE  IInv'
    OBVIOUS
<1>1. TypeOK'
    BY TypeStep DEF IInv
<1>2. CASE Restart
    <2>1. /\ queue' = << >> /\ ~Has(queue', "reset") /\ ~Has(queue', "started")
          /\ ~Has(queue', "repoint") /\ OneReset(queue') /\ Ordered(queue')
          /\ DiscardsFirst(queue')
        BY <1>2, EmptyQueue DEF Restart
    <2>2. SessionInv' /\ TeardownInv' /\ PatientInv'
        BY <1>2, <2>1 DEF Restart, LoadStartScreen, SessionInv, TeardownInv,
                          PatientInv, Teardown, Pending
    <2>3. SettledInv'
        BY <1>2, <2>1 DEF Restart, SettledInv, Pending, Quiet
    <2>4. ShownInv'
        <3>1. dbs' = dbs /\ acct' = 0
              /\ shown' = IF dbs = {} THEN NoAccount ELSE First(dbs)
            BY <1>2 DEF Restart, LoadStartScreen, disk
        <3>2. 0 \in dbs => First(dbs) = 0
            BY FirstZero DEF IInv, TypeOK
        <3> QED
            BY <3>1, <3>2 DEF ShownInv
    <2> QED
        BY <1>1, <2>2, <2>3, <2>4 DEF IInv
<1>3. CASE UNCHANGED vars
    BY <1>1, <1>3
       DEF IInv, SessionInv, TeardownInv, SettledInv, ShownInv, PatientInv,
           Teardown, Pending, Quiet, OnItsWayOut, vars, disk, page, sess,
           conns, thread, aux
<1> QED
    BY <1>1, <1>2, <1>3, InvUser, InvEventLoop, InvNodeThread DEF Next, IInv

LEMMA Invariance == Spec => []IInv
BY InitInv, StepInv, PTL DEF Spec

-------------------------------------------------------------------------------
(* The theorems. *)

\* Whatever replaced AppModel in the meantime, a teardown that is still to come
\* finds the session it was asked to tear down (resetWallet, onResetWallet).
THEOREM TeardownFindsSessionAlways == Spec => []TeardownFindsSession
<1>1. IInv => TeardownFindsSession
    BY DEF IInv, SessionInv, TeardownInv, TeardownFindsSession
<1> QED
    BY <1>1, Invariance, PTL

\* Whenever onResetWallet runs, whichever way its signal came, the database,
\* the wallet and the asset managers exist, and no view model of a former main
\* page refers to a manager any more (use_count() == 1).
THEOREM ResetWalletAssertsHold == Spec => []ResetWalletAsserts
<1>1. IInv => ResetWalletAsserts
    BY DEF IInv, TeardownInv, ResetWalletAsserts
<1> QED
    BY <1>1, Invariance, PTL

\* A removal requested while the node thread was at rest is never lost
\* between isNodeRunning, the lambda and destroyedNode.
THEOREM RemovalNeverLost == Spec => []RemovalOnItsWay
<1>1. IInv => RemovalOnItsWay
    BY DEF IInv, SettledInv, RemovalOnItsWay
<1> QED
    BY <1>1, Invariance, PTL

\* onStartedNode finds its wallet unless a removal was requested while the
\* node was starting or stopping.
THEOREM StartedNodeFindsWallet == Spec => []StartedFindsWallet
<1>1. IInv => StartedFindsWallet
    BY DEF IInv, SettledInv, StartedFindsWallet
<1> QED
    BY <1>1, Invariance, PTL

\* A user who leaves the start screen alone during a removal meets no failed
\* assertion and never has the main page without its wallet.
THEOREM PatienceIsSafe == Spec => []PatientUserIsSafe
<1>1. IInv => PatientUserIsSafe
    BY DEF IInv, TypeOK, Faults, TeardownInv, SettledInv, PatientInv,
           PatientUserIsSafe
<1> QED
    BY <1>1, Invariance, PTL

\* The wallet that opens is the one the start page shows, unless a failed
\* creation left AppModel at another account (openWallet).
THEOREM OpensWhatIsShown == Spec => OpensShownAccount
<1>1. IInv /\ [Next]_vars
        => [~open /\ open' /\ dbs' = dbs => stale \/ shown = acct]_vars
    <2> SUFFICES ASSUME IInv, Next, ~open, open', dbs' = dbs
                 PROVE  stale \/ shown = acct
        OBVIOUS
    <2>1. ~CreateWallet
        BY NewAccountIndexIn DEF CreateWallet
    <2>2. OpenWallet
        BY <2>1
           DEF Next, User, EventLoop, NodeThread, Restart, SelectAccount,
               CreateWalletFails, Lock, Unlock, Logout, ResetInstance,
               PointAtFirst, ApplyLocalNodeChanges, RemoveCurrentWallet,
               ConnectDestroyedNode, OnStartedNode, OnFailedToStartNode,
               OnResetWallet, OnRepoint, OnDiscard, NodeCreated, NodeStarted,
               NodeFailedToStart, NodeFailedToSync, NodeStopped,
               NodeDestroyed, sess, page
    <2>3. ~Pending("repoint")
        BY <2>2, EmptyQueue DEF OpenWallet, Pending
    <2> QED
        BY <2>2, <2>3 DEF IInv, ShownInv, OpenWallet
<1> QED
    BY <1>1, Invariance, PTL DEF Spec, OpensShownAccount

-------------------------------------------------------------------------------
(* The session implements WalletLifecycle. *)

LEMMA LifecycleInit == Init => Lifecycle!Init
BY TypeInit DEF Init, TypeOK, Lifecycle!Init

\* What a step does to the disk and to the open wallet.
LEMMA LifecycleUser ==
    ASSUME IInv, User
    PROVE  \/ Lifecycle!Next
           \/ UNCHANGED Lifecycle!vars
<1>1. ASSUME NEW a \in Accounts, SelectAccount(a)
      PROVE  Lifecycle!Close
    BY <1>1 DEF SelectAccount, ResetInstance, disk, Lifecycle!Close
<1>2. ASSUME CreateWallet
      PROVE  Lifecycle!Create(NewAccountIndex)
    BY <1>2, NewAccountIndexIn
       DEF CreateWallet, Start, ReplaceInstance, Lifecycle!Create
<1>3. ASSUME CreateWalletFails
      PROVE  Lifecycle!Create(NewAccountIndex) \/ Lifecycle!Close
    BY <1>3, NewAccountIndexIn
       DEF CreateWalletFails, ResetInstance, Lifecycle!Create, Lifecycle!Close
<1>4. ASSUME OpenWallet
      PROVE  Lifecycle!Open(acct) \/ UNCHANGED Lifecycle!vars
    BY <1>4 DEF OpenWallet, Start, disk, Lifecycle!Open, Lifecycle!vars
<1>5. ASSUME Logout
      PROVE  Lifecycle!Close
    BY <1>5 DEF Logout, PointAtFirst, ResetInstance, disk, Lifecycle!Close
<1>6. ASSUME \/ Lock \/ Unlock \/ RemoveCurrentWallet
             \/ \E run \in BOOLEAN : ApplyLocalNodeChanges(run)
      PROVE  UNCHANGED Lifecycle!vars
    <2>1. Lock \/ Unlock => UNCHANGED <<dbs, acct, open>>
        BY DEF Lock, Unlock, disk, sess
    <2>2. RemoveCurrentWallet => UNCHANGED <<dbs, acct, open>>
        BY DEF RemoveCurrentWallet, disk
    <2>3. ASSUME NEW run \in BOOLEAN, ApplyLocalNodeChanges(run)
          PROVE  UNCHANGED <<dbs, acct, open>>
        BY <2>3 DEF ApplyLocalNodeChanges, sess
    <2>4. UNCHANGED <<dbs, acct, open>>
        BY <1>6, <2>1, <2>2, <2>3
    <2> QED
        BY <2>4 DEF Lifecycle!vars
<1>7. NewAccountIndex \in Accounts \/ ~(CreateWallet \/ CreateWalletFails)
    BY NewAccountIndexIn DEF CreateWallet, CreateWalletFails
<1>8. acct \in Accounts
    BY DEF IInv, TypeOK
<1> QED
    BY <1>1, <1>2, <1>3, <1>4, <1>5, <1>6, <1>7, <1>8
       DEF User, Lifecycle!Next

LEMMA LifecycleOther ==
    ASSUME IInv, Restart \/ EventLoop \/ NodeThread
    PROVE  \/ Lifecycle!Next
           \/ UNCHANGED Lifecycle!vars
<1>1. ASSUME Restart
      PROVE  Lifecycle!Close
    BY <1>1 DEF Restart, disk, Lifecycle!Close
<1>2. ASSUME OnResetWallet
      PROVE  Lifecycle!Remove \/ Lifecycle!Close \/ UNCHANGED Lifecycle!vars
    <2>1. acct \in Accounts /\ acct # NoAccount
        BY AccountsAssumption DEF IInv, TypeOK
    <2>2. CASE open /\ ~open'
        <3>1. acct' = acct /\ (dbs' = dbs \ {acct} \/ dbs' = dbs)
            BY <1>2, <2>2 DEF OnResetWallet
        <3> QED
            BY <2>1, <2>2, <3>1 DEF Lifecycle!Remove, Lifecycle!Close
    <2>3. CASE ~open \/ open'
        <3>1. UNCHANGED <<acct, open, dbs>>
            BY <1>2, <2>3 DEF OnResetWallet
        <3> QED
            BY <3>1 DEF Lifecycle!vars
    <2> QED
        BY <2>2, <2>3
<1>3. ASSUME OnRepoint
      PROVE  Lifecycle!Close
    BY <1>3 DEF OnRepoint, PointAtFirst, ResetInstance, disk, Lifecycle!Close
<1>4. ASSUME \/ ConnectDestroyedNode \/ OnStartedNode \/ OnFailedToStartNode
             \/ OnDiscard \/ NodeThread
      PROVE  UNCHANGED Lifecycle!vars
    <2>1. ConnectDestroyedNode => UNCHANGED <<dbs, sess>>
        BY DEF ConnectDestroyedNode, disk
    <2>2. OnStartedNode \/ OnFailedToStartNode \/ OnDiscard
            => UNCHANGED <<dbs, sess>>
        BY DEF OnStartedNode, OnFailedToStartNode, OnDiscard, disk
    <2>3. NodeThread => UNCHANGED <<dbs, sess>>
        BY DEF NodeThread, NodeCreated, NodeStarted, NodeFailedToStart,
               NodeFailedToSync, NodeStopped, NodeDestroyed, disk
    <2>4. UNCHANGED <<dbs, sess>>
        BY <1>4, <2>1, <2>2, <2>3
    <2> QED
        BY <2>4 DEF sess, Lifecycle!vars
<1> QED
    BY <1>1, <1>2, <1>3, <1>4 DEF EventLoop, Lifecycle!Next

\* Whatever the pages, the event queue and the node thread do, at most one
\* wallet is open, no database is overwritten, and only the open one goes.
THEOREM ImplementsLifecycle == Spec => LifecycleSpec
<1>1. IInv /\ [Next]_vars => [Lifecycle!Next]_(Lifecycle!vars)
    <2>1. ASSUME IInv, UNCHANGED vars
          PROVE  UNCHANGED Lifecycle!vars
        BY <2>1 DEF vars, disk, sess, Lifecycle!vars
    <2> QED
        BY <2>1, LifecycleUser, LifecycleOther DEF Next
<1> QED
    BY <1>1, LifecycleInit, Invariance, PTL
       DEF Spec, LifecycleSpec, Lifecycle!Spec
===============================================================================
