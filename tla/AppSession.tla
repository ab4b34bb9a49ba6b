------------------------------ MODULE AppSession ------------------------------
(***************************************************************************)
(* The life of a wallet session in the Beam desktop wallet: the process-   *)
(* wide AppModel (ui/model/app_model.cpp) with its event loop, the node    *)
(* thread behind NodeModel (ui/model/node_model.cpp), and the start screen *)
(* (ui/viewmodel/start_view.cpp) that creates, opens and selects wallets.  *)
(*                                                                         *)
(* Three actors interleave: the user (through the QML pages), the main     *)
(* thread that delivers posted events in order, and the node thread.  A    *)
(* failed assertion stops the process: `fault' names it.                   *)
(***************************************************************************)
EXTENDS Naturals, Sequences, FiniteSets

CONSTANTS
    Accounts,      (* account indices: the folders Account1, Account2, ... *)
    NoAccount,     (* "nothing": no account shown, no wallet open          *)
    WipeMayFail,   (* TRUE: deleting the account directory may fail        *)
    MaxConns,      (* bound: connection groups held in m_nsc               *)
    MaxQueue       (* bound: posted events waiting in the main thread      *)

ASSUME AccountsAssumption ==
    /\ Accounts \subseteq Nat
    /\ 0 \in Accounts
    /\ NoAccount \notin Accounts
    \* the folders are numbered, so any set of them has a first one
    /\ \A S \in SUBSET Accounts :
          S # {} => \E a \in S : \A b \in S : a <= b

ASSUME BoundsAssumption ==
    /\ WipeMayFail \in BOOLEAN
    /\ MaxConns \in Nat
    /\ MaxQueue \in Nat

VARIABLES
    \* the disk
    dbs,           (* accounts whose folder holds a wallet database        *)
    runLocal,      (* settings.ini of each account: run the local node     *)
    \* the start screen and its StartViewModel
    screen,        (* the page tree loaded: "start", "locked" or "main"    *)
    listed,        (* m_accounts: the accounts found by the last scan      *)
    shown,         (* the account at position m_accountIndex of that list  *)
    linked,        (* walletRemoved of this AppModel reaches the screen    *)
    stale,         (* a creation failed after it had switched the account  *)
    \* the AppModel instance
    acct,          (* the account its settings point to                    *)
    open,          (* m_db, m_wallet and the asset managers exist          *)
    removing,      (* m_removeAccount                                      *)
    resetConns,    (* m_walletConnections: walletReset -> onResetWallet    *)
    nsc,           (* m_nsc: groups of node-starting connections           *)
    dconns,        (* destroyedNode lambdas of resetWallet                 *)
    queue,         (* events posted to the main thread                     *)
    pc,            (* "loop", or "connect": inside resetWallet             *)
    settled,       (* history: the node thread was at rest when the        *)
                   (* removal read isNodeRunning                           *)
    patient,       (* history: the user has left the start screen alone    *)
                   (* while a removal was pending                          *)
    fault,         (* the assertion that failed, or "none"                 *)
    \* the node thread (external: beam::NodeClient)
    stage,         (* "idle", "starting", "running", "destructing"         *)
    should,        (* it was asked to run a node                           *)
    stop           (* its reactor was told to stop                         *)

disk   == <<dbs, runLocal>>
page   == <<screen, listed, shown, linked, stale>>
sess   == <<acct, open, removing, resetConns>>
conns  == <<nsc, dconns>>
thread == <<stage, should, stop>>
aux    == <<pc, settled, patient, fault>>
vars   == <<disk, page, sess, conns, queue, thread, aux>>

Events  == {"started", "failed", "reset", "repoint", "discard"}
Screens == {"start", "locked", "main"}
Stages  == {"idle", "starting", "running", "destructing"}
Faults  == {"none", "startedNode", "alreadyOpen", "resetWallet",
            "managersHeld"}
-------------------------------------------------------------------------------
(* Helpers *)

First(S) == CHOOSE a \in S : \A b \in S : a <= b

\* NodeClient::isNodeRunning, as the settings page and resetWallet use it.
IsNodeRunning == stage = "running"

NewAccountIndex_Count == Cardinality(dbs)  \* mutant: counts, ignores gaps

\* getNewAccountIndex: the first gap in the numbered folders.
NewAccountIndex == First(Accounts \ dbs)

\* A signal of the node thread is posted once per live connection group.
Post(ev) == queue \o [i \in 1..nsc |-> ev]

CanPost == Len(queue) + nsc <= MaxQueue

Has(q, ev) == \E i \in 1..Len(q) : q[i] = ev
Pending(ev) == Has(queue, ev)

Bounded == Len(queue) < MaxQueue

\* The view models of the main page refer to the asset managers until its
\* deferred deletion has been delivered.
ManagersHeld(waiting) == screen = "main" \/ Has(waiting, "discard")

\* What is posted to the QML pages and to the StartViewModel survives AppModel.
Survivors(waiting) ==
    LET calls == IF Has(waiting, "repoint") THEN <<"repoint">> ELSE <<>>
    IN  IF Has(waiting, "discard") THEN Append(calls, "discard") ELSE calls

\* The loader replaces the main page, which is deleted later.
DiscardMainPage(posted) == queue' = Append(posted, "discard")

\* StartViewModel is constructed and scans the disk.
LoadStartScreen(kind) ==
    /\ screen' = kind
    /\ listed' = dbs
    /\ shown'  = IF dbs = {} THEN NoAccount ELSE First(dbs)
    /\ linked' = TRUE
    /\ stale'  = FALSE

\* Mutant: the posted events outlive the instance they were posted to.
ReplaceInstance_KeepsEvents(a, waiting) ==
    /\ acct'     = a
    /\ removing' = FALSE
    /\ dconns'   = 0
    /\ queue'    = waiting
    /\ stage'    = "idle"
    /\ stop'     = FALSE
    /\ settled'  = TRUE
    /\ linked'   = FALSE
    /\ UNCHANGED <<pc, fault>>

\* AppModel::resetInstance up to what the new instance then opens: the old
\* instance joins its node thread and takes the events posted to it along.
ReplaceInstance(a, waiting) ==
    /\ acct'     = a
    /\ removing' = FALSE
    /\ dconns'   = 0
    /\ queue'    = Survivors(waiting)
    /\ stage'    = "idle"
    /\ stop'     = FALSE
    /\ settled'  = TRUE
    /\ linked'   = FALSE
    /\ UNCHANGED <<pc, fault>>

ResetInstance(a, waiting) ==
    /\ ReplaceInstance(a, waiting)
    /\ open'       = FALSE
    /\ resetConns' = 0
    /\ nsc'        = 0
    /\ should'     = FALSE

\* Mutant: walletReset is never connected to onResetWallet.
Start_NoResetConn(resets, groups, asked, local) ==
    /\ open'       = TRUE
    /\ resetConns' = resets
    /\ nsc'        = IF local THEN groups + 1 ELSE groups
    /\ should'     = (asked \/ local)

\* AppModel::start on top of the given connections and node request.
Start(resets, groups, asked, local) ==
    /\ open'       = TRUE
    /\ resetConns' = resets + 1
    /\ nsc'        = IF local THEN groups + 1 ELSE groups
    /\ should'     = (asked \/ local)

\* NodeClient::stopNode.
StopNode ==
    /\ should' = FALSE
    /\ stop'   = (stage \in {"starting", "running"})
    /\ UNCHANGED stage
-------------------------------------------------------------------------------
(* The process starts; AppModel points at account 0, the start page loads. *)

Init ==
    /\ dbs \in SUBSET Accounts
    /\ runLocal \in [Accounts -> BOOLEAN]
    /\ screen = "start"
    /\ listed = dbs
    /\ shown  = IF dbs = {} THEN NoAccount ELSE First(dbs)
    /\ linked = TRUE
    /\ stale  = FALSE
    /\ acct = 0
    /\ open = FALSE /\ removing = FALSE /\ resetConns = 0
    /\ nsc = 0 /\ dconns = 0 /\ queue = <<>>
    /\ stage = "idle" /\ should = FALSE /\ stop = FALSE
    /\ pc = "loop" /\ settled = TRUE /\ patient = TRUE /\ fault = "none"

\* The process ends, by choice or by a failed assertion, and is started again.
Restart ==
    /\ LoadStartScreen("start")
    /\ acct' = 0
    /\ open' = FALSE /\ removing' = FALSE /\ resetConns' = 0
    /\ nsc' = 0 /\ dconns' = 0 /\ queue' = <<>>
    /\ stage' = "idle" /\ should' = FALSE /\ stop' = FALSE
    /\ pc' = "loop" /\ settled' = TRUE /\ patient' = TRUE /\ fault' = "none"
    /\ UNCHANGED disk
-------------------------------------------------------------------------------
(* The user, through the QML pages.  The main thread is in its event loop. *)

InLoop == pc = "loop" /\ fault = "none"

AtStartScreen ==
    /\ InLoop
    /\ screen \in {"start", "locked"}
    /\ patient' = (patient /\ ~removing /\ ~Pending("repoint"))

\* Mutant: no fallback to account 0 when the list is empty.
PointAtFirst_NoFallback(accounts, waiting) ==
    /\ listed' = accounts
    /\ shown'  = IF accounts = {} THEN NoAccount ELSE First(accounts)
    /\ stale'  = FALSE
    /\ ResetInstance(IF accounts = {} THEN NoAccount ELSE First(accounts),
                     waiting)

\* StartViewModel::setCurrentAccountIndexForced(0)
PointAtFirst(accounts, waiting) ==
    /\ listed' = accounts
    /\ shown'  = IF accounts = {} THEN NoAccount ELSE First(accounts)
    /\ stale'  = FALSE
    /\ ResetInstance(IF accounts = {} THEN 0 ELSE First(accounts), waiting)

\* Mutant: the position in the list is taken for the account's index.
SelectAccount_ByPosition(a) ==
    /\ AtStartScreen
    /\ a \in listed
    /\ a # shown
    /\ shown' = a
    /\ stale' = FALSE
    /\ ResetInstance(Cardinality({b \in listed : b < a}), queue)
    /\ UNCHANGED <<disk, screen, listed>>

\* StartViewModel::setCurrentAccountIndex, from the account selector.
SelectAccount(a) ==
    /\ AtStartScreen
    /\ a \in listed
    /\ a # shown
    /\ shown' = a
    /\ stale' = FALSE
    /\ ResetInstance(a, queue)
    /\ UNCHANGED <<disk, screen, listed>>

\* StartViewModel::createWallet when everything succeeds.
CreateWallet ==
    /\ AtStartScreen
    /\ Accounts \ dbs # {}
    /\ ReplaceInstance(NewAccountIndex, queue)
    /\ runLocal' = [runLocal EXCEPT ![NewAccountIndex] = TRUE]
    /\ dbs' = dbs \cup {NewAccountIndex}
    /\ Start(0, 0, FALSE, TRUE)
    /\ screen' = "main"
    /\ UNCHANGED <<listed, shown, stale>>

\* createWalletThrow throws: before the database is written, or after, when
\* opening what it has just written fails.
CreateWalletFails ==
    /\ AtStartScreen
    /\ Accounts \ dbs # {}
    /\ ResetInstance(NewAccountIndex, queue)
    /\ runLocal' = [runLocal EXCEPT ![NewAccountIndex] = TRUE]
    /\ dbs' \in {dbs, dbs \cup {NewAccountIndex}}
    /\ stale' = TRUE
    /\ UNCHANGED <<screen, listed, shown>>

\* StartViewModel::openWallet.  DoOpenWallet first runs the event loop dry.
OpenWallet ==
    /\ AtStartScreen
    /\ screen = "start"
    /\ acct \in dbs
    /\ queue = <<>>
    /\ IF open
       THEN /\ fault' = "alreadyOpen"
            /\ UNCHANGED <<open, resetConns, nsc, should, screen>>
       ELSE /\ Start(resetConns, nsc, should, runLocal[acct])
            /\ screen' = "main"
            /\ UNCHANGED fault
    /\ UNCHANGED <<disk, listed, shown, linked, stale, acct, removing,
                   dconns, queue, stage, stop, pc, settled>>

\* The inactivity timer or the lock button: MainViewModel::lockWallet.
Lock ==
    /\ InLoop
    /\ screen = "main"
    /\ Bounded
    /\ LoadStartScreen("locked")
    /\ DiscardMainPage(queue)
    /\ UNCHANGED <<disk, sess, conns, thread, aux>>

\* The locked page only checks the password of the open wallet.
Unlock ==
    /\ InLoop
    /\ screen = "locked"
    /\ open
    /\ screen' = "main"
    /\ UNCHANGED <<disk, listed, shown, linked, stale, sess, conns, queue,
                   thread, aux>>

\* The logout button: the start page loads with resetModel().
Logout ==
    /\ InLoop
    /\ screen = "main"
    /\ acct \in dbs
    /\ screen' = "start"
    /\ PointAtFirst(dbs, Append(queue, "discard"))
    /\ UNCHANGED <<disk, patient>>

\* SettingsViewModel::applyLocalNodeChanges, also after a mere port or peer
\* change: then startNode runs again on top of what is there.
ApplyLocalNodeChanges(run) ==
    /\ InLoop
    /\ screen = "main"
    /\ open
    /\ runLocal' = [runLocal EXCEPT ![acct] = run]
    /\ IF run
       THEN /\ nsc < MaxConns
            /\ nsc' = nsc + 1
            /\ should' = TRUE
            /\ UNCHANGED <<stage, stop>>
       ELSE /\ nsc' = 0
            /\ StopNode
    /\ UNCHANGED <<dbs, page, sess, dconns, queue, aux>>

\* Mutant: removeCurrentWallet is called before the main page is dropped.
RemoveCurrentWallet_PageLast ==
    /\ InLoop
    /\ screen = "main"
    /\ open
    /\ Bounded
    /\ LoadStartScreen("start")
    /\ removing' = TRUE
    /\ settled'  = \/ stage = "idle" /\ ~should
                   \/ stage = "running" /\ ~stop
    /\ IF IsNodeRunning
       THEN nsc' = 0 /\ pc'  = "connect" /\ DiscardMainPage(queue)
       ELSE DiscardMainPage(Append(queue, "reset")) /\ UNCHANGED <<nsc, pc>>
    /\ UNCHANGED <<disk, acct, open, resetConns, dconns, thread, patient,
                   fault>>

\* Remove wallet: the main page is dropped and the start page loads, then
\* removeCurrentWallet -> resetWallet reads isNodeRunning.
RemoveCurrentWallet ==
    /\ InLoop
    /\ screen = "main"
    /\ open
    /\ Bounded
    /\ LoadStartScreen("start")
    /\ removing' = TRUE
    /\ settled'  = \/ stage = "idle" /\ ~should
                   \/ stage = "running" /\ ~stop
    /\ IF IsNodeRunning
       THEN /\ nsc' = 0
            /\ pc'  = "connect"
            /\ DiscardMainPage(queue)
       ELSE /\ queue' = Append(Append(queue, "discard"), "reset")
            /\ UNCHANGED <<nsc, pc>>
    /\ UNCHANGED <<disk, acct, open, resetConns, dconns, thread, patient,
                   fault>>

\* Mutant: the lambda is connected but the node is not asked to stop.
ConnectDestroyedNode_NoStop ==
    /\ pc = "connect"
    /\ pc' = "loop"
    /\ dconns' = dconns + 1
    /\ UNCHANGED <<disk, page, sess, nsc, queue, thread, settled, patient,
                   fault>>

\* resetWallet goes on: it connects the lambda and asks the node to stop.
ConnectDestroyedNode ==
    /\ pc = "connect"
    /\ pc' = "loop"
    /\ dconns' = dconns + 1
    /\ StopNode
    /\ UNCHANGED <<disk, page, sess, nsc, queue, settled, patient, fault>>
-------------------------------------------------------------------------------
(* The main thread delivers the oldest posted event. *)

Deliver(ev) ==
    /\ InLoop
    /\ queue # <<>>
    /\ Head(queue) = ev

\* AppModel::onStartedNode; a started wallet client is left alone.
OnStartedNode ==
    /\ Deliver("started")
    /\ queue' = Tail(queue)
    /\ nsc'   = 0
    /\ fault' = IF open THEN fault ELSE "startedNode"
    /\ UNCHANGED <<disk, page, sess, dconns, thread, pc, settled, patient>>

\* AppModel::onFailedToStartNode; it checks m_wallet before it uses it.
OnFailedToStartNode ==
    /\ Deliver("failed")
    /\ queue' = Tail(queue)
    /\ nsc'   = 0
    /\ UNCHANGED <<disk, page, sess, dconns, thread, aux>>

\* AppModel::onResetWallet and, when it removed the account,
\* StartViewModel::onWalletRemoved.
OnResetWallet ==
    /\ Deliver("reset")
    /\ resetConns' = 0
    /\ IF ~open
       THEN /\ fault' = "resetWallet"
            /\ queue' = Tail(queue)
            /\ UNCHANGED <<open, dbs, removing, listed, shown>>
       ELSE IF ManagersHeld(Tail(queue))
       THEN /\ fault' = "managersHeld"
            /\ queue' = Tail(queue)
            /\ UNCHANGED <<open, dbs, removing, listed, shown>>
       ELSE /\ open' = FALSE
            /\ removing' = FALSE
            /\ \/ dbs' = dbs \ {acct}
               \/ WipeMayFail /\ dbs' = dbs
            /\ IF removing /\ linked
               THEN /\ queue'  = Append(Tail(queue), "repoint")
                    /\ listed' = dbs'
                    /\ shown'  = IF dbs' = {} THEN NoAccount ELSE First(dbs')
               ELSE /\ queue' = Tail(queue)
                    /\ UNCHANGED <<listed, shown>>
            /\ UNCHANGED fault
    /\ UNCHANGED <<runLocal, screen, linked, stale, acct, conns, thread, pc,
                   settled, patient>>

\* The call onWalletRemoved deferred: setCurrentAccountIndexForced(0), which
\* replaces AppModel under whatever page is loaded.  getAccounts scans the
\* disk again only if the list it holds is empty.
OnRepoint ==
    /\ Deliver("repoint")
    /\ PointAtFirst(IF listed = {} THEN dbs ELSE listed, Tail(queue))
    /\ UNCHANGED <<disk, screen, patient>>

\* The deferred deletion of a former main page.
OnDiscard ==
    /\ Deliver("discard")
    /\ queue' = Tail(queue)
    /\ UNCHANGED <<disk, page, sess, conns, thread, aux>>
-------------------------------------------------------------------------------
(* The node thread (external).  A node that is asked for is created and     *)
(* initialised, runs its reactor until told to stop, and is destroyed.      *)

NodeCreated ==
    /\ fault = "none"
    /\ stage = "idle"
    /\ should
    /\ stage' = "starting"
    /\ UNCHANGED <<disk, page, sess, conns, queue, should, stop, aux>>

NodeStarted ==
    /\ fault = "none"
    /\ stage = "starting"
    /\ CanPost
    /\ stage' = "running"
    /\ queue' = Post("started")
    /\ UNCHANGED <<disk, page, sess, conns, should, stop, aux>>

NodeFailedToStart ==
    /\ fault = "none"
    /\ stage = "starting"
    /\ CanPost
    /\ stage' = "destructing"
    /\ should' = FALSE
    /\ queue' = Post("failed")
    /\ UNCHANGED <<disk, page, sess, conns, stop, aux>>

NodeFailedToSync ==
    /\ fault = "none"
    /\ stage = "running"
    /\ nsc > 0
    /\ CanPost
    /\ queue' = Post("failed")
    /\ UNCHANGED <<disk, page, sess, conns, thread, aux>>

NodeStopped ==
    /\ fault = "none"
    /\ stage = "running"
    /\ stop
    /\ stage' = "destructing"
    /\ stop' = FALSE
    /\ UNCHANGED <<disk, page, sess, conns, queue, should, aux>>

\* destroyedNode: each lambda runs here, on the node thread, and emits
\* walletReset, which is posted to the main thread.
NodeDestroyed ==
    /\ fault = "none"
    /\ stage = "destructing"
    /\ stage' = "idle"
    /\ stop'  = FALSE
    /\ dconns' = 0
    /\ queue' = queue \o [i \in 1..(dconns * resetConns) |-> "reset"]
    /\ UNCHANGED <<disk, page, sess, nsc, should, aux>>
-------------------------------------------------------------------------------
User ==
    \/ \E a \in Accounts : SelectAccount(a)
    \/ CreateWallet
    \/ CreateWalletFails
    \/ OpenWallet
    \/ Lock
    \/ Unlock
    \/ Logout
    \/ \E run \in BOOLEAN : ApplyLocalNodeChanges(run)
    \/ RemoveCurrentWallet

EventLoop ==
    \/ ConnectDestroyedNode
    \/ OnStartedNode
    \/ OnFailedToStartNode
    \/ OnResetWallet
    \/ OnRepoint
    \/ OnDiscard

NodeThread ==
    \/ NodeCreated
    \/ NodeStarted
    \/ NodeFailedToStart
    \/ NodeFailedToSync
    \/ NodeStopped
    \/ NodeDestroyed

Next == Restart \/ User \/ EventLoop \/ NodeThread

Spec == Init /\ [][Next]_vars

\* The event loop keeps delivering what is posted, and a node that was told
\* to stop stops and is destroyed.  Nothing is assumed of the user, nor of a
\* node that is still initialising.
Fairness ==
    /\ WF_vars(EventLoop)
    /\ WF_vars(NodeStopped)
    /\ WF_vars(NodeDestroyed)

FairSpec == Spec /\ Fairness
-------------------------------------------------------------------------------
(* Properties *)

\* The values every variable ranges over.
TypeOK ==
    /\ dbs \in SUBSET Accounts
    /\ runLocal \in [Accounts -> BOOLEAN]
    /\ screen \in Screens
    /\ listed \in SUBSET Accounts
    /\ shown \in Accounts \cup {NoAccount}
    /\ linked \in BOOLEAN /\ stale \in BOOLEAN
    /\ acct \in Accounts
    /\ open \in BOOLEAN /\ removing \in BOOLEAN
    /\ resetConns \in Nat /\ nsc \in Nat /\ dconns \in Nat
    /\ queue \in Seq(Events)
    /\ stage \in Stages /\ should \in BOOLEAN /\ stop \in BOOLEAN
    /\ pc \in {"loop", "connect"} /\ settled \in BOOLEAN
    /\ patient \in BOOLEAN
    /\ fault \in Faults

\* The places from which onResetWallet is still to be called.
Teardown == pc = "connect" \/ dconns > 0 \/ Pending("reset")

\* resetWallet: a teardown that is still to come, whichever way it comes
\* (posted at once, or by the lambda on the node thread), finds the session
\* it was asked to tear down, whatever replaced AppModel in the meantime.
TeardownFindsSession == Teardown => open /\ removing

\* onResetWallet finds the asset managers, the wallet and the database it
\* asserts, and nobody else refers to the managers (use_count() == 1): the
\* view models of every main page ever shown are deleted before a reset is
\* delivered, however it is posted (SettingsUtilities.qml: "the reset is
\* posted AFTER those deletions").
ResetWalletAsserts == fault \notin {"resetWallet", "managersHeld"}

\* The running node was told to stop, or is being destroyed.
OnItsWayOut == (stage = "running" /\ stop) \/ stage = "destructing"

\* A removal is not lost between isNodeRunning and destroyedNode: as long as
\* m_removeAccount is set, onResetWallet is posted or the lambda that posts it
\* waits for a node that is on its way out, provided the node thread was at
\* rest when the removal was requested.
RemovalOnItsWay ==
    removing /\ settled =>
        \/ pc = "connect"
        \/ Pending("reset")
        \/ dconns > 0 /\ OnItsWayOut

\* onStartedNode finds the wallet, provided no removal was requested while
\* the node was starting or stopping.
StartedFindsWallet == settled => fault # "startedNode"

\* The wallet that opens is that of the account the start page shows, unless
\* a failed creation left AppModel at another account.
OpensShownAccount ==
    [][~open /\ open' /\ dbs' = dbs => stale \/ shown = acct]_vars

\* As long as the user waits, no assertion fails and the main page always has
\* its wallet (getWalletModel throws without one).
PatientUserIsSafe ==
    patient => /\ settled => fault = "none"
               /\ screen = "main" => open

\* A removal requested while the node thread is at rest completes, unless the
\* user does not wait for it and meets an assertion.
RemovalCompletes ==
    (removing /\ settled) ~> (~removing \/ (~patient /\ fault # "none"))

\* The detailed model implements WalletLifecycle.
Lifecycle == INSTANCE WalletLifecycle
                WITH existing <- dbs,
                     current  <- IF open THEN acct ELSE NoAccount,
                     NoWallet <- NoAccount

LifecycleSpec == Lifecycle!Spec
-------------------------------------------------------------------------------
(* What the source says of itself and its behaviours contradict. *)

\* removeCurrentWallet: "removing the wallet must wipe the whole account
\* permanently", whatever the user does next, short of ending the process,
\* while the removal waits for the node to be destroyed.  (A reset already
\* posted comes before the user's next click; nothing is asked of it here.)
RemovalWipes ==
    [][removing /\ ~removing' /\ ~Pending("reset") /\ ~Restart
          => acct \notin dbs']_vars
===============================================================================
