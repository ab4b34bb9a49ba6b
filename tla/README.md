# Verification of Beam UI

Beam UI is the desktop wallet of BEAM: a Qt program (`ui/`, C++ view models
under QML pages) over the wallet, node and IPFS core, which is a git submodule
(`3rdparty/beam`) and not part of this repository. This directory holds TLA+
models of the parts of `ui/` where several actors change the same state, the TLC
configurations that check them, and TLAPS proofs of what matters most.

The program has few threads and many orders. View models live on the UI thread;
the wallet client runs on a reactor thread, the integrated node on its own. All
of them talk through posted calls and queued signals, so nearly every handler
works on a state that may have changed since the call it answers was made. That
is what the models are about.

Contents: [inventory](#inventory) - [plan](#plan) - [modules](#modules) -
[runs](#runs) - [bounds](#bounds) - [fairness](#fairness) - [proofs](#proofs) -
[disagreements](#where-code-and-text-disagree) - [not modelled](#not-modelled)

To run: `tlc -config X.cfg M` for each pair in the table of runs, and
`tlapm M.tla` for each of the eight modules named `*Proofs`.

## Inventory

Paths are under `ui/`.

| Component | State it keeps | Operations | Talks to | Hard behaviour | What makes it correct |
|---|---|---|---|---|---|
| `AppModel` (`model/app_model.cpp`) | the open database, wallet client, asset managers; `m_nsc`, `m_walletConnections`; `m_removeAccount` | create, open, start, remove, replace the instance; node start and stop | node's thread (signals), reactor (calls), start page (`walletRemoved`) | teardown goes through the event loop or through the node's thread; the instance is replaced under pending events | a removal finds its session, finds nobody else holding the asset managers, and completes; the opened wallet is the one shown |
| `NodeModel` (`model/node_model.cpp`) | the node client | start, stop, `isNodeRunning` | emits its signals to whoever is connected at that moment | the thread moves between a read and a connect | as above |
| `StartViewModel` (`viewmodel/start_view.cpp`) | scanned accounts, position shown | create, select, open, log out, remove | `AppModel`, `WalletSettings` | deferred re-pointing; position against index; failed creation | as above |
| `SendViewModel` (`viewmodel/send_view.cpp`) | token, parsed parameters, receiver, amount, asset, last coin selection, toggles | edits, confirm, send | reactor: `selectCoins`, `getAddress`, `saveAddress`, `startTransaction` | late answers; the search for the largest amount re-requests from its own answer; a dialog with a snapshot | what was shown is what is sent; the form is consistent once answers are in |
| `AppsViewModel` (`viewmodel/applications/apps_view.cpp`) | scanned folders, answer of the store contract, publishers, own transactions | install, update, remove, publish, launch | IPFS, shader engine, file system, QML panels | sequences of file operations that fail or are cut; two cached lists; progress state in QML | the user's whole copy survives; what was announced stays; a removal finds its application; the lists catch up |
| `SettingsViewModel`, node sections (`viewmodel/settings_view.cpp`) | edited address, port, peers, toggle, validity, delayed Apply | edits, Apply, Cancel | reactor: `checkNetworkAddress`; `WalletSettings`; `AppModel` | answers for an older address; Apply before the check; Cancel order | validity belongs to the address shown; only what was applied is saved |
| `AppModel`, node wiring | `m_nsc`, the wallet's node | `onNodeAddressChanged`, `applyLocalNodeChanges`, node's signals | wallet client, node's thread | late signals of a stopped node | the wallet is told the node chosen |
| `WalletSettings` (`model/settings.cpp`) | ini files: account, node address, integrated node, and plain options | getters and setters | everyone | settings of the account against settings of the network | as above |
| `WalletModel` (`model/wallet_model.cpp`) | own addresses and labels | signals of the client; `isOwnAddress` | UI thread and reactor | changed on one thread, read and replaced on the other | at rest the sets are the wallet's |
| `AssetsManager`, `AssetsList` (`model/assets_*.cpp`) | asset info, requests under way; the list shown | collect, answer, `onWalletStatus` | reactor, QML | deduplicated requests; delayed notification; incremental list | list = assets held, sorted, up to date; no request forgotten |
| `ListModel` (`viewmodel/helpers/list_model.h`) | rows | reset, insert, remove, update | the view models that fold events | updates of rows that are not there, insertions of rows that are | as its users |
| `ExchangeRatesManager` (`model/exchange_rates_manager.cpp`) | rates, unit, time of the last ones | update, change of unit | reactor, all amounts | rates of the former unit, answers to former requests | the time shown is that of a rate in the unit chosen |
| Status bar (`viewmodel/statusbar_view.cpp`) | flags and progress of wallet, node, swap coins | folds signals | wallet, node | signals of two sources in any order | online/failed/syncing tell the truth |
| Address book (`viewmodel/address_book_view.cpp`) | three address lists, addresses in use | edit, delete; answers | reactor | snapshots against changes; a count per address moved by single events | lists = wallet's addresses; in use = a transaction under way |
| Receive page | token | generate, save, switch type | reactor | - | saved once |
| Transactions (`viewmodel/wallet/tx_table.cpp`), swaps (`viewmodel/atomic_swap/swap_offers_view.cpp`) | rows; active swaps and their counter | fold of events; filters, delete, export | reactor | first answer and changes overtake each other; sets and counters moved apart | rows = transactions; counter = active ones |
| UTXO dialogs (`viewmodel/utxo/utxo_view.cpp`) | rows | fold of events of two sources | reactor | regular and shielded coins share one list | rows = coins |
| Messenger (`viewmodel/messenger_chat*.cpp`, `view/beam_messenger.qml`, `view/beam_chat.qml`) | chats; peer, own address, messages of the open one | open, choose peer, rename, send, remove, leave | reactor | every answer reaches whatever page is open; the list is blocked under a chat | a page has its peer's messages; read means shown |
| DApp API (`viewmodel/applications/webapi_creator.cpp`, `apps_api_ui.cpp`, `view/applications/AppView.qml`) | the API of the open page, consents and their assets | create, reload, destroy, call, consent | client thread, QML dialogs | API that arrives after its page has gone; two consents | one API per open page; what runs was accepted |
| Asset swaps, order book; coin clients | offers, forms | create, accept, cancel | core's board and clients | - | - |
| Notifications | lists and popups | - | reactor | - | - |
| Main page (`viewmodel/main_view.cpp`) | lock timer | lock | QML | lock during anything | as `AppModel` |
| Seeds, currencies, fees, QR, theme, translations | - | conversions | - | sequential | - |

`PROJECT.json` repeats the list with a status for each part, and gives the
hazards line by line.

## Plan

Done: 1 to 6. Each module that is proved about has no RECURSIVE operator,
constants with named assumptions and one action per handler.

1. `AppSession`, implements `WalletLifecycle`; proofs. The session decides
   whether the user's wallet stays on the disk.
2. `SendView`; proofs. The page that spends money.
3. `DAppLibrary`, implements `DAppShelf`; proofs.
4. `NodeLink`; proofs.
5. What follows the wallet: `Assets`, `ExchangeRates`, `OwnAddresses`, `TxPages`,
   `UtxoPage` over `ListModel`; proofs. The promise of each is that at rest it
   equals the wallet's state.
6. `Messenger` and `DAppApi`, in the same run; proofs.

Left: publishing and `_activeTx` of the DApp page in `DAppLibrary`; the status
bar in `NodeLink`; the wallet's public offline address in `SendView`. Among the
proofs: the invariant of `TxPages`, `UtxoPage` and `Messenger` says more of the
moments before rest than the properties do, and could become properties.

## Modules

### AppSession (implements WalletLifecycle)

`AppModel` with its event loop, the node's thread and the start page. A user
action is a slot called from QML and everything it calls synchronously; a posted
event is an element of `queue`, delivered in order. `resetWallet` is cut in two
(`RemoveCurrentWallet`, `ConnectDestroyedNode`) between reading `isNodeRunning`
and connecting to `destroyedNode`, because the node's thread runs in between;
no other handler is cut, since the UI thread runs it to its end. `nsc` counts the groups of connections
`startNode` has made: the node's signal is posted once per group. Replacing the
instance (`ReplaceInstance`) takes the events posted to it away, and the
connection of a page to the old instance with it (`linked`). A failed
assertion is a value of `fault` and stops the process; `Restart` follows.

`onResetWallet` asserts that it finds its managers, wallet and database
(`fault = "resetWallet"`) and that nobody else refers to the three asset managers
(`use_count() == 1`, `fault = "managersHeld"`). Who does refer to them is modelled
by `ManagersHeld`: the view models of the main page, from the moment it is shown
until its deferred deletion is delivered (event `discard`, posted when the loader
replaces the page). Locking and logging out post such a deletion too, and it
survives a replaced instance.

Two history variables are premises. `settled`: the node's thread was at rest (not
starting, not stopping) when the removal read `isNodeRunning`; without it the code
does fail - see [disagreements](#where-code-and-text-disagree). `patient`: the user
has left the start page alone whenever a removal or the re-pointing after it was
pending. It restricts no action: every user is in the one run.

`WalletLifecycle` is the promise: at most one wallet open, a database created
only where there is none, deleted only by removing the open account. The mapping
takes the databases on the disk and the account of the open session.

### SendView

The fields of `SendViewModel`, the Send button as QML last read it (`button`;
`canSend` is only re-read on `canSendChanged`), the confirmation dialog with the
values it was opened with, and two queues: requests to the reactor, answers to
the UI thread. A token is a member of one of four sets, by type; what
`extractParameters` reads from it is a function of the token: the SBBS address
(`PeerOf`) and the endpoint (`EndpointOf`) of its wallet, each of which a type of
token may lack - a token that is only offline has no SBBS address, a bare SBBS
address and a public offline token have no endpoint - and which the entry found in
the address book then supplies (`OnGetAddressReturned`). `Selection` is
the wallet's answer: enough, or everything less the fee. The search for the
largest amount is the branch of `OnCoinsSelected` that posts again. The wallet's
balance changes under the page (`BalanceChanges`), and so does its address book: a
payment saves or relabels an entry, and between two visits to the page the user
may delete one (`LeaveAndDelete`). Of several entries that match, a lookup finds any.
Leaving the page does not take a lookup back: it is run, and its answer finds the
`QPointer` of the callback empty (`Abandoned`, `OnAbandoned`). `typed` and `sent`
are history: the amount last typed, and the transaction last
started with what the dialog showed.

Every assertion of the page is a value of `fault`: those on an entry's SBBS
address, on the type and the endpoint of its token (`Mismatch`), the guard of
`sendMoney` ("canSend"), its return paths after the address has been saved
("receiver", `LoadsReceiver`), and the unchecked optional of the callback that
relabels ("relabel", `OnRelabel`). The model distinguishes what the assertions
compare, an entry with the form, and not the formats of addresses.

### DAppLibrary (implements DAppShelf)

Two folders per application, `<guid>` and `<guid>-backup`; the two cached lists;
the store contract; downloads; the removal dialog, which is one for the page. A
folder is absent, partial (no manifest that can be read), holds a whole version, or
half of one: unpacking or deleting was cut after the manifest was there and before
all files were. The lists see manifests (`Manifest`), so they show a half copy like
a whole one; what the properties promise is about whole copies (`Whole`).

What is unpacked need not be what was announced: `checkManifestFile` compares guid
and name only, so a package announced as one version may carry any (`Package`).
`Honest` says that packages carry the version they are announced with. Nothing in
the code establishes it; the runs of the properties leave it off, and only
"versions only go up" (`Upwards` of `DAppShelf`) is claimed where it is on.

A handler is one step on success; where file operations may fail, `UpdateResults`,
`InstallResults` and `Removals` are the states it can leave, and
`UpdateTrace` and `InstallTrace` the states a stop of the program inside it can
leave (`Crash`), `Damaged` what is then left of a folder being deleted. `promised` is
history: what the user was last told is installed. `DAppShelf` says that a whole copy
only gives way to a whole copy, of a later version where `Upwards`, and a promised
application stays until it is uninstalled.

Each "Uninstall" connects another handler to the accepted signal of the shared
dialog (`armed`, a sequence, the same panel possibly twice), and a handler
disconnects only when it runs. Accepting runs all of them in order
(`AcceptUninstall`). The first removal that goes well resets the list, and with it
the panels; a later handler then may still run, and meets the failed lookup of
`uninstallLocalApp` if its application has gone (`missed`), or may not: both are
allowed.

### NodeLink

The two node sections of the settings page, what they save, and how `AppModel`
passes it on. The setters are functions of the page (`SetNodeAddress`,
`SetConnectLocalNode`, `Undone`), composed as the code calls them. The reactor
runs `calls` in order; `answers` and `signals` share the event loop but are kept
apart so that they may overtake each other, which allows more than the code
does. `Read` is `parseAddress`: a port above 32767 comes back as 0. `asked` is
history: the address the page showed when Apply was last pressed.

The model shows one thing no text contradicts: a put-off Apply is never carried
out. It is accepted only while the page is marked valid, and `onAddressChecked`
acts only on an answer that changes the mark, so the answer that would carry it
out is ignored. `AnswerSavesNothing` in the proofs is this fact.

### What follows the wallet, and the pages of applications

Seven modules, one for each part of an open wallet that lives on answers and
signals: the wallet (or the core's API for applications) is external, keeps the
truth (`inbox`, `held`, `onChain`, `market`, `labelOf`, `txStatus`, `coinStatus`)
and runs requests in order; what it tells is a queue the event loop delivers in
order. Every handler of the part is an action, folds over the elements of an
event included. What happens to pages, opening and leaving them at any moment,
is part of each module, because an answer reaches the page that is open when it
comes, not the one that asked.

- **ListModel**: the operators of `helpers/list_model.h` on sequences of rows with
  a key. `update` puts a row that is not there before the last one, though its
  comment says "on last position"; it is modelled as it is. Loops over the items
  of an event are `InTurn`, loops that pick some of them `ItemsAt`: both are
  recursive functions or plain choices, so that they can be reasoned about.
- **Messenger**: the chats' list and its `_signalBlocker`, the page of one chat,
  the dialog that chooses a peer. A number stands for a message's time stamp;
  the wallet hands messages newest first and tells the sender's page of a message
  sent as of any other. `displayed` is history. Plain in the model: leaving a
  chat by the path in the title (`LeaveByPath`) never runs `onClosed`, so the list
  stays blocked until the page of the messenger is made anew; renaming a contact
  sets the own address to the dialog's first one, and a late answer for another
  chat may choose it too (`onMessages` takes the last message's unfiltered) - the
  premises of `OwnAddressOfChat`; the unread mark of a chat that is listed is not
  set by a new message.
- **DAppApi**: the numbers of pages and APIs stand for objects. `creating` are the
  APIs under way, `listening` the connections QML holds, `releaseApi` the closure
  that takes the last one off. A second launch over an open page replaces the API
  and leaves the handler of the former one connected to nothing.
- **Assets**: the manager's `_requested` and `_info`, the list, its delayed
  notification, and a page that reads all of the list. The wallet answers
  requests in any order, for it may have to ask its node, and pushes every change
  of an asset. While such a page is open, an asset nobody knows is asked for again
  after every empty answer.
- **ExchangeRates**: a rate is its unit and time. `m_rates` keeps the rates of the
  former unit until new ones replace them; with one currency's rate in the new
  unit the page says rates are up to date although the others' are not.
- **OwnAddresses**: `AnnounceChange` and `EnterChange` are the two halves of
  `onAddressesChanged`, on the wallet's thread, between which the event loop runs;
  `SetAddresses` writes the same sets there. When the two meet the result is a
  data race: the sets may hold anything (that the program may stop is left out).
  Away from the address book nobody asks again, and labels dropped or left behind
  stay; with it open every change makes a request, and `OwnAddressesAtRest` says
  that this is enough.
- **TxPages**: the wallet page, the swaps and the address book, one of them open.
  The address book counts uses of an address up for each transaction under way
  and down for each that ends: a finished transaction that is deleted, or ends
  twice, takes the use of another one with it, hence the two halves of the claim
  on `busyAddresses`.
- **UtxoPage**: both dialogs. Regular and shielded coins share the list, and a
  Reset of the regular ones empties it; the wallet tells of the regular coins
  first, which is assumed. The dialog of maturing coins skips updates of coins
  that no longer mature, so it may keep stale rows: it is only claimed that
  maturing coins are shown. A coin is assumed to keep its identity.

`MCWalletViews` puts the seven together. They share no state, only the one thread
that runs them, so a behaviour of all of them is an interleaving of one of each;
the run takes one (`part`) and leaves the others as they begin.

### MC modules and proofs

`MCSendView`, `MCDAppLibrary`, `MCNodeLink` and `MCWalletViews` define the balances,
bundled versions, hosts and peers, messages' addresses, transactions and coins
the configurations name. The modules named `*Proofs` hold the theorems.

## Runs

| Run | Module, cfg | Checks | Shows |
|---|---|---|---|
| `session` | AppSession, `AppSession.cfg` | TypeOK, TeardownFindsSession, ResetWalletAsserts, RemovalOnItsWay, StartedFindsWallet, PatientUserIsSafe, OpensShownAccount, LifecycleSpec, RemovalCompletes | any user, three accounts: a pending teardown finds its session and holds the managers alone, the wallet opened is the one shown, a removal completes, a user who waits meets no assertion, the lifecycle is implemented |
| `session_removal_wipes` | AppSession, `AppSessionRemovalWipes.cfg` | RemovalWipes (violated) | a removal that waits for its node is dropped by a new selection or creation |
| `send` | MCSendView, `SendView.cfg` | TypeOK, SettledForm, SentIsConsistent, TypedAmountStands, SearchEnds | any order of edits, late answers and deletions; the search ends |
| `send_patient` | MCSendView, `SendViewPatient.cfg` | ConfirmedIsSent, PatientMeetsNoFault, BookFits | a user who waits sends what was shown, meets no assertion of the page, and stores addresses under the right wallet |
| `send_wallet_id` | MCSendView, `SendViewWalletID.cfg` | ExpectedWalletIdAssert (violated) | a late address book entry meets another token |
| `dapps` | MCDAppLibrary, `DAppLibrary.cfg` | TypeOK, UpdateKeepsACopy | any user, two downloads, packages of any version, failures and crashes: no update costs the whole copy |
| `dapps_patient` | MCDAppLibrary, `DAppLibraryPatient.cfg` | RemovalFindsItsApp, KeepsThePromise, ListCatchesUp | of a user who waits and never cancels a removal: the lookup never fails, the refinement holds with packages of any version, the page ends up right |
| `dapps_named` | MCDAppLibrary, `DAppLibraryNamed.cfg` | RemovesWhatItNames (violated) | accepting the removal of one application removes another, whose removal was cancelled |
| `dapps_polling` | MCDAppLibrary, `DAppLibraryPolling.cfg` | NoPollingWhileLaunched (violated) | the page under an open application keeps polling |
| `views` | MCWalletViews, `WalletViews.cfg` | see below | each part that follows the wallet, with late, foreign and overtaken answers |
| `node` | MCNodeLink, `NodeLink.cfg` | TypeOK, SettledValidity, ToggleTellsTruth, RemoteIsTold, SavesWhatWasApplied, CancelRestores | settings page, late checks, node's signals, restarts |
| `node_synced` | MCNodeLink, `NodeLinkSynced.cfg` | UsesSyncedNode (violated) | the wallet is not switched to the node that catches up |

`views` has one claim for each hazard of its parts:

- ReadWasShown: a message counts as read only if a page of its chat has shown it.
- MessengerShowsInbox: once its answers are in, a chat has exactly its peer's
  messages in order, and the list exactly the peers there are messages of.
- OwnAddressOfChat: messages are sent from an address the conversation was led
  from, or the one chosen.
- RunsWhatWasAccepted, PageHasItsApi, ConsentKnowsItsAssets: what an application's
  request runs was accepted, once; an open page gets the API last asked for and no
  other lives; a dialog can name its assets.
- RequestedIsUnderWay, AssetsListIsHeld: no note of a request is left behind; the
  list is always sorted and without doubles, and at rest the wallet's.
- RatesAreOfUnit: the time shown is that of a kept rate in the unit chosen; at rest
  the rates are the wallet's.
- OwnAddressesAtRest, TxPagesMirrorWallet, UtxoPageShowsCoins: at rest the page
  shows the wallet's addresses, transactions and coins, and the counters agree.

Two runs of one module differ where the question does: in `SendView` and
`DAppLibrary` any user for what must always hold, a patient one for what the code
can promise only then.
Every property of a passing run has a mutant, a definition of the model changed
as a plausible bug would change the code, under which TLC finds it violated.

Deadlock is checked in every run but `views`: there every part comes to an end
when its bounds on messages, requests or time are used up and nothing is open.
The type invariants of its modules are not in the run: the types are a part of
the invariants that are proved, for the messenger with any natural number where
`MessengerTypeOK` has at most `MaxMessages`, for the assets without the two flags
`listTimer` and `reader`.

## Bounds

- AppSession: three accounts give a first one, a gap and a rest (two for the
  violation); `MaxConns` 2 is one duplicated connection, `MaxQueue` 4 two signals
  in both copies and bounds only the node's signals and how many pages may wait to
  be deleted. The theorems do not depend on the bounds.
- SendView: amounts to 2 with fees 1 and 2, so that each of "covers amount and fee",
  "covers the amount only", "covers neither" occurs; BEAM and another asset, and
  an invoice in that asset. `send` has the token whose type the user chooses and a
  token without SBBS address that is this wallet's own; `send_patient` a bare SBBS
  address and an own token of the same wallet, so that entries complete each
  other, and a public offline token; `send_wallet_id` a token of each type.
  `MaxPending` 2 is an answer on its way and a request behind it, the least at which
  the newest answer and an older one differ; 3 in the violation. The theorems are
  for any number.
- DAppLibrary: one application, since handlers of two share only the panels'
  progress and the dialog, and two in `dapps_named`, which is about that; three
  versions, so that an update can be overtaken by a newer one (two where there are
  two downloads); one or two calls of the store under way; `MaxArmed` 2 handlers of
  removals, a cancelled one and the one asked for.
- NodeLink: the loopback, a host that resolves and one that does not; one port
  parseAddress can read and one it cannot; `MaxChanges` 1 bounds by how many of
  its four groups of fields the edited page may differ from what is saved;
  `MaxCalls` 1 and `MaxEvents` 1 still put a check or a change of node under
  way across any edit. The proofs are for all bounds.

- Messenger: two peers, two own addresses, each peer given one of them, two
  messages; three answers under way when a chat opens, so that one of a former
  page, one of the messages and one of the list can be out of order, and one
  before anything else the user does.
- DAppApi: two requests of different assets, two pages, four APIs: a reload and a
  second launch on each page.
- Assets: two assets, so that a row is put before another one; two states of an
  asset's information (none and one); three answers under way.
- ExchangeRates: two currencies in two units, three times, two requests or answers
  under way: an answer of before and one of after a change of unit.
- OwnAddresses: two addresses that may share one of two labels, three changes under
  way.
- TxPages: two transactions of one address and a swap of another; UtxoPage: a
  regular and two shielded coins of different assets; two events under way, the
  first answer and a change.

## Fairness

Only where a thread's loop justifies it: the event loop delivers what is posted,
the wallet's reactor runs its calls, a node that was told to stop stops. The
user is never assumed to act, a starting node never to start, an IPFS download
never to end. Strong fairness is used once, in `DAppLibrary`: calls of the store
contract may fail any number of times but not for ever (`RunViewDapps` against
`FailViewDapps`).

- `RemovalCompletes` (in `session`): event loop, stopping and destruction of the
  node. It is claimed of every user: only one who did not wait may have stopped the
  process at an assertion instead.
- `SearchEnds` (in `send`): event loop and reactor; the premise stops user and balance.
- `ListCatchesUp`: wallet status keeps coming, answers are delivered; the premise
  stops publishers, folders and crashes.
- No module of the run `views` states fairness: its claims are about what holds
  when everything has arrived.
- `UsesSyncedNode` is stated with that fairness too, so its counterexample is no
  mere stop of the program.

## Proofs

`AppSessionProofs`, for every set of accounts and all bounds:

- `TypeCorrect`, `TeardownFindsSessionAlways`, `ResetWalletAssertsHold`,
  `RemovalNeverLost`, `StartedNodeFindsWallet`, `PatienceIsSafe`,
  `OpensWhatIsShown`, `ImplementsLifecycle`: all safety properties of its passing
  run.

The assumptions are those of the module: accounts are naturals with 0 among
them, and every non-empty set of them has a first. The invariant adds to TypeOK
five parts. *SessionInv*: walletReset is connected exactly as often as there is
a session, and a removal belongs to a session and to the page loaded for it.
*TeardownInv*: at most one teardown, in one of three places - inside
`resetWallet`, in the lambda, in the queue - and no main page waits to be deleted
behind it (*DiscardsFirst*). *SettledInv*: what a removal that
found the node's thread at rest can count on, above all the order of events: no
`started` behind a `reset`. *ShownInv*: the start page shows the account
AppModel points to or a re-pointing is on its way. *PatientInv*: what a user who
waited finds. Each is needed: without the
order of events `StartedFindsWallet` is not inductive, without the one place of
the teardown a second one might find no session, and without *DiscardsFirst* a
reset might find the managers held. The refinement is the map of
the initial states and of each action to a step or a stutter of
`WalletLifecycle`.

`NodeLinkProofs`, for every set of hosts, ports and peers and all bounds:

- `TypeCorrect`, `ValidityTheorem` (SettledValidity), `ToggleTheorem`
  (ToggleTellsTruth), `RemoteTheorem` (RemoteIsTold), `AppliedTheorem`
  (SavesWhatWasApplied), `CancelTheorem`
  (CancelRestores).

The invariant adds that an answer under way says whether the host it names
resolves, that an Apply is put off only while the page is marked valid, and that
a host is saved. `Edited` names what every setter of the page guarantees
(validity untouched, another host to be checked), so each edit follows from one
lemma. `RemoteIsTold` is about the last call in the queue; four lemmas say what
posting and running a call do to it. `CancelRestores` needs that a saved port is
never empty (*PortInv*), because Cancel keeps the page's port where
`parseAddress` gives 0.

`DAppLibraryProofs`, for every set of applications, versions and downloads,
with and without failing file operations and stops of the program:

- `TypeCorrect`, `CopyTheorem` (UpdateKeepsACopy), and `ListTheorem`, the part
  of the invariant the latter rests on; for a patient user `ShelfTheorem`
  (KeepsThePromise), the refinement of `DAppShelf`, and `LookupTheorem`
  (RemovalFindsItsApp).

The invariant adds to TypeOK that an application with a whole copy is
one the page shows installed (*DiskInv*) and that the handlers cancelled
removals leave connected belong to installed applications (*ArmedInv*). The
first is why neither the bundled version nor a dropped file is ever unpacked
over a copy: the page's list may be behind the disk, but on one side only,
because a failed operation never makes a folder whole that was not. The
second keeps the removals to folders that exist. Lemmas on `UpdateResults`,
`InstallResults`, what handlers of a removal leave (`Without`) and the traces say
what each sequence of file operations can leave of the two folders, half unpacked
ones included.

The refinement maps the two folders to the whole copy that is left (`Whole`). A
patient user's library (*PatientInv*) has at most one download under way, no dialog
open then, an installation only where there is no whole copy, and the one handler
connected is that of the removal the dialog is open for, so that accepting it
touches no other application. For every package the result is a whole copy in place of a
whole copy. Where `Honest` holds, three facts more make versions go up: a backup is
older than the folder beside it, the page shows no older version than the disk
holds, and the download under way brings a later version. The theorem covers both
cases; without `Honest` nothing is claimed of versions. `LookupTheorem` rests on
*OneHandler*: a handler is disconnected when it runs, whatever becomes of its
removal, so with no removal cancelled there is never a second one.

`SendViewProofs`, for every set of tokens, assets, balances, fees, and any number of
requests under way:

- `SendTypeCorrect`, `SettledTheorem` (SettledForm), `SentTheorem`
  (SentIsConsistent), `TypedTheorem` (TypedAmountStands) of every user,
  `ConfirmedTheorem` (ConfirmedIsSent), `NoFaultTheorem` (PatientMeetsNoFault) and
  `BookTheorem` (BookFits) of a patient one.

SettledForm speaks of empty queues only, so the invariant says what is in them
otherwise. *CoinsInv*: the newest selection asked for - the last one in the
requests, or with none there the last in the answers, or with none there either
the one filled in - is for the amount, asset and type of the form. It is why
`onCoinsSelected` may compare only amount and asset: an answer it takes
wrongly is never the newest. *TokenInv*: parameters are the token's, SBBS address
and endpoint those it names, never of two wallets, and the label is the token's
unless an entry is still under way. *FormInv*: the manual
exchange excludes the offline choice, and a typed amount the search. Lemmas on
`None` and `LastIs` say what appending and taking off do.

That a patient user meets no assertion needs to know what the address book holds and
what is in the queues. *PatientInv* adds: every stored entry is of its token's
wallet, and an own one is whole (*StoredInv*); requests and answers under way are
about the token shown and store only such entries (*QueuesInv*); there is one lookup
at most, ahead of everything (*LookupInv*), and an address to be relabelled is in the
book until its lookup is served, because nothing that deletes it can come before
(*RelabelInv*); until the entry arrives receiver and endpoint are as parsed, then as in the
book (*ReceiverInv*); a button left on without enough coins has a selection under way
(*ButtonInv*); an open dialog shows the form with nothing under way (*DialogInv*).

`WalletFollowersProofs`, for the parts that follow the wallet without a list:

- `RatesTypeCorrect` and `RatesTheorem` (RatesAreOfUnit), for all currencies, units
  and times. Rates only get newer, in the queue as in the wallet (*OrderInv*), and
  after the unit was changed a request, an answer that is the last one, or the rates
  themselves are there (*AskedInv*).
- `DAppApiTypeCorrect`, `AcceptedTheorem` (RunsWhatWasAccepted), `PageTheorem`
  (PageHasItsApi), `ConsentTheorem` (ConsentKnowsItsAssets), for all requests and any
  number of pages and APIs. APIs arrive in the order they were asked for, behind all
  consents of earlier ones (*FreshInv*); the last one asked for is the page's or the
  last under way (*NewestInv*); a request is in one place (*OnceInv*).
- `OwnAddressesTypeCorrect` and `AtRestTheorem` (OwnAddressesAtRest), for all
  addresses and labels. While the page is open, a request still to be run, a change
  still to be handled, or an answer of after all changes is there, or everything is
  known (*RepairInv*).

`ListModelProofs` has what the operators on lists compute, for lists of any length:
`ItemsAt` keeps the order and exactly the items picked, `InTurn` has a value for
every prefix of the items, `ListReset`, `ListInsert`, `ListRemove` and `UpdateRow`
leave distinct ids distinct and exactly the rows one expects. The handlers are loops, so each of these is
an induction over the items. The library's induction theorems take a predicate as
a parameter, which no installed prover instantiates; `SetInduction` takes a set of
numbers instead (the indices for which a fact holds), and is proved from the
well-foundedness of the naturals.

`PagesProofs`, over these lemmas:

- `UtxoPageShowsCoinsAlways`, for all coins. The claim is about rest only; before it,
  the last event that says something of a coin tells how the coin is
  (*LastTellsCoin*), a coin nothing more is said of is shown as it is
  (*SettledShown*), and a coin is announced once, before anything else is said of it
  (*CoinAddedFirst*, *UnbornUnheard*): `insert` does not look whether a row is there.
  A Reset of the regular coins empties the list of the shielded ones, so theirs is
  behind it (*ShieldedFollow*).
- `TxPagesMirrorWalletAlways`, for all transactions, kinds and addresses: the same for
  transactions (*TxQueueInv*, *RowsKnown*, *TxSettled*); `_activeTx` is what is active
  of the rows at every moment and the counter its size (*SwapsCounted*), though events
  move the two apart; and an address is in use at most as often as there are
  transactions that may still be counted, and at least once for the only one it has
  (*AddressesCounted*). An answer may bring a transaction that was removed since:
  *RowsKnown* says that the removal of such a row is still to come.
- `AssetsListIsHeldAlways` and `RequestsTheorem` (RequestedIsUnderWay), for all
  assets. The rows are sorted and are those of the last status handled at every
  moment (*SortedRows*), each with what the manager knows; the last status under way
  is what the wallet holds, and the last information on an asset what it knows, and
  with none under way they have arrived or, of an asset shown, were asked for
  (*StatusTold*, *InfoTold*).

`MessengerProofs`, for all peers and addresses and any number of messages, calls and
answers under way: `MessengerInvAlways`, the invariant, and from it
`ReadWasShownAlways`, `MessengerShowsInboxAlways`, `OwnAddressOfChatAlways`. Its four
parts:

- *StoreInv*: numbers are given once, and what is asked to be marked as read was
  shown. Ids decide nothing if two messages share one.
- *RowsInv*: answers are newest first and a new message is newer than all handed out
  before it (*InOrder*), else the rows would not be in order; what was deleted has
  its removal behind it (*Withdrawn*); the last request for messages is for the peer
  of the page (*AskedLast*), so that answers for other chats, which empty the page,
  are followed by the right one; and each message of the peer is on the page or on
  its way, and no answer on its way that replaces the rows leaves it out
  (*OnTheirWay*).
- *ListInv*: removals are followed by a refresh while the list is not blocked, and
  the last list on its way names the peers of stored messages or they will be told.
- *OwnInv*: on the page of a user who opened it with no messages under way there is
  one request or one answer, of the page's peer.

Each step of the messenger is put into one of four shapes (the user's, the store's,
a call that is run, an event delivered), in which the queues only get longer or
lose their head; there is one lemma for each part of the invariant and shape.

Model-checked only: the liveness properties (`RemovalCompletes`, `SearchEnds`,
`ListCatchesUp`), which are out of the prover's reach. Every safety property of a
passing run is proved.

## Where code and text disagree

Found by a run (`findings` in `PROJECT.json`):

1. `app_model.cpp:464` "removing the wallet must wipe the whole account
   permanently". While the node runs, the removal waits for `destroyedNode`; before
   it comes the start page accepts a new account or another selection, the
   instance is replaced, and the removal is forgotten.
2. `send_view.cpp:483` asserts that the address book entry is the receiver's.
   A token pasted while the lookup of the former one is under way trips it.
3. `AppsList.qml:173` asks whether the user wants to uninstall one application. The
   handler of a removal that was cancelled is still connected (it disconnects only
   at line 178), so accepting removes that application too.
4. `apps_view.cpp:394` turns the updates off "to avoid polling the Dapp Store
   contract" - on the model of the opened application, which never had them on;
   the page underneath keeps polling.
5. `app_model.cpp:694` "then we'll switch to the local after if gets synced".
   `onStartedNode` drops every connection to the node's signals, the progress
   among them.

Plain in the source, with no run: the comment at `app_model.cpp:497` says the wipe of
the account directory takes the local node's storage along, but `node.db` lies in the
directory of the network (`settings.cpp:368`), which the wipe leaves alone.

Reachable in the models and left without a run of their own, since they are
assertions hit by an impatient user, close to 1, 2 and 3:

- `app_model.cpp:647`: a wallet is removed while its node is starting; the
  queued `startedNode` finds no wallet (`fault = "startedNode"`, the reason for
  the premise `settled`).
- `app_model.cpp:328`: an account is opened while its removal waits
  (`fault = "alreadyOpen"`).
- `send_view.cpp:647`: an answer that says "not enough" arrives while the
  confirmation dialog is open (`fault = "canSend"`); likewise the other assertions on
  entries and on the receiver, and `send_view.cpp:452`, when the address was deleted behind
  a payment's lookup (`fault = "relabel"`).
- `apps_view.cpp:1310`: a removal is asked for, cancelled, asked for again and
  accepted: two handlers of one panel run, and the second may find its application
  gone (`missed`).

And two that are plain in the model: Cancel on the settings page after the toggle
was turned shows the first peer, not the saved address
(`settings_view.cpp:543`, the premise of `CancelRestores`), and a port above
32767 comes back as 0 (`settings_helpers.cpp:47`).

## Not modelled

- The core: cryptography, transactions, swap protocols, the node. It is another
  repository; what `ui/` sees of it is external in the maps.
- The loading page: no QML file of this commit loads `loading.qml`, so
  `LoadingViewModel` and the reset that keeps a backup are unreachable.
- Holders of the asset managers other than the view models of the main page: the API
  of an open application (`apps_api_ui.h:54`) holds one and is given back with the
  page it belongs to (`PageHasItsApi` of DAppApi); AppSession does not have it.
- Inside modelled components: seed phrases, migration of old databases and the
  network selector (start page); vouchers, the comment inside a token, version
  warnings, an expired receiver and the wallet's own public offline address (send
  page); manifests, icons, unwanted publishers and publishing (DApps); IPFS, lock,
  currency and notification settings (settings page).
- Inside the parts that follow the wallet: sorting and filtering for display,
  formats, colours, export; contacts and the timer that moves expired addresses;
  the forms of swap offers.
- Pages and parts that only pass on or display: the status bar, the receive page,
  notifications, publishing, coin clients of the swaps, asset swaps (compiled only
  on demand); conversions and formatting; start-up, themes, QR codes; the vendored
  libraries.
- Translations: `i18n/*.ts` are Qt Linguist catalogues, texts without behaviour.
