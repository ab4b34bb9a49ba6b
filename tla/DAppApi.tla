------------------------------ MODULE DAppApi ------------------------------
(***************************************************************************)
(* The wallet API of an application's page (view/applications/AppView.qml, *)
(* viewmodel/applications/webapi_creator.cpp, apps_api_ui.cpp). The API is *)
(* made on the wallet's thread and arrives later; the page connects it to  *)
(* the proxy the application sees; a request that spends opens a dialog    *)
(* and goes to the wallet when the user accepts. Objects are numbered as   *)
(* they are made.                                                          *)
(***************************************************************************)
EXTENDS Integers, Sequences, FiniteSets, SequencesExt

CONSTANTS
    Requests,       \* what applications may ask for, each once
    AssetOf,        \* the asset a request spends
    MaxPages,       \* bound on the pages ever opened
    MaxApis         \* bound on the APIs ever made

ASSUME DAppApiAssumption ==
    AssetOf \in [Requests -> Nat] /\ MaxPages \in Nat /\ MaxApis \in Nat

VARIABLES
    appPages,       \* pages opened so far, the last one may be open
    appOpen,        \* it is
    apisMade,       \* APIs requested so far
    creating,       \* those under way, with the page they were asked for
    api,            \* _api of the page's WebAPICreator, 0 for none
    listening,      \* APIs with a handler on the proxy's callWalletApiCall
    releaseApi,     \* the API the page's releaseApi would take off, 0: undefined
    checking,       \* requests the core looks at before they need a consent
    consents,       \* the dialogs, the newest last
    mappedAssets,   \* _mappedAssets of api
    unsent,         \* requests not made yet
    accepted,       \* history: how often the user accepted a request
    ran,            \* history: how often the wallet was told to run one
    overlapped      \* history: two consents of one API have met

dappApiVars == <<appPages, appOpen, apisMade, creating, api, listening, releaseApi,
                 checking, consents, mappedAssets, unsent, accepted, ran, overlapped>>

Apis == 1..MaxApis

DAppApiTypeOK ==
    /\ appPages \in 0..MaxPages
    /\ appOpen \in BOOLEAN
    /\ apisMade \in 0..MaxApis
    /\ creating \in Seq([page: 1..MaxPages, api: Apis])
    /\ api \in Apis \cup {0}
    /\ listening \subseteq Apis
    /\ releaseApi \in Apis \cup {0}
    /\ checking \in Seq([api: Apis, request: Requests])
    /\ consents \in Seq([api: Apis, request: Requests])
    /\ mappedAssets \subseteq Nat
    /\ unsent \subseteq Requests
    /\ accepted \in [Requests -> Nat]
    /\ ran \in [Requests -> Nat]
    /\ overlapped \in BOOLEAN

DAppApiInit ==
    /\ appPages = 0 /\ appOpen = FALSE
    /\ apisMade = 0 /\ creating = <<>>
    /\ api = 0 /\ listening = {} /\ releaseApi = 0
    /\ checking = <<>> /\ consents = <<>>
    /\ mappedAssets = {}
    /\ unsent = Requests
    /\ accepted = [r \in Requests |-> 0]
    /\ ran = [r \in Requests |-> 0]
    /\ overlapped = FALSE

-----------------------------------------------------------------------------
requests == <<checking, unsent, accepted, ran, overlapped>>

\* createApi: ClientThread_Create answers later, and only to a creator that
\* is still there.
CreateApi(page) ==
    /\ apisMade < MaxApis
    /\ apisMade' = apisMade + 1
    /\ creating' = Append(creating, [page |-> page, api |-> apisMade + 1])

\* A mutant: the handlers come off and the API stays.
Release_Handlers ==
    /\ listening' = listening \ {releaseApi}
    /\ releaseApi' = 0
    /\ UNCHANGED <<api, mappedAssets>>

\* The closure of the last API that arrived: its handlers come off, and _api,
\* whichever it is, goes.
Release ==
    /\ api' = IF releaseApi = 0 THEN api ELSE 0
    /\ listening' = listening \ {releaseApi}
    /\ releaseApi' = 0
    /\ mappedAssets' = IF releaseApi = 0 THEN mappedAssets ELSE {}

\* The page opens for an application; its list of applications comes in.
OpenPage ==
    /\ ~appOpen /\ appPages < MaxPages
    /\ appOpen' = TRUE
    /\ appPages' = appPages + 1
    /\ CreateApi(appPages + 1)
    /\ UNCHANGED <<api, listening, releaseApi, consents, mappedAssets, requests>>

\* The list changes while the page is open: loadAppsList launches again.
LaunchAgain ==
    /\ appOpen
    /\ CreateApi(appPages)
    /\ UNCHANGED <<appPages, appOpen, api, listening, releaseApi, consents,
                   mappedAssets, requests>>

\* The web page is reloaded.
Reload ==
    /\ appOpen
    /\ Release
    /\ CreateApi(appPages)
    /\ UNCHANGED <<appPages, appOpen, consents, requests>>

\* The page goes, and with it the creator, its API, the proxy and the dialogs,
\* which reject what they asked for.
ClosePage ==
    /\ appOpen
    /\ appOpen' = FALSE
    /\ api' = 0 /\ listening' = {} /\ releaseApi' = 0
    /\ consents' = <<>>
    /\ mappedAssets' = {}
    /\ UNCHANGED <<appPages, apisMade, creating, requests>>

\* The API arrives: the creator keeps it in place of the former one, the page
\* connects it. An API without its page is dropped.
ApiCreated ==
    /\ creating # <<>>
    /\ creating' = Tail(creating)
    /\ LET new == Head(creating)
       IN  IF appOpen /\ new.page = appPages
           THEN /\ api' = new.api
                /\ listening' = listening \cup {new.api}
                /\ releaseApi' = new.api
                /\ mappedAssets' = {}
           ELSE UNCHANGED <<api, listening, releaseApi, mappedAssets>>
    /\ UNCHANGED <<appPages, appOpen, apisMade, consents, requests>>

\* The application calls the proxy: every handler passes the request on to
\* its API, those of APIs that are gone fail.
Call(r) ==
    /\ appOpen /\ r \in unsent
    /\ unsent' = unsent \ {r}
    /\ checking' = IF api \in listening
                   THEN Append(checking, [api |-> api, request |-> r])
                   ELSE checking
    /\ UNCHANGED <<appPages, appOpen, apisMade, creating, api, listening, releaseApi,
                   consents, mappedAssets, accepted, ran, overlapped>>

\* A mutant: the amounts are prepared once for an API.
Prepare_Once(ask) ==
    mappedAssets' = IF mappedAssets = {} THEN {0, AssetOf[ask.request]} ELSE mappedAssets

\* prepareAmounts4QT: BEAM and the assets of the amounts, in place of the
\* former ones.
Prepare(ask) == mappedAssets' = {0, AssetOf[ask.request]}

\* The core has found that the request needs a consent. The API, if it still
\* lives, prepares the amounts and the page opens a dialog.
AskConsent ==
    /\ checking # <<>>
    /\ checking' = Tail(checking)
    /\ LET ask == Head(checking)
       IN  IF ask.api = api
           THEN /\ Prepare(ask)
                /\ consents' = Append(consents, ask)
                /\ overlapped' = (overlapped \/ \E i \in DOMAIN consents : consents[i].api = api)
           ELSE UNCHANGED <<mappedAssets, consents, overlapped>>
    /\ UNCHANGED <<appPages, appOpen, apisMade, creating, api, listening, releaseApi,
                   unsent, accepted, ran>>

\* A mutant: the request approved is the one that waits longest.
Approved_Oldest(ask) ==
    ran' = IF ask.api = api THEN [ran EXCEPT ![Head(consents).request] = @ + 1] ELSE ran

\* The closure of a dialog holds the request and the API.
Approved(ask) ==
    ran' = IF ask.api = api THEN [ran EXCEPT ![ask.request] = @ + 1] ELSE ran

\* The user answers the dialog on top; a rejection is an error for the
\* application.
Answer(yes) ==
    /\ consents # <<>>
    /\ consents' = Front(consents)
    /\ IF yes
       THEN /\ accepted' = [accepted EXCEPT ![Last(consents).request] = @ + 1]
            /\ Approved(Last(consents))
       ELSE UNCHANGED <<accepted, ran>>
    /\ UNCHANGED <<appPages, appOpen, apisMade, creating, api, listening, releaseApi,
                   checking, mappedAssets, unsent, overlapped>>

DAppApiNext ==
    \/ OpenPage
    \/ LaunchAgain
    \/ Reload
    \/ ClosePage
    \/ ApiCreated
    \/ \E r \in Requests : Call(r)
    \/ AskConsent
    \/ \E yes \in BOOLEAN : Answer(yes)

DAppApiSpec == DAppApiInit /\ [][DAppApiNext]_dappApiVars

-----------------------------------------------------------------------------
(* Properties.                                                             *)

\* The wallet runs a request of an application at most once, and only after
\* the user has accepted a dialog for that very request, whatever other
\* dialogs, reloads and pages came in between (AppView.qml: onApproveSend,
\* onApproveContractInfo; apps_api_ui.cpp: sendApproved).
RunsWhatWasAccepted == \A r \in Requests : ran[r] <= accepted[r] /\ accepted[r] <= 1

\* An API that lives belongs to an open page, hears its application, and is
\* the one the page would take off: none is left behind by a reload, a second
\* launch or an answer that comes late. Only the newest is kept: once nothing
\* is under way, an open page has the API last asked for (webapi_creator.cpp:
\* createApi, destroyApi).
PageHasItsApi ==
    /\ api # 0 => appOpen /\ api \in listening /\ releaseApi = api
    /\ appOpen /\ creating = <<>> => api = apisMade

\* A dialog can name the assets of its request as long as its API lives and
\* the application waits for one consent before it asks for another: the API
\* keeps the assets of the last consent only (apps_api_ui.cpp: prepareAmounts4QT).
ConsentKnowsItsAssets ==
    ~overlapped =>
        \A i \in DOMAIN consents :
            consents[i].api = api => AssetOf[consents[i].request] \in mappedAssets
=============================================================================
