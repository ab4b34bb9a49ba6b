------------------------------- MODULE Assets -------------------------------
(***************************************************************************)
(* What is known of the assets (model/assets_manager.cpp) and the list of  *)
(* those the wallet holds (model/assets_list.cpp). Whoever shows an asset  *)
(* asks the manager for its name; what the manager does not know it asks   *)
(* the wallet for, once at a time. The wallet is external: it tells what   *)
(* it holds, answers requests in any order, for it may have to ask its     *)
(* node, and tells of every change of an asset. BEAM itself needs no       *)
(* information.                                                            *)
(***************************************************************************)
EXTENDS ListModel

CONSTANTS
    AssetIds,       \* numbers of the assets there are, BEAM's left out
    MaxVersion,     \* bound on the versions of an asset's information
    MaxNews         \* bound on what is under way when the wallet has news

ASSUME AssetsAssumption ==
    AssetIds \subseteq Nat \ {0} /\ IsFiniteSet(AssetIds) /\ MaxVersion \in Nat /\ MaxNews \in Nat

VARIABLES
    held,           \* the assets the wallet holds
    onChain,        \* the version of their information it has, 0 for none
    asked,          \* assets it has been asked about and has not answered
    asEvents,       \* what the wallet has told, in order
    status,         \* getAssetsNZ: the assets held, as last told
    requested,      \* _requested
    info,           \* _info, 0 where there is none
    listTimer,      \* _assetsListChangedTimer runs
    assetRows,      \* the list, each row with the information it shows
    reader          \* a page that reads the whole list is open

assetsVars == <<held, onChain, asked, asEvents, status, requested, info,
                listTimer, assetRows, reader>>

Version == 0..MaxVersion

AsEvent == [kind: {"status"}, held: SUBSET AssetIds]
           \cup [kind: {"info"}, id: AssetIds, version: Version]

AssetsTypeOK ==
    /\ held \subseteq AssetIds
    /\ onChain \in [AssetIds -> Version]
    /\ asked \subseteq AssetIds
    /\ asEvents \in Seq(AsEvent)
    /\ status \subseteq AssetIds
    /\ requested \subseteq AssetIds
    /\ info \in [AssetIds -> Version]
    /\ listTimer \in BOOLEAN
    /\ assetRows \in Seq([id: AssetIds, version: Version])
    /\ reader \in BOOLEAN

\* The wallet's database may know assets from earlier sessions. The list
\* asks for the status as it is made.
AssetsInit ==
    /\ held \in SUBSET AssetIds
    /\ onChain \in [AssetIds -> {0, 1} \cap Version]
    /\ asked = {}
    /\ asEvents = <<[kind |-> "status", held |-> held]>>
    /\ status = {}
    /\ requested = {}
    /\ info = [id \in AssetIds |-> 0]
    /\ listTimer = FALSE
    /\ assetRows = <<>>
    /\ reader = FALSE

-----------------------------------------------------------------------------
(* The wallet (external).                                                  *)

walletsSide == <<held, onChain>>
uiSide == <<status, requested, info, listTimer, assetRows, reader>>

HasNews == Len(asEvents) + Cardinality(asked) < MaxNews

Tells(id, version) ==
    asEvents' = Append(asEvents, [kind |-> "info", id |-> id, version |-> version])

HoldingsChange(now) ==
    /\ HasNews /\ now # held
    /\ held' = now
    /\ asEvents' = Append(asEvents, [kind |-> "status", held |-> now])
    /\ UNCHANGED <<onChain, asked, uiSide>>

\* An asset is issued anew, or its registration is taken back.
AssetChanges(id) ==
    /\ HasNews
    /\ \E version \in {0, onChain[id] + 1} \cap Version :
           /\ version # onChain[id]
           /\ onChain' = [onChain EXCEPT ![id] = version]
           /\ Tells(id, version)
    /\ UNCHANGED <<held, asked, uiSide>>

\* The answer to a request, or to two of the same asset.
AnswerInfo(id) ==
    /\ id \in asked
    /\ asked' = asked \ {id}
    /\ Tells(id, onChain[id])
    /\ UNCHANGED <<walletsSide, uiSide>>

-----------------------------------------------------------------------------
(* The manager and the list.                                               *)

RowsWith(rows, known) == [i \in DOMAIN rows |-> [rows[i] EXCEPT !.version = known[rows[i].id]]]

\* getAsset, collectAssetInfo: each asset read whose information is missing
\* is asked for, unless it has been already.
Reads(ids, known, before) ==
    LET missing == {id \in ids : known[id] = 0} \ before
    IN  /\ requested' = before \cup missing
        /\ asked' = asked \cup missing

\* A mutant: new rows come last.
InsertSorted_Last(rows, id) == Append(rows, [id |-> id, version |-> 0])

\* Before the first row with a larger number.
InsertSorted(rows, id) ==
    LET larger == {i \in DOMAIN rows : rows[i].id > id}
    IN  InsertAt(rows, IF larger = {} THEN Len(rows) + 1 ELSE Min(larger),
                 [id |-> id, version |-> 0])

\* onWalletStatus: rows that stay are read anew, missing ones come to their
\* place, others go.
ListOf(rows, now) ==
    LET new == Ascending(now \ {rows[i].id : i \in DOMAIN rows})
        NewRow(id) == [id |-> id, version |-> 0]
    IN  IF rows = <<>>
        THEN ListReset(Reverse([i \in DOMAIN new |-> NewRow(new[i])]))
        ELSE LET all == InTurn(InsertSorted, rows, new)
             IN  ListRemove(all, ItemsAt(all, {i \in DOMAIN all : all[i].id \notin now}))

OnWalletStatus ==
    /\ asEvents # <<>> /\ Head(asEvents).kind = "status"
    /\ asEvents' = Tail(asEvents)
    /\ status' = Head(asEvents).held
    /\ assetRows' = RowsWith(ListOf(assetRows, status'), info)
    /\ Reads(status', info, requested)
    /\ UNCHANGED <<walletsSide, info, listTimer, reader>>

\* A mutant: only good information ends the request.
Erased_Good(id, version) == IF version = 0 THEN requested ELSE requested \ {id}

\* Good or bad, an answer ends the request.
Erased(id, version) == requested \ {id}

\* Bad information takes away what there was. The row is read anew when there
\* was or is something to show.
OnAssetInfo ==
    /\ asEvents # <<>> /\ Head(asEvents).kind = "info"
    /\ asEvents' = Tail(asEvents)
    /\ LET id == Head(asEvents).id
           version == Head(asEvents).version
           tells == version # 0 \/ info[id] # 0
       IN  /\ info' = [info EXCEPT ![id] = version]
           /\ assetRows' = IF tells THEN RowsWith(assetRows, info') ELSE assetRows
           /\ Reads(IF tells THEN {id} \cap status ELSE {}, info', Erased(id, version))
    /\ listTimer' = TRUE
    /\ UNCHANGED <<walletsSide, status, reader>>

\* assetsListChanged, once a burst of answers is over: pages that show the
\* assets in a list read all of them.
ListTimerFires ==
    /\ listTimer
    /\ listTimer' = FALSE
    /\ Reads(IF reader THEN status ELSE {}, info, requested)
    /\ UNCHANGED <<walletsSide, asEvents, status, info, assetRows, reader>>

OpenReader ==
    /\ ~reader
    /\ reader' = TRUE
    /\ Reads(status, info, requested)
    /\ UNCHANGED <<walletsSide, asEvents, status, info, listTimer, assetRows>>

CloseReader ==
    /\ reader
    /\ reader' = FALSE
    /\ UNCHANGED <<walletsSide, asked, asEvents, status, requested, info,
                   listTimer, assetRows>>

AssetsNext ==
    \/ \E now \in SUBSET AssetIds : HoldingsChange(now)
    \/ \E id \in AssetIds : AssetChanges(id)
    \/ \E id \in AssetIds : AnswerInfo(id)
    \/ OnWalletStatus
    \/ OnAssetInfo
    \/ ListTimerFires
    \/ OpenReader
    \/ CloseReader

AssetsSpec == AssetsInit /\ [][AssetsNext]_assetsVars

-----------------------------------------------------------------------------
(* Properties.                                                             *)

InfoUnderWay(id) ==
    \/ id \in asked
    \/ \E i \in DOMAIN asEvents : asEvents[i].kind = "info" /\ asEvents[i].id = id

\* A request that is noted is under way: if an answer, good or bad, left the
\* note behind, collectAssetInfo would never ask for the asset again and it
\* would stay without a name (assets_manager.cpp: collectAssetInfo,
\* onAssetInfo).
RequestedIsUnderWay == \A id \in requested : InfoUnderWay(id)

\* The list has each asset held once, in the order of their numbers, through
\* all insertions and removals; and once nothing is under way it is the list
\* of what the wallet holds, each row with what the wallet knows of its asset
\* (assets_list.cpp: onWalletStatus, onAssetInfo).
AssetsListIsHeld ==
    /\ {assetRows[i].id : i \in DOMAIN assetRows} = status
    /\ \A i, j \in DOMAIN assetRows : i < j => assetRows[i].id < assetRows[j].id
    /\ asked = {} /\ asEvents = <<>> =>
           /\ status = held
           /\ \A i \in DOMAIN assetRows : assetRows[i].version = onChain[assetRows[i].id]
=============================================================================
