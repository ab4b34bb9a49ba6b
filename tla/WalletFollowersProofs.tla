----------------------- MODULE WalletFollowersProofs ------------------------
(***************************************************************************)
(* The parts of an open wallet that follow the wallet without a list:      *)
(* RunsWhatWasAccepted, PageHasItsApi and ConsentKnowsItsAssets for all    *)
(* requests and any number of pages and APIs; RatesAreOfUnit for all       *)
(* currencies, units and times; OwnAddressesAtRest for all addresses and   *)
(* labels; each for any number of requests and answers under way. They share *)
(* no state: each is proved of its own specification.                      *)
(***************************************************************************)
EXTENDS DAppApi, ExchangeRates, OwnAddresses, SequenceTheorems, TLAPS

-----------------------------------------------------------------------------
(* The pages of applications, their APIs and consents.                     *)

Making == [page: 1..MaxPages, api: Apis]
Ask == [api: Apis, request: Requests]

\* The page's API is the last one asked for, or that one is the last under way.
NewestInv ==
    /\ api <= apisMade
    /\ api # 0 => appOpen /\ api \in listening /\ releaseApi = api
    /\ appOpen => appPages \in 1..MaxPages
    /\ appOpen => IF creating = <<>> THEN api = apisMade
                  ELSE creating[Len(creating)] = [page |-> appPages, api |-> apisMade]

\* APIs arrive in the order they were asked for, after whatever an earlier one
\* is asked.
FreshInv ==
    /\ \A i \in 1..Len(creating) : creating[i].api <= apisMade
    /\ \A i, j \in 1..Len(creating) : i < j => creating[i].api < creating[j].api
    /\ \A i \in 1..Len(checking) :
           /\ checking[i].api <= apisMade
           /\ \A j \in 1..Len(creating) : checking[i].api < creating[j].api
    /\ \A i \in 1..Len(consents) :
           /\ consents[i].api <= apisMade
           /\ \A j \in 1..Len(creating) : consents[i].api < creating[j].api
    /\ \A j \in 1..Len(creating) : api < creating[j].api

\* A request is unsent, looked at, in one dialog, or done with.
OnceInv ==
    /\ \A r \in unsent : accepted[r] = 0
    /\ \A i \in 1..Len(checking) :
           /\ checking[i].request \notin unsent /\ accepted[checking[i].request] = 0
           /\ \A j \in 1..Len(checking) : i # j => checking[i].request # checking[j].request
           /\ \A j \in 1..Len(consents) : checking[i].request # consents[j].request
    /\ \A i \in 1..Len(consents) :
           /\ consents[i].request \notin unsent /\ accepted[consents[i].request] = 0
           /\ \A j \in 1..Len(consents) : i # j => consents[i].request # consents[j].request

ApiInv ==
    /\ DAppApiTypeOK
    /\ NewestInv
    /\ FreshInv
    /\ OnceInv
    /\ RunsWhatWasAccepted
    /\ ConsentKnowsItsAssets

-----------------------------------------------------------------------------
\* What is taken off the front of a queue leaves the rest in its order.
LEMMA TailOf ==
    ASSUME NEW S, NEW s \in Seq(S), s # <<>>
    PROVE  /\ Head(s) \in S /\ Head(s) = s[1]
           /\ Tail(s) \in Seq(S)
           /\ Len(s) \in Nat \ {0}
           /\ Len(Tail(s)) = Len(s) - 1
           /\ \A i \in 1..Len(s) - 1 : Tail(s)[i] = s[i + 1]
           /\ Tail(s) = <<>> <=> Len(s) = 1
  <1>1. /\ Head(s) \in S /\ Head(s) = s[1]
        /\ Tail(s) \in Seq(S)
        /\ Len(s) \in Nat \ {0}
        /\ Len(Tail(s)) = Len(s) - 1
        /\ \A i \in 1..Len(s) - 1 : Tail(s)[i] = s[i + 1]
    OBVIOUS
  <1>2. Tail(s) # <<>> => Len(Tail(s)) \in Nat \ {0}
    BY <1>1, EmptySeq
  <1>3. Tail(s) = <<>> => Len(Tail(s)) = 0
    <2> SUFFICES ASSUME NEW t, t = <<>>
                 PROVE  Len(t) = 0
      BY Zenon
    <2> QED
      BY EmptySeq
  <1>4. Tail(s) = <<>> <=> Len(s) = 1
    <2> DEFINE t == Tail(s)
    <2>1. /\ Len(s) \in Nat \ {0} /\ Len(t) = Len(s) - 1
          /\ t # <<>> => Len(t) \in Nat \ {0}
          /\ t = <<>> => Len(t) = 0
      BY <1>1, <1>2, <1>3
    <2> HIDE DEF t
    <2>2. t = <<>> <=> Len(s) = 1
      BY <2>1
    <2> QED
      BY <2>2 DEF t
  <1> QED
    BY <1>1, <1>4

\* What is put at the end of a queue leaves the rest in its place.
LEMMA AppendTo ==
    ASSUME NEW S, NEW s \in Seq(S), NEW e \in S
    PROVE  /\ Append(s, e) \in Seq(S)
           /\ Append(s, e) # <<>>
           /\ Len(s) \in Nat
           /\ Len(Append(s, e)) = Len(s) + 1
           /\ Append(s, e)[Len(s) + 1] = e
           /\ \A i \in 1..Len(s) : Append(s, e)[i] = s[i]
  OBVIOUS

\* The dialog on top goes, the others stay.
LEMMA FrontOf ==
    ASSUME NEW S, NEW s \in Seq(S), s # <<>>
    PROVE  /\ Last(s) \in S /\ Last(s) = s[Len(s)]
           /\ Front(s) \in Seq(S)
           /\ Len(s) \in Nat \ {0}
           /\ Len(Front(s)) = Len(s) - 1
           /\ \A i \in 1..Len(s) - 1 : Front(s)[i] = s[i]
  <1>1. Len(s) \in Nat \ {0} /\ \A i \in 1..Len(s) : s[i] \in S
    BY EmptySeq
  <1>2. /\ Front(s) \in Seq(S)
        /\ Len(Front(s)) = Len(s) - 1
        /\ \A i \in 1..Len(s) - 1 : Front(s)[i] = s[i]
    <2>1. 1 \in Int /\ Len(s) - 1 \in Int /\ \A i \in 1..Len(s) - 1 : s[i] \in S
      BY <1>1
    <2> DEFINE t == SubSeq(s, 1, Len(s) - 1)
    <2>2. /\ t \in Seq(S)
          /\ Len(t) = IF 1 <= Len(s) - 1 THEN Len(s) - 1 - 1 + 1 ELSE 0
          /\ \A i \in 1..(Len(s) - 1 - 1 + 1) : t[i] = s[1 + i - 1]
      BY <2>1, SubSeqProperties
    <2> HIDE DEF t
    <2>3. /\ t \in Seq(S)
          /\ Len(t) = Len(s) - 1
          /\ \A i \in 1..Len(s) - 1 : t[i] = s[i]
      <3>1. Len(t) = Len(s) - 1
        <4>1. \A n \in Nat \ {0} : (IF 1 <= n - 1 THEN n - 1 - 1 + 1 ELSE 0) = n - 1
          OBVIOUS
        <4> QED
          BY <1>1, <2>2, <4>1, Zenon
      <3> SUFFICES ASSUME NEW i \in 1..Len(s) - 1
                   PROVE  t[i] = s[i]
        BY <2>2, <3>1
      <3>2. i \in 1..(Len(s) - 1 - 1 + 1) /\ 1 + i - 1 = i
        BY <1>1
      <3> QED
        BY <2>2, <3>2
    <2> QED
      BY <2>3 DEF Front, t
  <1> QED
    BY <1>1, <1>2 DEF Last

\* Every item of a queue has its type.
LEMMA ItemOf ==
    ASSUME NEW S, NEW s \in Seq(S)
    PROVE  Len(s) \in Nat /\ DOMAIN s = 1..Len(s) /\ \A i \in 1..Len(s) : s[i] \in S
  OBVIOUS

\* APIs and requests in the queues are ones there are.
LEMMA Items ==
    ASSUME DAppApiTypeOK
    PROVE  /\ \A i \in 1..Len(creating) : creating[i] \in Making /\ creating[i].api \in Nat \ {0}
           /\ \A i \in 1..Len(checking) : /\ checking[i] \in Ask
                                           /\ checking[i].api \in Nat \ {0}
                                           /\ checking[i].request \in Requests
           /\ \A i \in 1..Len(consents) : /\ consents[i] \in Ask
                                           /\ consents[i].api \in Nat \ {0}
                                           /\ consents[i].request \in Requests
           /\ DOMAIN consents = 1..Len(consents)
           /\ Len(creating) \in Nat /\ Len(checking) \in Nat /\ Len(consents) \in Nat
           /\ api \in Nat /\ apisMade \in Nat
  <1>1. creating \in Seq(Making) /\ checking \in Seq(Ask) /\ consents \in Seq(Ask)
    BY DEF DAppApiTypeOK, Making, Ask
  <1>2. /\ \A i \in 1..Len(creating) : creating[i] \in Making
        /\ \A i \in 1..Len(checking) : checking[i] \in Ask
        /\ \A i \in 1..Len(consents) : consents[i] \in Ask
        /\ DOMAIN consents = 1..Len(consents)
        /\ Len(creating) \in Nat /\ Len(checking) \in Nat /\ Len(consents) \in Nat
    BY <1>1, ItemOf
  <1>3. /\ \A m \in Making : m.api \in Nat \ {0}
        /\ \A m \in Ask : m.api \in Nat \ {0} /\ m.request \in Requests
    BY DAppApiAssumption DEF Making, Ask, Apis
  <1> QED
    BY <1>2, <1>3, DAppApiAssumption DEF DAppApiTypeOK, Apis

\* Nothing is under way before the first page opens.
LEMMA ApiInitInv == DAppApiInit => ApiInv
  <1> SUFFICES ASSUME DAppApiInit
               PROVE  ApiInv
    OBVIOUS
  <1> USE DAppApiAssumption DEF DAppApiInit
  <1>1. /\ creating \in Seq([page: 1..MaxPages, api: Apis])
        /\ checking \in Seq([api: Apis, request: Requests])
        /\ consents \in Seq([api: Apis, request: Requests])
        /\ Len(creating) = 0 /\ Len(checking) = 0 /\ Len(consents) = 0
    OBVIOUS
  <1>2. DAppApiTypeOK
    <2>1. appOpen \in BOOLEAN /\ overlapped \in BOOLEAN
      BY Zenon
    <2>2. /\ appPages \in 0..MaxPages /\ apisMade \in 0..MaxApis
          /\ accepted \in [Requests -> Nat] /\ ran \in [Requests -> Nat]
          /\ listening \subseteq Apis /\ mappedAssets \subseteq Nat
      OBVIOUS
    <2> QED
      BY <1>1, <2>1, <2>2 DEF DAppApiTypeOK
  <1> QED
    BY <1>1, <1>2 DEF ApiInv, NewestInv, FreshInv, OnceInv, RunsWhatWasAccepted,
                      ConsentKnowsItsAssets

-----------------------------------------------------------------------------
(* An API is asked for: the page is there, its API gone or the former one. *)

\* What a request for an API keeps, when it keeps the rest or lets the
\* present API go.
LEMMA Creates ==
    ASSUME ApiInv, CreateApi(appPages'), appOpen', appPages' \in 1..MaxPages,
           \/ UNCHANGED <<api, listening, releaseApi, mappedAssets>>
           \/ api' = 0 /\ listening' \subseteq listening /\ releaseApi' = 0 /\ mappedAssets' = {},
           api # 0 => appOpen,
           UNCHANGED <<consents, requests>>
    PROVE  ApiInv'
  <1> USE DAppApiAssumption
  <1> DEFINE new == [page |-> appPages', api |-> apisMade + 1]
  <1>1. /\ apisMade \in Nat /\ apisMade' = apisMade + 1 /\ apisMade' \in 0..MaxApis
        /\ new \in Making
        /\ UNCHANGED <<checking, unsent, accepted, ran, overlapped>>
    BY DEF CreateApi, ApiInv, DAppApiTypeOK, Making, Apis, requests
  <1>2. /\ creating' \in Seq(Making) /\ creating' # <<>>
        /\ Len(creating) \in Nat /\ Len(creating') = Len(creating) + 1
        /\ creating'[Len(creating) + 1] = new
        /\ \A i \in 1..Len(creating) : creating'[i] = creating[i]
    <2>1. creating \in Seq(Making) /\ creating' = Append(creating, new)
      BY DEF CreateApi, ApiInv, DAppApiTypeOK, Making
    <2> HIDE DEF new
    <2> QED
      BY <1>1, <2>1, AppendTo
  <1>3. /\ api' \in Apis \cup {0} /\ listening' \subseteq Apis /\ releaseApi' \in Apis \cup {0}
        /\ mappedAssets' \subseteq Nat
        /\ api' = 0 \/ api' = api
    BY DEF ApiInv, DAppApiTypeOK
  <1>4. DAppApiTypeOK'
    <2>1. appOpen' \in BOOLEAN /\ overlapped' \in BOOLEAN
      BY <1>1, Zenon DEF ApiInv, DAppApiTypeOK
    <2> QED
      BY <1>1, <1>2, <1>3, <2>1 DEF ApiInv, DAppApiTypeOK, Making
  <1>5. /\ \A i \in 1..Len(creating) : creating[i].api \in Nat
        /\ \A i \in 1..Len(checking) : checking[i].api \in Nat
        /\ \A i \in 1..Len(consents) : consents[i].api \in Nat \ {0}
        /\ DOMAIN consents = 1..Len(consents)
        /\ api \in Nat /\ api <= apisMade
    BY Items DEF ApiInv, NewestInv
  <1>6. NewestInv'
    <2>1. api' <= apisMade'
      BY <1>1, <1>3 DEF ApiInv, NewestInv, DAppApiTypeOK, Apis
    <2>2. api' # 0 => appOpen' /\ api' \in listening' /\ releaseApi' = api'
      BY DEF ApiInv, NewestInv
    <2>3. creating'[Len(creating')] = [page |-> appPages', api |-> apisMade']
      BY <1>1, <1>2
    <2> QED
      BY <1>2, <2>1, <2>2, <2>3 DEF NewestInv
  <1>7. FreshInv'
    <2>1. \A j \in 1..Len(creating') : j \in 1..Len(creating) \/ j = Len(creating) + 1
      BY <1>2
    <2>2. FreshInv /\ new.api = apisMade + 1
      BY DEF ApiInv
    <2>4. \A i, j \in 1..Len(creating') : i < j => creating'[i].api < creating'[j].api
      BY <1>1, <1>2, <1>5, <2>1, <2>2 DEF FreshInv
    <2>5. \A i \in 1..Len(creating') : creating'[i].api <= apisMade'
      BY <1>1, <1>2, <1>5, <2>1, <2>2 DEF FreshInv
    <2>6. \A i \in 1..Len(checking) :
              /\ checking[i].api <= apisMade'
              /\ \A j \in 1..Len(creating') : checking[i].api < creating'[j].api
      BY <1>1, <1>2, <1>5, <2>1, <2>2 DEF FreshInv
    <2>7. \A i \in 1..Len(consents) :
              /\ consents[i].api <= apisMade'
              /\ \A j \in 1..Len(creating') : consents[i].api < creating'[j].api
      BY <1>1, <1>2, <1>5, <2>1, <2>2 DEF FreshInv
    <2>8. \A j \in 1..Len(creating') : api' < creating'[j].api
      <3>1. creating'[Len(creating) + 1].api = apisMade + 1
        BY <1>2
      <3>2. \A j \in 1..Len(creating) : api < creating'[j].api
        BY <1>2, <2>2 DEF FreshInv
      <3>3. api' <= api
        BY <1>3, <1>5
      <3>4. \A j \in 1..Len(creating) : creating'[j].api \in Nat
        BY <1>2, <1>5
      <3>5. api' \in Nat
        BY <1>3, <1>5
      <3> QED
        BY <1>1, <1>5, <2>1, <3>1, <3>2, <3>3, <3>4, <3>5
    <2> QED
      BY <1>1, <2>4, <2>5, <2>6, <2>7, <2>8 DEF FreshInv
  <1>8. OnceInv' /\ RunsWhatWasAccepted'
    BY <1>1 DEF ApiInv, OnceInv, RunsWhatWasAccepted
  <1>9. ConsentKnowsItsAssets'
    <2> QED
      BY <1>1, <1>5 DEF ApiInv, ConsentKnowsItsAssets
  <1> QED
    BY <1>4, <1>6, <1>7, <1>8, <1>9 DEF ApiInv

\* The page opens, launches again, or is reloaded.
LEMMA CreateSteps ==
    ASSUME ApiInv, OpenPage \/ LaunchAgain \/ Reload
    PROVE  ApiInv'
  <1> USE DAppApiAssumption
  <1>0. DAppApiTypeOK /\ NewestInv
    BY DEF ApiInv
  <1>1. CASE OpenPage
    <2>1. appPages' = appPages + 1 /\ appPages' \in 1..MaxPages /\ appOpen'
      BY <1>0, <1>1 DEF OpenPage, DAppApiTypeOK
    <2>2. api = 0
      BY <1>0, <1>1 DEF OpenPage, NewestInv
    <2>3. CreateApi(appPages') /\ UNCHANGED <<api, listening, releaseApi, mappedAssets, consents, requests>>
      BY <1>1, <2>1 DEF OpenPage
    <2> QED
      BY <2>1, <2>2, <2>3, Creates
  <1>2. CASE LaunchAgain \/ Reload
    <2>1. appPages' = appPages /\ appOpen' /\ appOpen
      BY <1>2 DEF LaunchAgain, Reload
    <2>2. appPages' \in 1..MaxPages
      BY <1>0, <2>1 DEF NewestInv
    <2>3. CreateApi(appPages') /\ UNCHANGED <<consents, requests>>
      BY <1>2, <2>1 DEF LaunchAgain, Reload
    <2>4. \/ UNCHANGED <<api, listening, releaseApi, mappedAssets>>
          \/ api' = 0 /\ listening' \subseteq listening /\ releaseApi' = 0 /\ mappedAssets' = {}
      <3>1. CASE LaunchAgain
        BY <3>1 DEF LaunchAgain
      <3>2. CASE Reload /\ releaseApi = 0
        <4>1. 0 \notin listening
          BY <1>0 DEF DAppApiTypeOK, Apis
        <4> QED
          BY <3>2, <4>1 DEF Reload, Release
      <3>3. CASE Reload /\ releaseApi # 0
        BY <3>3 DEF Reload, Release
      <3> QED
        BY <1>2, <3>1, <3>2, <3>3
    <2> QED
      BY <2>1, <2>2, <2>3, <2>4, Creates
  <1> QED
    BY <1>1, <1>2

-----------------------------------------------------------------------------
(* The other steps of the page.                                            *)

\* The page goes, and its dialogs with it.
LEMMA CloseStep ==
    ASSUME ApiInv, ClosePage
    PROVE  ApiInv'
  <1> USE DAppApiAssumption
  <1>1. /\ ~appOpen' /\ api' = 0 /\ listening' = {} /\ releaseApi' = 0
        /\ consents' = <<>> /\ mappedAssets' = {}
        /\ UNCHANGED <<appPages, apisMade, creating, checking, unsent, accepted, ran, overlapped>>
    BY DEF ClosePage, requests
  <1>2. consents' \in Seq(Ask) /\ Len(consents') = 0
    BY <1>1
  <1>3. DAppApiTypeOK'
    <2>1. appOpen' \in BOOLEAN
      BY Zenon DEF ClosePage
    <2> QED
      BY <1>1, <1>2, <2>1 DEF ApiInv, DAppApiTypeOK, Ask
  <1>4. NewestInv' /\ FreshInv'
    BY <1>1, <1>2, Items DEF ApiInv, NewestInv, FreshInv
  <1> QED
    BY <1>1, <1>2, <1>3, <1>4 DEF ApiInv, OnceInv, RunsWhatWasAccepted, ConsentKnowsItsAssets

\* An API arrives.
LEMMA CreatedStep ==
    ASSUME ApiInv, ApiCreated
    PROVE  ApiInv'
  <1> USE DAppApiAssumption
  <1> DEFINE new == Head(creating)
  <1>0. DAppApiTypeOK /\ NewestInv /\ FreshInv
    BY DEF ApiInv
  <1>1. /\ creating # <<>> /\ creating' = Tail(creating)
        /\ IF appOpen /\ new.page = appPages
           THEN /\ api' = new.api
                /\ listening' = listening \cup {new.api}
                /\ releaseApi' = new.api
                /\ mappedAssets' = {}
           ELSE UNCHANGED <<api, listening, releaseApi, mappedAssets>>
        /\ UNCHANGED <<appPages, appOpen, apisMade, consents, checking, unsent, accepted, ran,
                       overlapped>>
    BY DEF ApiCreated, requests
  <1>2. /\ new \in Making /\ new = creating[1]
        /\ creating' \in Seq(Making)
        /\ Len(creating) \in Nat \ {0}
        /\ Len(creating') = Len(creating) - 1
        /\ \A i \in 1..Len(creating) - 1 : creating'[i] = creating[i + 1]
        /\ creating' = <<>> <=> Len(creating) = 1
    <2>1. creating \in Seq(Making)
      BY <1>0 DEF DAppApiTypeOK, Making
    <2> HIDE DEF new
    <2> QED
      BY <1>1, <2>1, TailOf DEF new
  <1>3. /\ new.api \in Apis /\ new.api \in Nat \ {0}
        /\ \A i \in 1..Len(creating) : creating[i].api \in Nat
        /\ \A i \in 1..Len(consents) : consents[i].api \in Nat
        /\ DOMAIN consents = 1..Len(consents)
    BY <1>0, <1>2, Items DEF Making, Apis
  <1>4. DAppApiTypeOK'
    <2>1. appOpen' \in BOOLEAN /\ overlapped' \in BOOLEAN
      BY <1>0, <1>1, Zenon DEF DAppApiTypeOK
    <2>2. /\ api' \in Apis \cup {0} /\ listening' \subseteq Apis
          /\ releaseApi' \in Apis \cup {0} /\ mappedAssets' \subseteq Nat
      BY <1>0, <1>1, <1>3 DEF DAppApiTypeOK
    <2> QED
      BY <1>0, <1>1, <1>2, <2>1, <2>2 DEF DAppApiTypeOK, Making
  <1>5. \A j \in 1..Len(creating') :
            j + 1 \in 1..Len(creating) /\ 1 < j + 1 /\ creating'[j] = creating[j + 1]
    BY <1>2
  <1>6. NewestInv'
    <2>1. api' <= apisMade'
      BY <1>0, <1>1, <1>2 DEF NewestInv, FreshInv
    <2>2. api' # 0 => appOpen' /\ api' \in listening' /\ releaseApi' = api'
      BY <1>0, <1>1 DEF NewestInv
    <2>3. appOpen /\ Len(creating) = 1 => api' = apisMade
      BY <1>0, <1>1, <1>2 DEF NewestInv
    <2>4. appOpen /\ Len(creating) # 1 =>
              creating'[Len(creating')] = [page |-> appPages, api |-> apisMade]
      BY <1>0, <1>1, <1>2 DEF NewestInv
    <2> QED
      BY <1>0, <1>1, <1>2, <2>1, <2>2, <2>3, <2>4 DEF NewestInv
  <1>7. FreshInv'
    <2>1. \A j \in 1..Len(creating') : api' < creating'[j].api
      BY <1>0, <1>1, <1>2, <1>5 DEF FreshInv
    <2>2. \A i, j \in 1..Len(creating') : i < j => creating'[i].api < creating'[j].api
      <3> SUFFICES ASSUME NEW i \in 1..Len(creating'), NEW j \in 1..Len(creating'), i < j
                   PROVE  creating'[i].api < creating'[j].api
        OBVIOUS
      <3>1. /\ i + 1 \in 1..Len(creating) /\ creating'[i] = creating[i + 1]
            /\ j + 1 \in 1..Len(creating) /\ creating'[j] = creating[j + 1]
            /\ i + 1 < j + 1
        BY <1>5
      <3>2. creating[i + 1].api < creating[j + 1].api
        BY <1>0, <3>1 DEF FreshInv
      <3> QED
        BY <3>1, <3>2
    <2> QED
      BY <1>0, <1>1, <1>5, <2>1, <2>2 DEF FreshInv
  <1>8. ConsentKnowsItsAssets'
    <2>1. \A i \in 1..Len(consents) : consents[i].api < new.api
      BY <1>0, <1>2 DEF FreshInv
    <2> QED
      BY <1>1, <1>3, <2>1 DEF ApiInv, ConsentKnowsItsAssets
  <1> QED
    BY <1>1, <1>4, <1>6, <1>7, <1>8 DEF ApiInv, OnceInv, RunsWhatWasAccepted

\* The application asks for something.
LEMMA ApiCallStep ==
    ASSUME ApiInv, NEW r \in Requests, Call(r)
    PROVE  ApiInv'
  <1> USE DAppApiAssumption
  <1> DEFINE ask == [api |-> api, request |-> r]
  <1>0. DAppApiTypeOK /\ NewestInv /\ FreshInv /\ OnceInv
    BY DEF ApiInv
  <1>1. /\ r \in unsent /\ unsent' = unsent \ {r}
        /\ UNCHANGED <<appPages, appOpen, apisMade, creating, api, listening, releaseApi,
                       consents, mappedAssets, accepted, ran, overlapped>>
    BY DEF Call
  <1>2. CASE checking' = checking
    BY <1>1, <1>2 DEF ApiInv, DAppApiTypeOK, NewestInv, FreshInv, OnceInv, RunsWhatWasAccepted,
                      ConsentKnowsItsAssets
  <1>3. CASE api \in listening /\ checking' = Append(checking, ask)
    <2>1. ask \in Ask /\ checking \in Seq(Ask) /\ ask.api = api /\ ask.request = r
      BY <1>0, <1>3 DEF DAppApiTypeOK, Ask
    <2> HIDE DEF ask
    <2>2. /\ checking' \in Seq(Ask)
          /\ Len(checking) \in Nat
          /\ Len(checking') = Len(checking) + 1
          /\ checking'[Len(checking) + 1] = ask
          /\ \A i \in 1..Len(checking) : checking'[i] = checking[i]
      BY <1>3, <2>1, AppendTo
    <2>3. \A i \in 1..Len(checking') : i \in 1..Len(checking) \/ i = Len(checking) + 1
      BY <2>2
    <2>4. DAppApiTypeOK'
      BY <1>0, <1>1, <2>2 DEF DAppApiTypeOK, Ask
    <2>5. FreshInv'
      <3>1. \A i \in 1..Len(checking') :
                /\ checking'[i].api <= apisMade
                /\ \A j \in 1..Len(creating) : checking'[i].api < creating[j].api
        BY <1>0, <2>1, <2>2, <2>3 DEF FreshInv, NewestInv
      <3> QED
        BY <1>0, <1>1, <3>1 DEF FreshInv
    <2>6. OnceInv'
      <3>1. \A i \in 1..Len(checking) : checking[i].request # r
        BY <1>0, <1>1 DEF OnceInv
      <3>2. \A i \in 1..Len(consents) : consents[i].request # r
        BY <1>0, <1>1 DEF OnceInv
      <3>3. \A i \in 1..Len(checking') :
                /\ checking'[i].request \notin unsent' /\ accepted[checking'[i].request] = 0
                /\ \A j \in 1..Len(consents) : checking'[i].request # consents[j].request
        BY <1>0, <1>1, <2>1, <2>2, <2>3, <3>2 DEF OnceInv
      <3>4. \A i, j \in 1..Len(checking') : i # j => checking'[i].request # checking'[j].request
        BY <1>0, <2>1, <2>2, <2>3, <3>1 DEF OnceInv
      <3> QED
        BY <1>0, <1>1, <3>3, <3>4 DEF OnceInv
    <2> QED
      BY <1>1, <2>4, <2>5, <2>6 DEF ApiInv, NewestInv, RunsWhatWasAccepted, ConsentKnowsItsAssets
  <1> QED
    BY <1>2, <1>3 DEF Call

\* A dialog opens.
LEMMA ConsentStep ==
    ASSUME ApiInv, AskConsent
    PROVE  ApiInv'
  <1> USE DAppApiAssumption
  <1> DEFINE ask == Head(checking)
  <1>0. DAppApiTypeOK /\ NewestInv /\ FreshInv /\ OnceInv
    BY DEF ApiInv
  <1>1. /\ checking # <<>> /\ checking' = Tail(checking)
        /\ UNCHANGED <<appPages, appOpen, apisMade, creating, api, listening, releaseApi,
                       unsent, accepted, ran>>
        /\ \/ UNCHANGED <<mappedAssets, consents, overlapped>>
           \/ /\ ask.api = api /\ mappedAssets' = {0, AssetOf[ask.request]}
              /\ consents' = Append(consents, ask)
              /\ overlapped' = (overlapped \/ \E i \in DOMAIN consents : consents[i].api = api)
    BY DEF AskConsent, Prepare
  <1>2. /\ ask \in Ask /\ ask = checking[1]
        /\ checking' \in Seq(Ask)
        /\ Len(checking) \in Nat \ {0}
        /\ Len(checking') = Len(checking) - 1
        /\ \A i \in 1..Len(checking) - 1 : checking'[i] = checking[i + 1]
    <2>1. checking \in Seq(Ask)
      BY <1>0 DEF DAppApiTypeOK, Ask
    <2> HIDE DEF ask
    <2> QED
      BY <1>1, <2>1, TailOf DEF ask
  <1>3. \A j \in 1..Len(checking') :
            j + 1 \in 1..Len(checking) /\ 1 # j + 1 /\ checking'[j] = checking[j + 1]
    BY <1>2
  <1> HIDE DEF ask
  <1>4. CASE UNCHANGED <<mappedAssets, consents, overlapped>>
    <2>1. DAppApiTypeOK'
      <3>1. overlapped' \in BOOLEAN
        BY <1>0, <1>4, Zenon DEF DAppApiTypeOK
      <3> QED
        BY <1>0, <1>1, <1>2, <1>4, <3>1 DEF DAppApiTypeOK, Ask
    <2>2. FreshInv'
      BY <1>0, <1>1, <1>3, <1>4 DEF FreshInv
    <2>3. OnceInv'
      BY <1>0, <1>1, <1>2, <1>3, <1>4 DEF OnceInv
    <2> QED
      BY <1>1, <1>4, <2>1, <2>2, <2>3 DEF ApiInv, NewestInv, RunsWhatWasAccepted, ConsentKnowsItsAssets
  <1>5. CASE /\ ask.api = api /\ mappedAssets' = {0, AssetOf[ask.request]}
             /\ consents' = Append(consents, ask)
             /\ overlapped' = (overlapped \/ \E i \in DOMAIN consents : consents[i].api = api)
    <2>1. /\ consents' \in Seq(Ask)
          /\ Len(consents) \in Nat
          /\ Len(consents') = Len(consents) + 1
          /\ consents'[Len(consents) + 1] = ask
          /\ \A i \in 1..Len(consents) : consents'[i] = consents[i]
      <3>1. consents \in Seq(Ask)
        BY <1>0 DEF DAppApiTypeOK, Ask
      <3> QED
        BY <1>2, <1>5, <3>1, AppendTo
    <2>2. /\ \A i \in 1..Len(consents') : i \in 1..Len(consents) \/ i = Len(consents) + 1
          /\ DOMAIN consents = 1..Len(consents) /\ DOMAIN consents' = 1..Len(consents')
      BY <2>1, <1>0, Items
    <2>3. ask.request \in Requests /\ ask.api \in Nat /\ AssetOf[ask.request] \in Nat
      BY <1>2 DEF Ask, Apis
    <2>4. DAppApiTypeOK'
      <3>1. overlapped' \in BOOLEAN
        BY <1>5, Zenon
      <3>2. mappedAssets' \subseteq Nat
        BY <1>5, <2>3
      <3> QED
        BY <1>0, <1>1, <1>2, <2>1, <3>1, <3>2 DEF DAppApiTypeOK, Ask
    <2>5. FreshInv'
      <3>1. ask.api <= apisMade /\ \A j \in 1..Len(creating) : ask.api < creating[j].api
        BY <1>0, <1>2 DEF FreshInv
      <3>2. \A i \in 1..Len(consents') :
                /\ consents'[i].api <= apisMade
                /\ \A j \in 1..Len(creating) : consents'[i].api < creating[j].api
        BY <1>0, <2>1, <2>2, <3>1 DEF FreshInv
      <3>3. \A i \in 1..Len(checking') :
                /\ checking'[i].api <= apisMade
                /\ \A j \in 1..Len(creating) : checking'[i].api < creating[j].api
        BY <1>0, <1>3 DEF FreshInv
      <3> QED
        BY <1>0, <1>1, <3>2, <3>3 DEF FreshInv
    <2>6. OnceInv'
      <3>1. /\ ask.request \notin unsent /\ accepted[ask.request] = 0
            /\ \A j \in 1..Len(consents) : ask.request # consents[j].request
            /\ \A j \in 1..Len(checking') : ask.request # checking'[j].request
        BY <1>0, <1>2, <1>3 DEF OnceInv
      <3>2. \A i \in 1..Len(checking') :
                /\ checking'[i].request \notin unsent /\ accepted[checking'[i].request] = 0
                /\ \A j \in 1..Len(checking') : i # j => checking'[i].request # checking'[j].request
        <4> TAKE i \in 1..Len(checking')
        <4>1. \A j \in 1..Len(checking') : i # j => i + 1 # j + 1
          BY <1>2
        <4>2. /\ checking'[i].request \notin unsent
              /\ accepted[checking'[i].request] = 0
          BY <1>0, <1>3 DEF OnceInv
        <4>3. ASSUME NEW j \in 1..Len(checking'), i # j
              PROVE  checking'[i].request # checking'[j].request
          BY <1>0, <1>3, <4>1, <4>3 DEF OnceInv
        <4> QED
          BY <4>2, <4>3
      <3>3. \A i \in 1..Len(checking'), j \in 1..Len(consents') :
                checking'[i].request # consents'[j].request
        BY <1>0, <1>3, <2>1, <2>2, <3>1 DEF OnceInv
      <3>4. \A i \in 1..Len(consents') :
                /\ consents'[i].request \notin unsent /\ accepted[consents'[i].request] = 0
                /\ \A j \in 1..Len(consents') : i # j => consents'[i].request # consents'[j].request
        BY <1>0, <2>1, <2>2, <3>1 DEF OnceInv
      <3> QED
        BY <1>0, <1>1, <3>2, <3>3, <3>4 DEF OnceInv
    <2>7. ConsentKnowsItsAssets'
      BY <1>1, <1>5, <2>1, <2>2 DEF ConsentKnowsItsAssets
    <2> QED
      BY <1>1, <2>4, <2>5, <2>6, <2>7 DEF ApiInv, NewestInv, RunsWhatWasAccepted
  <1> QED
    BY <1>1, <1>4, <1>5

\* The user answers the dialog on top.
LEMMA ConsentAnswerStep ==
    ASSUME ApiInv, NEW yes \in BOOLEAN, Answer(yes)
    PROVE  ApiInv'
  <1> USE DAppApiAssumption
  <1> DEFINE ask == Last(consents)
             r == ask.request
  <1>0. DAppApiTypeOK /\ NewestInv /\ FreshInv /\ OnceInv /\ RunsWhatWasAccepted
    BY DEF ApiInv
  <1>1. /\ consents # <<>> /\ consents' = Front(consents)
        /\ UNCHANGED <<appPages, appOpen, apisMade, creating, api, listening, releaseApi,
                       checking, mappedAssets, unsent, overlapped>>
        /\ \/ UNCHANGED <<accepted, ran>>
           \/ /\ accepted' = [accepted EXCEPT ![r] = @ + 1]
              /\ ran' = [ran EXCEPT ![r] = @ + 1] \/ ran' = ran
    BY DEF Answer, Approved
  <1>2. /\ ask \in Ask /\ ask = consents[Len(consents)]
        /\ consents' \in Seq(Ask)
        /\ Len(consents) \in Nat \ {0}
        /\ Len(consents') = Len(consents) - 1
        /\ \A i \in 1..Len(consents) - 1 : consents'[i] = consents[i]
    <2>1. consents \in Seq(Ask)
      BY <1>0 DEF DAppApiTypeOK, Ask
    <2> QED
      BY <1>1, <2>1, FrontOf
  <1>3. \A i \in 1..Len(consents') :
            i \in 1..Len(consents) /\ i # Len(consents) /\ consents'[i] = consents[i]
    BY <1>2
  <1>4. /\ r \in Requests /\ r \notin unsent /\ accepted[r] = 0 /\ ran[r] \in Nat /\ ran[r] <= 0
        /\ \A i \in 1..Len(consents') : consents'[i].request # r
        /\ \A i \in 1..Len(checking) : checking[i].request # r
    <2>1. r \in Requests
      BY <1>2 DEF Ask
    <2>2. Len(consents) \in 1..Len(consents)
      BY <1>2
    <2>3. r \notin unsent /\ accepted[r] = 0
      BY <1>0, <1>2, <2>2 DEF OnceInv
    <2>4. ran[r] \in Nat /\ ran[r] <= 0
      BY <1>0, <2>1, <2>3 DEF DAppApiTypeOK, RunsWhatWasAccepted
    <2>5. \A i \in 1..Len(consents') : consents'[i].request # r
      <3> SUFFICES ASSUME NEW i \in 1..Len(consents')
                   PROVE  consents'[i].request # r
        OBVIOUS
      <3>1. /\ i \in 1..Len(consents) /\ i # Len(consents) /\ consents'[i] = consents[i]
            /\ r = consents[Len(consents)].request
        BY <1>2, <1>3
      <3>2. consents[i].request # consents[Len(consents)].request
        BY <1>0, <2>2, <3>1 DEF OnceInv
      <3> QED
        BY <3>1, <3>2
    <2>6. \A i \in 1..Len(checking) : checking[i].request # r
      BY <1>0, <1>2, <2>2 DEF OnceInv
    <2> QED
      BY <2>1, <2>3, <2>4, <2>5, <2>6
  <1>5. /\ \A q \in Requests : q # r => accepted'[q] = accepted[q] /\ ran'[q] = ran[q]
        /\ accepted'[r] \in 0..1 /\ ran'[r] <= accepted'[r]
        /\ accepted' \in [Requests -> Nat] /\ ran' \in [Requests -> Nat]
    <2>1. accepted \in [Requests -> Nat] /\ ran \in [Requests -> Nat]
      BY <1>0 DEF DAppApiTypeOK
    <2>2. r \in Requests /\ accepted[r] = 0 /\ ran[r] = 0
      BY <1>4
    <2> HIDE DEF r
    <2>3. CASE UNCHANGED <<accepted, ran>>
      BY <2>1, <2>2, <2>3
    <2>4. CASE /\ accepted' = [accepted EXCEPT ![r] = @ + 1]
               /\ ran' = [ran EXCEPT ![r] = @ + 1] \/ ran' = ran
      <3>1. /\ accepted' \in [Requests -> Nat] /\ accepted'[r] = 1
            /\ \A q \in Requests : q # r => accepted'[q] = accepted[q]
        BY <2>1, <2>2, <2>4
      <3>2. /\ ran' \in [Requests -> Nat] /\ ran'[r] \in 0..1
            /\ \A q \in Requests : q # r => ran'[q] = ran[q]
        BY <2>1, <2>2, <2>4
      <3> QED
        BY <3>1, <3>2
    <2> QED
      BY <1>1, <2>3, <2>4
  <1>6. /\ \A i \in 1..Len(checking) : checking[i].request \in Requests
        /\ \A i \in 1..Len(consents) : consents[i].request \in Requests
        /\ DOMAIN consents = 1..Len(consents) /\ DOMAIN consents' = 1..Len(consents')
    <2>1. DOMAIN consents' = 1..Len(consents')
      BY <1>2, ItemOf
    <2> QED
      BY <1>0, <2>1, Items
  <1> HIDE DEF ask, r
  <1>7. DAppApiTypeOK'
    <2>1. overlapped' \in BOOLEAN /\ appOpen' \in BOOLEAN
      BY <1>0, <1>1, Zenon DEF DAppApiTypeOK
    <2> QED
      BY <1>0, <1>1, <1>2, <1>5, <2>1 DEF DAppApiTypeOK, Ask
  <1>8. FreshInv'
    BY <1>0, <1>1, <1>3 DEF FreshInv
  <1>9. OnceInv'
    <2>1. \A q \in unsent : accepted'[q] = 0
      BY <1>0, <1>4, <1>5 DEF OnceInv, DAppApiTypeOK
    <2>2. \A i \in 1..Len(checking) : accepted'[checking[i].request] = 0
      BY <1>0, <1>4, <1>5, <1>6 DEF OnceInv
    <2>3. \A i \in 1..Len(consents') : accepted'[consents'[i].request] = 0
      <3> TAKE i \in 1..Len(consents')
      <3>0. i \in 1..Len(consents) /\ consents'[i] = consents[i] /\ consents'[i].request # r
        BY <1>3, <1>4
      <3>1. /\ consents'[i].request \in Requests /\ accepted[consents'[i].request] = 0
            /\ consents'[i].request # r
        BY <1>0, <1>6, <3>0 DEF OnceInv
      <3> QED
        BY <1>5, <3>1
    <2> QED
      BY <1>0, <1>1, <1>3, <2>1, <2>2, <2>3 DEF OnceInv
  <1>10. RunsWhatWasAccepted'
    BY <1>0, <1>5 DEF RunsWhatWasAccepted
  <1>11. ConsentKnowsItsAssets'
    BY <1>1, <1>3, <1>6 DEF ApiInv, ConsentKnowsItsAssets
  <1> QED
    BY <1>0, <1>1, <1>7, <1>8, <1>9, <1>10, <1>11 DEF ApiInv, NewestInv

-----------------------------------------------------------------------------
\* Every variable keeps its type, and the invariant holds, in every behaviour.
THEOREM DAppApiTypeCorrect == DAppApiSpec => [](DAppApiTypeOK /\ ApiInv)
  <1>1. ApiInv /\ [DAppApiNext]_dappApiVars => ApiInv'
    <2> SUFFICES ASSUME ApiInv, [DAppApiNext]_dappApiVars
                 PROVE  ApiInv'
      OBVIOUS
    <2>1. CASE OpenPage \/ LaunchAgain \/ Reload
      BY <2>1, CreateSteps
    <2>2. CASE ClosePage
      BY <2>2, CloseStep
    <2>3. CASE ApiCreated
      BY <2>3, CreatedStep
    <2>4. CASE \E r \in Requests : Call(r)
      BY <2>4, ApiCallStep
    <2>5. CASE AskConsent
      BY <2>5, ConsentStep
    <2>6. CASE \E yes \in BOOLEAN : Answer(yes)
      BY <2>6, ConsentAnswerStep
    <2>7. CASE UNCHANGED dappApiVars
      BY <2>7 DEF dappApiVars, ApiInv, DAppApiTypeOK, NewestInv, FreshInv, OnceInv,
                  RunsWhatWasAccepted, ConsentKnowsItsAssets
    <2> QED
      BY <2>1, <2>2, <2>3, <2>4, <2>5, <2>6, <2>7 DEF DAppApiNext
  <1>2. ApiInv => DAppApiTypeOK
    BY DEF ApiInv
  <1> QED
    BY <1>1, <1>2, ApiInitInv, PTL DEF DAppApiSpec

\* A request runs at most once and only after the user accepted a dialog for it,
\* through reloads, second launches and dialogs on top of one another.
THEOREM AcceptedTheorem == DAppApiSpec => []RunsWhatWasAccepted
  <1>1. ApiInv => RunsWhatWasAccepted
    BY DEF ApiInv
  <1> QED
    BY <1>1, DAppApiTypeCorrect, PTL

\* An open page ends up with the API last asked for, and no other API lives,
\* whenever the answers of webapi_creator's requests arrive.
THEOREM PageTheorem == DAppApiSpec => []PageHasItsApi
  <1>1. ApiInv => PageHasItsApi
    BY DEF ApiInv, NewestInv, PageHasItsApi
  <1> QED
    BY <1>1, DAppApiTypeCorrect, PTL

\* As long as no two consents of one API have met, the API keeps the assets of
\* every dialog it may still be asked about.
THEOREM ConsentTheorem == DAppApiSpec => []ConsentKnowsItsAssets
  <1>1. ApiInv => ConsentKnowsItsAssets
    BY DEF ApiInv
  <1> QED
    BY <1>1, DAppApiTypeCorrect, PTL

-----------------------------------------------------------------------------
(* The exchange rates.                                                     *)

RatesMatch(u) ==
    \A c \in Currencies : market[c][u] # 0 => rates[c] = [unit |-> u, time |-> market[c][u]]

\* The rates of the unit are kept, or an answer with them is the last under
\* way, or a request for them is.
AskedInv ==
    rateUnit # Off =>
        \/ \E i \in 1..Len(rateCalls) : rateCalls[i] = "get"
        \/ Len(rateEvents) > 0 /\ rateEvents[Len(rateEvents)] = market
        \/ Len(rateEvents) = 0 /\ RatesMatch(rateUnit)

Newer(m, n) == \A c \in Currencies, u \in Units : m[c][u] <= n[c][u]

\* Rates only get newer, on their way to the page too.
OrderInv ==
    /\ \A c \in Currencies, u \in Units : market[c][u] <= clock
    /\ \A i \in 1..Len(rateEvents) :
           /\ Newer(rateEvents[i], market)
           /\ \A c \in Currencies, u \in Units :
                  rates[c].unit = u => rates[c].time <= rateEvents[i][c][u]
    /\ \A i, j \in 1..Len(rateEvents) : i < j => Newer(rateEvents[i], rateEvents[j])
    /\ \A c \in Currencies, u \in Units : rates[c].unit = u => rates[c].time <= market[c][u]

ShownInv ==
    updateTime # 0 =>
        rateUnit # Off /\ \E c \in Currencies : rates[c] = [unit |-> rateUnit, time |-> updateTime]

RatesInv == RatesTypeOK /\ AskedInv /\ OrderInv /\ ShownInv

-----------------------------------------------------------------------------
\* Two queues, one after the other.
LEMMA ConcatOf ==
    ASSUME NEW S, NEW s \in Seq(S), NEW t \in Seq(S)
    PROVE  /\ s \o t \in Seq(S)
           /\ Len(s) \in Nat /\ Len(t) \in Nat
           /\ Len(s \o t) = Len(s) + Len(t)
           /\ \A i \in 1..Len(t) : (s \o t)[Len(s) + i] = t[i]
  OBVIOUS

\* The invariant holds as the manager is made.
LEMMA RatesInitInv == RatesInit => RatesInv
  <1> SUFFICES ASSUME RatesInit
               PROVE  RatesInv
    OBVIOUS
  <1> USE RatesAssumption DEF RatesInit
  <1>1. clock \in Time /\ 1 \in Time /\ 0 \in Time
    BY DEF Time
  <1>2. market \in Market
    BY <1>1 DEF Market
  <1>3. rateCalls \in Seq({"on", "off", "get"}) /\ rateEvents \in Seq(Market)
    <2>1. CASE rateUnit = Off
      BY <2>1
    <2>2. CASE rateUnit # Off
      BY <2>2
    <2> QED
      BY <2>1, <2>2
  <1>4. rates \in [Currencies -> [unit: Units \cup {Off}, time: Time]]
    BY <1>1 DEF NoRate
  <1>5. RatesTypeOK
    <2>1. switchedOn \in BOOLEAN
      BY Zenon
    <2> QED
      BY <1>1, <1>2, <1>3, <1>4, <2>1 DEF RatesTypeOK
  <1>6. AskedInv
    <2>1. rateUnit # Off => Len(rateCalls) = 1 /\ rateCalls[1] = "get"
      OBVIOUS
    <2> QED
      BY <2>1 DEF AskedInv
  <1>7. OrderInv
    BY DEF OrderInv, NoRate
  <1> QED
    BY <1>5, <1>6, <1>7 DEF RatesInv, ShownInv

-----------------------------------------------------------------------------
\* The wallet's rates become newer and are told as the last ones.
LEMMA MarketStep ==
    ASSUME RatesInv, NEW currencies \in SUBSET Currencies, NEW unit \in Units,
           MarketMoves(currencies, unit)
    PROVE  RatesInv'
  <1> USE RatesAssumption DEF RatesInv, RatesTypeOK, MarketMoves
  <1>1. clock' = clock + 1 /\ clock \in Nat /\ clock' \in Time
    BY DEF Time
  <1>2. market' \in Market
    BY <1>1 DEF Market
  <1>3. \A c \in Currencies, u \in Units :
            /\ market[c][u] \in Nat
            /\ market[c][u] <= market'[c][u]
            /\ market'[c][u] <= clock'
    BY <1>1 DEF OrderInv, Market, Time
  <1>4. /\ rateEvents' \in Seq(Market)
        /\ Len(rateEvents) \in Nat
        /\ Len(rateEvents') = Len(rateEvents) + 1
        /\ rateEvents'[Len(rateEvents) + 1] = market'
        /\ \A i \in 1..Len(rateEvents) : rateEvents'[i] = rateEvents[i]
    <2> HIDE DEF MarketMoves
    <2>1. rateEvents' = Append(rateEvents, market')
      BY DEF MarketMoves
    <2> QED
      BY <1>2, <2>1, AppendTo
  <1>5. RatesTypeOK'
    <2>1. switchedOn' \in BOOLEAN
      BY Zenon
    <2> QED
      BY <1>1, <1>2, <1>4, <2>1
  <1>6. AskedInv'
    BY <1>4 DEF AskedInv
  <1>7. OrderInv'
    <2>1. /\ \A i \in 1..Len(rateEvents) : rateEvents[i] \in Market
          /\ \A c \in Currencies : rates[c].time \in Nat
      BY DEF Time
    <2>a. OrderInv
      OBVIOUS
    <2>b. \A c \in Currencies, u \in Units : market'[c][u] \in Nat
      BY <1>2 DEF Market, Time
    <2>2. \A i \in 1..Len(rateEvents) : Newer(rateEvents'[i], market')
      <3> SUFFICES ASSUME NEW i \in 1..Len(rateEvents), NEW c \in Currencies, NEW u \in Units
                   PROVE  rateEvents'[i][c][u] <= market'[c][u]
        BY DEF Newer
      <3> HIDE DEF RatesInv, RatesTypeOK, MarketMoves
      <3>1. rateEvents[i][c][u] <= market[c][u] /\ rateEvents[i][c][u] \in Nat
        BY <2>1, <2>a DEF OrderInv, Newer, Market, Time
      <3>2. rateEvents'[i] = rateEvents[i] /\ market[c][u] <= market'[c][u]
            /\ market[c][u] \in Nat
        BY <1>3, <1>4
      <3> QED
        BY <2>b, <3>1, <3>2
    <2>3. Newer(market', market')
      BY <1>2 DEF Newer, Market, Time
    <2>4. \A c \in Currencies, u \in Units : rates[c].unit = u => rates[c].time <= market'[c][u]
      <3> HIDE DEF RatesInv, RatesTypeOK, MarketMoves
      <3> QED
        BY <1>3, <2>1, <2>a, <2>b DEF OrderInv
    <2>5. rates' = rates /\ \A i \in 1..Len(rateEvents') : i \in 1..Len(rateEvents) \/ i = Len(rateEvents) + 1
      BY <1>4
    <2> HIDE DEF RatesInv, RatesTypeOK, MarketMoves
    <2>6. OrderInv
      BY DEF RatesInv
    <2>7. \A i, j \in 1..Len(rateEvents') : i < j => Newer(rateEvents'[i], rateEvents'[j])
      BY <1>4, <2>2, <2>5, <2>6 DEF OrderInv
    <2>8. \A i \in 1..Len(rateEvents') : Newer(rateEvents'[i], market')
      BY <1>4, <2>2, <2>3, <2>5
    <2>9. \A i \in 1..Len(rateEvents') : \A c \in Currencies, u \in Units :
              rates'[c].unit = u => rates'[c].time <= rateEvents'[i][c][u]
      BY <1>4, <2>4, <2>5, <2>6 DEF OrderInv
    <2> QED
      BY <1>3, <2>4, <2>5, <2>7, <2>8, <2>9 DEF OrderInv, Newer
  <1>8. ShownInv'
    BY DEF ShownInv
  <1> QED
    BY <1>5, <1>6, <1>7, <1>8

\* A request is answered with the wallet's rates.
LEMMA RateCallStep ==
    ASSUME RatesInv, RunRateCall
    PROVE  RatesInv'
  <1> USE RatesAssumption DEF RatesInv, RatesTypeOK
  <1> DEFINE op == Head(rateCalls)
  <1>1. /\ rateCalls # <<>> /\ rateCalls' = Tail(rateCalls)
        /\ UNCHANGED <<market, clock, rateUnit, rates, updateTime>>
        /\ \/ op = "get" /\ rateEvents' = Append(rateEvents, market) /\ UNCHANGED switchedOn
           \/ /\ op \in {"on", "off"} /\ UNCHANGED rateEvents
              /\ switchedOn' = (op = "on")
    BY DEF RunRateCall
  <1>2. /\ op \in {"on", "off", "get"} /\ op = rateCalls[1]
        /\ rateCalls' \in Seq({"on", "off", "get"})
        /\ Len(rateCalls) \in Nat \ {0}
        /\ Len(rateCalls') = Len(rateCalls) - 1
        /\ \A i \in 1..Len(rateCalls) - 1 : rateCalls'[i] = rateCalls[i + 1]
    <2>1. rateCalls \in Seq({"on", "off", "get"})
      OBVIOUS
    <2> QED
      BY <1>1, <2>1, TailOf
  <1>3. switchedOn' \in BOOLEAN
    <2>1. CASE UNCHANGED switchedOn
      BY <2>1
    <2>2. CASE switchedOn' = (op = "on")
      BY <2>2, Zenon
    <2> QED
      BY <1>1, <2>1, <2>2
  <1>4. op # "get" => \A i \in 1..Len(rateCalls) : rateCalls[i] = "get" =>
                          i - 1 \in 1..Len(rateCalls') /\ rateCalls'[i - 1] = "get"
    BY <1>2
  <1>5. CASE op = "get" /\ rateEvents' = Append(rateEvents, market)
    <2>1. /\ rateEvents' \in Seq(Market)
          /\ Len(rateEvents) \in Nat
          /\ Len(rateEvents') = Len(rateEvents) + 1
          /\ rateEvents'[Len(rateEvents) + 1] = market
          /\ \A i \in 1..Len(rateEvents) : rateEvents'[i] = rateEvents[i]
      BY <1>5, AppendTo
    <2>2. RatesTypeOK'
      BY <1>1, <1>2, <1>3, <2>1
    <2>3. AskedInv'
      BY <1>1, <2>1 DEF AskedInv
    <2>4. Newer(market, market)
      BY DEF Newer, Market, Time
    <2>5. OrderInv'
      <3> HIDE DEF RatesInv, RatesTypeOK
      <3>1. OrderInv
        BY DEF RatesInv
      <3>2. \A i \in 1..Len(rateEvents') : i \in 1..Len(rateEvents) \/ i = Len(rateEvents) + 1
        BY <2>1
      <3>3. \A i, j \in 1..Len(rateEvents') : i < j => Newer(rateEvents'[i], rateEvents'[j])
        BY <2>1, <3>1, <3>2 DEF OrderInv
      <3>4. \A i \in 1..Len(rateEvents') : Newer(rateEvents'[i], market)
        BY <2>1, <2>4, <3>1, <3>2 DEF OrderInv
      <3>5. \A i \in 1..Len(rateEvents') : \A c \in Currencies, u \in Units :
                rates[c].unit = u => rates[c].time <= rateEvents'[i][c][u]
        BY <2>1, <3>1, <3>2 DEF OrderInv
      <3> QED
        BY <1>1, <3>1, <3>3, <3>4, <3>5 DEF OrderInv, Newer
    <2> QED
      BY <1>1, <2>2, <2>3, <2>5 DEF ShownInv
  <1>6. CASE op # "get" /\ UNCHANGED rateEvents
    <2>1. RatesTypeOK'
      BY <1>1, <1>2, <1>3, <1>6
    <2>2. AskedInv'
      BY <1>1, <1>4, <1>6 DEF AskedInv, RatesMatch
    <2> QED
      BY <1>1, <1>6, <2>1, <2>2 DEF OrderInv, Newer, ShownInv
  <1> QED
    BY <1>1, <1>5, <1>6

\* Another unit is chosen: a request for its rates is posted.
LEMMA ChooseStep ==
    ASSUME RatesInv, NEW unit \in Units \cup {Off}, ChooseUnit(unit)
    PROVE  RatesInv'
  <1> USE RatesAssumption DEF RatesInv, RatesTypeOK, ChooseUnit
  <1>1. /\ rateCalls' \in Seq({"on", "off", "get"})
        /\ unit # Off => /\ Len(rateCalls') \in Nat \ {0}
                         /\ rateCalls'[Len(rateCalls')] = "get"
    <2> DEFINE new == IF unit = Off THEN <<"off">> ELSE <<"on", "get">>
    <2>1. /\ new \in Seq({"on", "off", "get"})
          /\ unit # Off => Len(new) = 2 /\ new[2] = "get"
      <3>1. CASE unit = Off
        BY <3>1
      <3>2. CASE unit # Off
        BY <3>2
      <3> QED
        BY <3>1, <3>2
    <2>2. rateCalls' = rateCalls \o new /\ rateCalls \in Seq({"on", "off", "get"})
      OBVIOUS
    <2> HIDE DEF new, RatesInv, RatesTypeOK, ChooseUnit
    <2>3. /\ rateCalls' \in Seq({"on", "off", "get"})
          /\ Len(rateCalls) \in Nat
          /\ Len(rateCalls') = Len(rateCalls) + Len(new)
          /\ \A i \in 1..Len(new) : rateCalls'[Len(rateCalls) + i] = new[i]
      BY <2>1, <2>2, ConcatOf
    <2> QED
      BY <2>1, <2>3
  <1>2. RatesTypeOK'
    <2>1. switchedOn' \in BOOLEAN
      BY Zenon
    <2>2. updateTime' \in Time
      BY DEF Time
    <2> QED
      BY <1>1, <2>1, <2>2
  <1>3. AskedInv'
    BY <1>1 DEF AskedInv
  <1> QED
    BY <1>2, <1>3 DEF OrderInv, Newer, ShownInv

-----------------------------------------------------------------------------
\* The page takes rates over.
LEMMA UpdateStep ==
    ASSUME RatesInv, OnExchangeRates
    PROVE  RatesInv'
  <1> DEFINE told == Head(rateEvents)
             new == TakenOver(told)
  <1> USE RatesAssumption
  <1>1. /\ told \in Market /\ told = rateEvents[1]
        /\ rateEvents' \in Seq(Market)
        /\ Len(rateEvents) \in Nat \ {0}
        /\ Len(rateEvents') = Len(rateEvents) - 1
        /\ \A i \in 1..Len(rateEvents) - 1 : rateEvents'[i] = rateEvents[i + 1]
    <2>1. rateEvents \in Seq(Market) /\ rateEvents # <<>> /\ rateEvents' = Tail(rateEvents)
      BY DEF OnExchangeRates, RatesInv, RatesTypeOK
    <2> QED
      BY <2>1, TailOf
  <1>2. /\ UNCHANGED <<market, clock, switchedOn, rateCalls, rateUnit>>
        /\ rates' = [c \in Currencies |->
                        IF c \in new THEN [unit |-> rateUnit, time |-> told[c][rateUnit]]
                        ELSE rates[c]]
    BY DEF OnExchangeRates
  <1>3. PICK last \in {updateTime} \cup {told[c][rateUnit] : c \in new} :
            /\ \A t \in {updateTime} \cup {told[c][rateUnit] : c \in new} : t <= last
            /\ updateTime' = last
    BY Zenon DEF OnExchangeRates
  <1>4. \A c \in new : c \in Currencies /\ rateUnit \in Units /\ told[c][rateUnit] \in Time
    BY <1>1 DEF TakenOver, Market, RatesInv, RatesTypeOK
  <1>5. RatesTypeOK'
    <2>1. last \in Time
      BY <1>3, <1>4 DEF RatesInv, RatesTypeOK
    <2>2. rates' \in [Currencies -> [unit: Units \cup {Off}, time: Time]]
      BY <1>2, <1>4 DEF RatesInv, RatesTypeOK
    <2>3. switchedOn' \in BOOLEAN
      BY <1>2 DEF RatesInv, RatesTypeOK
    <2> QED
      BY <1>1, <1>2, <1>3, <2>1, <2>2, <2>3 DEF RatesInv, RatesTypeOK
  <1>6. AskedInv'
    <2>1. CASE Len(rateEvents) > 1
      BY <1>1, <1>2, <2>1 DEF RatesInv, AskedInv
    <2>2. CASE Len(rateEvents) = 1 /\ told = market
      <3>1. rateUnit # Off => RatesMatch(rateUnit)'
        BY <1>2, <2>2 DEF RatesMatch, TakenOver
      <3> QED
        BY <1>1, <1>2, <2>2, <3>1 DEF AskedInv, RatesMatch
    <2>3. CASE Len(rateEvents) = 1 /\ told # market
      BY <1>1, <1>2, <2>3 DEF RatesInv, AskedInv
    <2> QED
      BY <1>1, <2>1, <2>2, <2>3
  <1>7. OrderInv'
    <2>1. OrderInv /\ RatesTypeOK
      BY DEF RatesInv
    <2>2. \A i \in 1..Len(rateEvents') :
              /\ i + 1 \in 1..Len(rateEvents) /\ rateEvents'[i] = rateEvents[i + 1]
              /\ Newer(told, rateEvents'[i])
      BY <1>1, <2>1 DEF OrderInv
    <2>3. Newer(told, market)
      BY <1>1, <2>1 DEF OrderInv
    <2>4. \A c \in Currencies, u \in Units : rates'[c].unit = u =>
              \/ c \in new /\ u = rateUnit /\ rates'[c].time = told[c][u]
              \/ rates[c].unit = u /\ rates'[c].time = rates[c].time
      BY <1>2
    <2>5. \A c \in Currencies, u \in Units : rates'[c].unit = u => rates'[c].time <= market[c][u]
      BY <2>1, <2>3, <2>4 DEF OrderInv, Newer
    <2>6. \A i \in 1..Len(rateEvents') : \A c \in Currencies, u \in Units :
              rates'[c].unit = u => rates'[c].time <= rateEvents'[i][c][u]
      BY <2>1, <2>2, <2>4 DEF OrderInv, Newer
    <2>7. \A i \in 1..Len(rateEvents') : Newer(rateEvents'[i], market)
      BY <2>1, <2>2 DEF OrderInv
    <2>8. \A i, j \in 1..Len(rateEvents') : i < j => Newer(rateEvents'[i], rateEvents'[j])
      <3> TAKE i, j \in 1..Len(rateEvents')
      <3> HAVE i < j
      <3>1. i + 1 \in 1..Len(rateEvents) /\ j + 1 \in 1..Len(rateEvents) /\ i + 1 < j + 1
        BY <2>2
      <3>2. Newer(rateEvents[i + 1], rateEvents[j + 1])
        BY <2>1, <3>1 DEF OrderInv
      <3> QED
        BY <2>2, <3>2
    <2> QED
      BY <1>2, <2>1, <2>5, <2>6, <2>7, <2>8 DEF OrderInv, Newer
  <1>8. ShownInv'
    <2> SUFFICES ASSUME updateTime' # 0
                 PROVE  rateUnit # Off
                        /\ \E c \in Currencies : rates'[c] = [unit |-> rateUnit, time |-> last]
      BY <1>2, <1>3 DEF ShownInv
    <2>1. CASE \E c \in new : told[c][rateUnit] = last
      BY <1>2, <1>4, <2>1, RatesAssumption
    <2>2. CASE last = updateTime /\ ~ \E c \in new : told[c][rateUnit] = last
      <3>1. PICK c \in Currencies : rates[c] = [unit |-> rateUnit, time |-> updateTime]
        BY <1>3, <2>2 DEF ShownInv, RatesInv
      <3>2. rateUnit \in Units
        BY <1>3, <2>2 DEF ShownInv, RatesInv, RatesTypeOK
      <3>3. updateTime <= told[c][rateUnit]
        BY <1>1, <3>1, <3>2 DEF OrderInv, RatesInv
      <3>4. c \notin new
        <4>1. c \in new => told[c][rateUnit] <= last /\ told[c][rateUnit] \in Time
          BY <1>3, <1>4
        <4>2. updateTime \in Time
          BY DEF RatesInv, RatesTypeOK
        <4> QED
          BY <2>2, <3>3, <4>1, <4>2 DEF Time
      <3> QED
        BY <1>2, <2>2, <3>1, <3>2, <3>4, RatesAssumption
    <2> QED
      BY <1>3, <2>1, <2>2
  <1> QED
    BY <1>5, <1>6, <1>7, <1>8 DEF RatesInv

\* Nothing moves.
LEMMA RatesStutter ==
    ASSUME RatesInv, UNCHANGED ratesVars
    PROVE  RatesInv'
  BY DEF RatesInv, RatesTypeOK, AskedInv, RatesMatch, OrderInv, Newer, ShownInv, ratesVars

-----------------------------------------------------------------------------
\* Every variable keeps its type, and the invariant holds, in every behaviour.
THEOREM RatesTypeCorrect == RatesSpec => [](RatesTypeOK /\ RatesInv)
  <1>1. RatesInv /\ [RatesNext]_ratesVars => RatesInv'
    <2> SUFFICES ASSUME RatesInv, [RatesNext]_ratesVars
                 PROVE  RatesInv'
      OBVIOUS
    <2>1. CASE \E currencies \in SUBSET Currencies, unit \in Units : MarketMoves(currencies, unit)
      BY <2>1, MarketStep
    <2>2. CASE RunRateCall
      BY <2>2, RateCallStep
    <2>3. CASE \E unit \in Units \cup {Off} : ChooseUnit(unit)
      BY <2>3, ChooseStep
    <2>4. CASE OnExchangeRates
      BY <2>4, UpdateStep
    <2>5. CASE UNCHANGED ratesVars
      BY <2>5, RatesStutter
    <2> QED
      BY <2>1, <2>2, <2>3, <2>4, <2>5 DEF RatesNext
  <1>2. RatesInv => RatesTypeOK
    BY DEF RatesInv
  <1> QED
    BY <1>1, <1>2, RatesInitInv, PTL DEF RatesSpec

\* The time shown is that of a kept rate in the unit chosen, and the rates kept
\* are the wallet's once nothing is under way, although setRateUnit keeps the
\* former rates and answers to former requests come in between.
THEOREM RatesTheorem == RatesSpec => []RatesAreOfUnit
  <1>1. RatesInv => RatesAreOfUnit
    <2> SUFFICES ASSUME RatesInv
                 PROVE  RatesAreOfUnit
      OBVIOUS
    <2>1. rateCalls = <<>> => Len(rateCalls) = 0
      OBVIOUS
    <2>2. rateEvents = <<>> => Len(rateEvents) = 0
      OBVIOUS
    <2> QED
      BY <2>1, <2>2 DEF RatesInv, AskedInv, RatesMatch, ShownInv, RatesAreOfUnit
  <1> QED
    BY <1>1, RatesTypeCorrect, PTL

-----------------------------------------------------------------------------
(* The own addresses and the address book.                                 *)

AddrEvent == {Changed} \cup [kind: {"addresses"}, of: LabelOf]

AddressesTypeInv ==
    /\ labelOf \in LabelOf
    /\ addrCalls \in Nat
    /\ addrEvents \in Seq(AddrEvent)
    /\ entering \in Change \cup {NoChange}
    /\ myWalletIds \subseteq Addresses
    /\ myAddrLabels \subseteq Labels
    /\ bookOpen \in BOOLEAN
    /\ bookAddresses \subseteq Addresses \X Labels

\* The sets and the page are those of the wallet.
Known ==
    /\ myWalletIds = IdsOf(labelOf)
    /\ myAddrLabels = LabelsOf(labelOf)
    /\ bookAddresses = {<<a, labelOf[a]>> : a \in IdsOf(labelOf)}

\* While the page is open: a request will still be run; or a change will be
\* handled and make one; or the last answer, made after all changes were
\* entered, is under way; or all is known.
RepairInv ==
    bookOpen =>
        \/ addrCalls > 0
        \/ \E i \in 1..Len(addrEvents) : addrEvents[i] = Changed
        \/ /\ entering = NoChange
           /\ Len(addrEvents) > 0
           /\ addrEvents[Len(addrEvents)] = [kind |-> "addresses", of |-> labelOf]
        \/ entering = NoChange /\ Len(addrEvents) = 0 /\ Known

AddressesInv == AddressesTypeInv /\ RepairInv

-----------------------------------------------------------------------------
\* The type invariant is the module's.
LEMMA AddressesTypes == AddressesTypeInv <=> OwnAddressesTypeOK
  BY DEF AddressesTypeInv, OwnAddressesTypeOK, AddrEvent

\* The wallet model has asked as it was made.
LEMMA AddressesInitInv == OwnAddressesInit => AddressesInv
  <1> SUFFICES ASSUME OwnAddressesInit
               PROVE  AddressesInv
    OBVIOUS
  <1> USE DEF OwnAddressesInit
  <1>1. bookOpen \in BOOLEAN /\ ~bookOpen
    BY Zenon
  <1>2. /\ labelOf \in LabelOf /\ addrCalls \in Nat /\ addrEvents \in Seq(AddrEvent)
        /\ entering \in Change \cup {NoChange}
        /\ myWalletIds \subseteq Addresses /\ myAddrLabels \subseteq Labels
        /\ bookAddresses \subseteq Addresses \X Labels
    OBVIOUS
  <1> QED
    BY <1>1, <1>2 DEF AddressesInv, AddressesTypeInv, RepairInv

-----------------------------------------------------------------------------
\* A change announced will be handled.
LEMMA AnnounceStep ==
    ASSUME AddressesInv, NEW a \in Addresses, NEW label \in Labels \cup {NoLabel}, AnnounceChange(a, label)
    PROVE  AddressesInv'
  <1> USE OwnAddressesAssumption
  <1>1. /\ labelOf' = [labelOf EXCEPT ![a] = label] /\ label # labelOf[a]
        /\ addrEvents' = Append(addrEvents, Changed)
        /\ entering' = IF label = NoLabel
                       THEN [id |-> a, label |-> labelOf[a], removed |-> TRUE]
                       ELSE [id |-> a, label |-> label, removed |-> FALSE]
        /\ UNCHANGED <<addrCalls, myWalletIds, myAddrLabels, bookOpen, bookAddresses>>
    BY DEF AnnounceChange
  <1>2. labelOf' \in LabelOf
    BY <1>1 DEF AddressesInv, AddressesTypeInv, LabelOf
  <1>3. entering' \in Change
    <2>1. CASE label = NoLabel
      <3>1. labelOf[a] \in Labels
        BY <1>1, <2>1 DEF AddressesInv, AddressesTypeInv, LabelOf
      <3> QED
        BY <1>1, <2>1, <3>1, Zenon DEF Change
    <2>2. CASE label # NoLabel
      <3>1. label \in Labels
        BY <2>2
      <3> QED
        BY <1>1, <2>2, <3>1, Zenon DEF Change
    <2> QED
      BY <2>1, <2>2
  <1>4. /\ addrEvents' \in Seq(AddrEvent)
        /\ Len(addrEvents) \in Nat
        /\ Len(addrEvents') = Len(addrEvents) + 1
        /\ addrEvents'[Len(addrEvents) + 1] = Changed
    <2>1. addrEvents \in Seq(AddrEvent) /\ Changed \in AddrEvent
      BY DEF AddressesInv, AddressesTypeInv, AddrEvent
    <2> QED
      BY <1>1, <2>1, AppendTo
  <1>5. AddressesTypeInv'
    BY <1>1, <1>2, <1>3, <1>4 DEF AddressesInv, AddressesTypeInv
  <1> QED
    BY <1>4, <1>5 DEF AddressesInv, RepairInv

\* Entering a change spoils what is known, and a request is still to come.
LEMMA EnterStep ==
    ASSUME AddressesInv, EnterChange
    PROVE  AddressesInv'
  <1>1. /\ entering # NoChange /\ entering' = NoChange
        /\ UNCHANGED <<labelOf, addrCalls, addrEvents, bookOpen, bookAddresses>>
    BY DEF EnterChange
  <1>2. entering \in Change /\ entering.id \in Addresses /\ entering.label \in Labels
    BY <1>1 DEF AddressesInv, AddressesTypeInv, Change
  <1>3. myWalletIds' \subseteq Addresses /\ myAddrLabels' \subseteq Labels
    BY <1>2 DEF EnterChange, AddressesInv, AddressesTypeInv
  <1>4. AddressesTypeInv'
    BY <1>1, <1>3 DEF AddressesInv, AddressesTypeInv
  <1>5. RepairInv'
    BY <1>1 DEF AddressesInv, RepairInv
  <1> QED
    BY <1>4, <1>5 DEF AddressesInv

\* The wallet answers with the addresses it has, all changes entered.
LEMMA AddressCallStep ==
    ASSUME AddressesInv, RunAddressCall
    PROVE  AddressesInv'
  <1> DEFINE e == [kind |-> "addresses", of |-> labelOf]
  <1>1. /\ entering = NoChange /\ addrCalls > 0 /\ addrCalls' = addrCalls - 1
        /\ addrEvents' = Append(addrEvents, e)
        /\ UNCHANGED <<labelOf, entering, myWalletIds, myAddrLabels, bookOpen, bookAddresses>>
    BY DEF RunAddressCall
  <1>2. /\ addrEvents' \in Seq(AddrEvent)
        /\ Len(addrEvents) \in Nat
        /\ Len(addrEvents') = Len(addrEvents) + 1
        /\ addrEvents'[Len(addrEvents) + 1] = e
    <2>1. addrEvents \in Seq(AddrEvent) /\ e \in AddrEvent
      BY DEF AddressesInv, AddressesTypeInv, AddrEvent
    <2> HIDE DEF e
    <2> QED
      BY <1>1, <2>1, AppendTo
  <1>3. addrCalls' \in Nat
    BY <1>1 DEF AddressesInv, AddressesTypeInv
  <1>4. AddressesTypeInv'
    BY <1>1, <1>2, <1>3 DEF AddressesInv, AddressesTypeInv
  <1> QED
    BY <1>1, <1>2, <1>4 DEF AddressesInv, RepairInv

-----------------------------------------------------------------------------
\* An answer replaces the sets, unless a change is just being entered: then
\* its announcement is still to be handled, or its request to be run.
LEMMA AddressAnswerStep ==
    ASSUME AddressesInv, OnOwnAddresses
    PROVE  AddressesInv'
  <1> USE OwnAddressesAssumption
  <1> DEFINE own == Head(addrEvents).of
  <1>1. /\ addrEvents # <<>> /\ addrEvents' = Tail(addrEvents)
        /\ Head(addrEvents).kind = "addresses"
        /\ SetAddresses(own)
        /\ bookAddresses' = IF bookOpen THEN {<<a, own[a]>> : a \in IdsOf(own)} ELSE {}
        /\ UNCHANGED <<labelOf, addrCalls, entering, bookOpen>>
    BY DEF OnOwnAddresses
  <1>2. /\ Head(addrEvents) \in AddrEvent /\ Head(addrEvents) = addrEvents[1]
        /\ addrEvents' \in Seq(AddrEvent)
        /\ Len(addrEvents) \in Nat \ {0}
        /\ Len(addrEvents') = Len(addrEvents) - 1
        /\ \A i \in 1..Len(addrEvents) - 1 : addrEvents'[i] = addrEvents[i + 1]
    <2>1. addrEvents \in Seq(AddrEvent)
      BY DEF AddressesInv, AddressesTypeInv
    <2> QED
      BY <1>1, <2>1, TailOf
  <1>3. own \in LabelOf /\ addrEvents[1] # Changed
    BY <1>1, <1>2 DEF AddrEvent, Changed
  <1> HIDE DEF own
  <1>4. AddressesTypeInv'
    <2>1. IdsOf(own) \subseteq Addresses /\ \A a \in IdsOf(own) : own[a] \in Labels
      BY <1>3 DEF IdsOf, LabelOf
    <2>2. myWalletIds' \subseteq Addresses /\ myAddrLabels' \subseteq Labels
      BY <1>1, <2>1 DEF SetAddresses, LabelsOf
    <2>3. bookAddresses' \subseteq Addresses \X Labels
      BY <1>1, <2>1
    <2> QED
      BY <1>1, <1>2, <2>2, <2>3 DEF AddressesInv, AddressesTypeInv
  <1>5. RepairInv'
    <2> SUFFICES ASSUME bookOpen, ~(addrCalls > 0),
                        ~ \E i \in 1..Len(addrEvents') : addrEvents'[i] = Changed
                 PROVE  RepairInv'
      BY <1>1 DEF RepairInv
    <2>1. ~ \E i \in 1..Len(addrEvents) : addrEvents[i] = Changed
      <3> SUFFICES ASSUME NEW i \in 1..Len(addrEvents), addrEvents[i] = Changed
                   PROVE  FALSE
        OBVIOUS
      <3>1. i - 1 \in 1..Len(addrEvents') /\ addrEvents'[i - 1] = addrEvents[i]
        BY <1>2, <1>3
      <3> QED
        BY <3>1
    <2>2. /\ entering = NoChange
          /\ addrEvents[Len(addrEvents)] = [kind |-> "addresses", of |-> labelOf]
      BY <1>2, <2>1 DEF AddressesInv, RepairInv
    <2>3. CASE Len(addrEvents) = 1
      <3>1. own = labelOf
        BY <1>2, <2>2, <2>3 DEF own
      <3>2. Known'
        BY <1>1, <2>2, <3>1 DEF Known, SetAddresses, IdsOf, LabelsOf
      <3> QED
        BY <1>1, <1>2, <2>2, <2>3, <3>2 DEF RepairInv
    <2>4. CASE Len(addrEvents) # 1
      BY <1>1, <1>2, <2>2, <2>4 DEF RepairInv
    <2> QED
      BY <2>3, <2>4
  <1> QED
    BY <1>4, <1>5 DEF AddressesInv

\* The page asks again after a change, as it does when it opens.
LEMMA PageStep ==
    ASSUME AddressesInv, OnAddressChanged \/ OpenBook \/ CloseBook
    PROVE  AddressesInv'
  <1>1. CASE OnAddressChanged
    <2>1. /\ addrEvents # <<>> /\ addrEvents' = Tail(addrEvents)
          /\ addrCalls' = IF bookOpen THEN addrCalls + 1 ELSE addrCalls
          /\ UNCHANGED <<labelOf, entering, myWalletIds, myAddrLabels, bookOpen, bookAddresses>>
      BY <1>1 DEF OnAddressChanged
    <2>2. addrEvents' \in Seq(AddrEvent)
      BY <2>1, TailOf DEF AddressesInv, AddressesTypeInv
    <2>3. addrCalls' \in Nat /\ (bookOpen => addrCalls' > 0)
      BY <2>1 DEF AddressesInv, AddressesTypeInv
    <2>4. AddressesTypeInv'
      BY <2>1, <2>2, <2>3 DEF AddressesInv, AddressesTypeInv
    <2> QED
      BY <2>1, <2>3, <2>4 DEF AddressesInv, RepairInv
  <1>2. CASE OpenBook
    <2>1. /\ bookOpen' /\ bookAddresses' = {} /\ addrCalls' = addrCalls + 1
          /\ UNCHANGED <<labelOf, addrEvents, entering, myWalletIds, myAddrLabels>>
      BY <1>2 DEF OpenBook
    <2>2. addrCalls' \in Nat /\ addrCalls' > 0
      BY <2>1 DEF AddressesInv, AddressesTypeInv
    <2>3. bookOpen' \in BOOLEAN
      BY <1>2, Zenon DEF OpenBook
    <2>4. AddressesTypeInv'
      BY <2>1, <2>2, <2>3 DEF AddressesInv, AddressesTypeInv
    <2> QED
      BY <2>2, <2>4 DEF AddressesInv, RepairInv
  <1>3. CASE CloseBook
    <2>1. /\ ~bookOpen' /\ bookAddresses' = {}
          /\ UNCHANGED <<labelOf, addrCalls, addrEvents, entering, myWalletIds, myAddrLabels>>
      BY <1>3 DEF CloseBook
    <2>2. bookOpen' \in BOOLEAN
      BY <1>3, Zenon DEF CloseBook
    <2> QED
      BY <2>1, <2>2 DEF AddressesInv, AddressesTypeInv, RepairInv
  <1> QED
    BY <1>1, <1>2, <1>3

-----------------------------------------------------------------------------
\* Every variable keeps its type, and the invariant holds, in every behaviour.
THEOREM OwnAddressesTypeCorrect == OwnAddressesSpec => [](OwnAddressesTypeOK /\ AddressesInv)
  <1>1. AddressesInv /\ [OwnAddressesNext]_ownAddressesVars => AddressesInv'
    <2> SUFFICES ASSUME AddressesInv, [OwnAddressesNext]_ownAddressesVars
                 PROVE  AddressesInv'
      OBVIOUS
    <2>1. CASE \E a \in Addresses, label \in Labels \cup {NoLabel} : AnnounceChange(a, label)
      BY <2>1, AnnounceStep
    <2>2. CASE UNCHANGED ownAddressesVars
      BY <2>2 DEF ownAddressesVars, AddressesInv, AddressesTypeInv, RepairInv, Known
    <2> QED
      BY <2>1, <2>2, EnterStep, AddressCallStep, AddressAnswerStep, PageStep DEF OwnAddressesNext
  <1>2. AddressesInv => OwnAddressesTypeOK
    BY AddressesTypes DEF AddressesInv
  <1> QED
    BY <1>1, <1>2, AddressesInitInv, PTL DEF OwnAddressesSpec

\* With the address book open, the wallet model and the page end up with the
\* wallet's own addresses and labels: the request after each change outlives
\* dropped and stale labels, answers of before a change, and spoilt sets.
THEOREM AtRestTheorem == OwnAddressesSpec => []OwnAddressesAtRest
  <1>1. AddressesInv => OwnAddressesAtRest
    <2> SUFFICES ASSUME AddressesInv, bookOpen, addrCalls = 0, addrEvents = <<>>
                 PROVE  Known
      BY DEF OwnAddressesAtRest, Known
    <2>1. Len(addrEvents) = 0
      OBVIOUS
    <2> QED
      BY <2>1 DEF AddressesInv, RepairInv
  <1> QED
    BY <1>1, OwnAddressesTypeCorrect, PTL
=============================================================================
