---------------------------- MODULE DAppLibrary ----------------------------
(***************************************************************************)
(* The DApp library of ui/viewmodel/applications/apps_view.cpp and its     *)
(* page ui/view/applications: the folders of the installed applications,   *)
(* the lists the page keeps of them, of the bundled ones and of those in   *)
(* the DApp Store contract, and the installations, updates and removals    *)
(* the user asks for.  The handlers run on the UI thread; what is          *)
(* concurrent is the user, the downloads from IPFS, the calls of the store *)
(* contract, the publishers and a stop of the program half way through a   *)
(* sequence of file operations.                                            *)
(*                                                                         *)
(* A folder is Absent, Partial (no manifest that can be read), holds a     *)
(* whole version, or half of one: its manifest and not all of its files.   *)
(* The lists see the manifests only. A download is good or bad, and a good *)
(* one has the guid and the name that were asked for, which is all the     *)
(* code compares. Left out: the development application, icons, the        *)
(* unwanted publishers, publishing itself and whether IPFS has peers.      *)
(***************************************************************************)
EXTENDS Naturals, Integers, Sequences, FiniteSets, SequencesExt

CONSTANTS
  DApps,        \* the guids
  NoDApp,
  MaxVersion,   \* bound: versions are 1..MaxVersion
  Bundled,      \* the version shipped with the wallet, 0 when it is not
  Slots,        \* bound: downloads under way
  MaxCalls,     \* bound: store calls and answers under way
  MaxArmed,     \* bound: handlers connected to the removal dialog
  Honest,       \* a package carries the version it was announced with
  Patient,      \* the user waits for a download and never cancels a removal
  Faulty,       \* removing or renaming a folder may fail
  Crashing      \* the program may stop at any point

ASSUME LibraryAssumption ==
  /\ NoDApp \notin DApps
  /\ MaxVersion \in Nat \ {0}
  /\ Bundled \in [DApps -> 0..MaxVersion]
  /\ MaxCalls \in Nat \ {0}
  /\ Honest \in BOOLEAN /\ Patient \in BOOLEAN /\ Faulty \in BOOLEAN /\ Crashing \in BOOLEAN

VARIABLES
  disk,        \* the two folders of each application, <guid> and <guid>-backup
  localApps,   \* _localApps: the versions found in them by the last scan
  shaderApps,  \* _shaderApps: the versions in the last answer of the store
  store,       \* the DApp Store contract
  asked,       \* view_dapps calls the reactor has not run yet
  answers,     \* their answers on the way to the page
  requests,    \* downloads from IPFS under way
  busy,        \* the panels that show progress
  confirming,  \* the application the removal dialog is open for
  armed,       \* the panels an acceptHandler is connected for, oldest first
  missed,      \* a handler of the last removal did not find its application
  launched,    \* an application is open over the page
  promised     \* the applications the user was last told are installed

page   == <<busy, confirming, armed, missed, launched>>
calls  == <<asked, answers>>
vars   == <<disk, localApps, shaderApps, store, calls, requests, page, promised>>

Versions == 1..MaxVersion
Absent   == -1
Partial  == 0
Half(v)  == MaxVersion + v
Halves   == {Half(v) : v \in Versions}
Content  == {Absent, Partial} \cup Versions \cup Halves
Folders  == [folder : Content, backup : Content]
Empty    == [folder |-> Absent, backup |-> Absent]
Panel    == DApps \X {"folder", "backup"}

NoRequest == [kind |-> "none", app |-> NoDApp, version |-> 0]
Request   == [kind : {"install", "update"}, app : DApps, version : Versions]

TypeOK ==
  /\ disk \in [DApps -> Folders]
  /\ localApps \in [DApps -> [folder : 0..MaxVersion, backup : 0..MaxVersion]]
  /\ shaderApps \in [DApps -> 0..MaxVersion]
  /\ store \in [DApps -> 0..MaxVersion]
  /\ asked \in 0..MaxCalls
  /\ answers \in Seq([DApps -> 0..MaxVersion])
  /\ asked + Len(answers) <= MaxCalls
  /\ requests \in [Slots -> Request \cup {NoRequest}]
  /\ busy \subseteq DApps
  /\ confirming \in DApps \cup {NoDApp}
  /\ armed \in Seq(Panel)
  /\ missed \in BOOLEAN
  /\ launched \in BOOLEAN
  /\ promised \subseteq DApps

-----------------------------------------------------------------------------
(* The lists. *)

(* What a scan of the folders finds: the manifests it can read. *)
Manifest(c) == IF c \in Versions THEN c
               ELSE IF c \in Halves THEN c - MaxVersion ELSE 0
Scan(fs) == [d \in DApps |-> [folder |-> Manifest(fs[d].folder),
                              backup |-> Manifest(fs[d].backup)]]

(* The copy of an application that stands first in the list: a backup sorts
   after the folder it was made from. *)
First(found) == IF found.folder > 0 THEN found.folder ELSE found.backup

(* The whole copy that is left of an application. *)
Whole(x) == IF x.folder \in Versions THEN x.folder
            ELSE IF x.backup \in Versions THEN x.backup ELSE 0
OnDisk(d) == Whole(disk[d]) > 0

Installed(d) == First(localApps[d]) > 0
HasUpdate(d) == Installed(d) /\ shaderApps[d] > First(localApps[d])

(* The panels the list has for d. A copy the store knows is shown once; the
   bundled application only when nothing else has its guid. *)
Copies(d) == {c \in {"folder", "backup"} : localApps[d][c] > 0}
FirstCopy(d) == IF localApps[d].folder > 0 THEN {"folder"} ELSE {"backup"}
Panels(d) ==
  IF Installed(d)
  THEN IF shaderApps[d] > 0 THEN FirstCopy(d) ELSE Copies(d)
  ELSE IF shaderApps[d] > 0 THEN {"store"}
  ELSE IF Bundled[d] > 0 THEN {"bundled"} ELSE {}

(* The model is reset when the list changes: the panels are made anew, their
   progress is lost and their handlers have nothing left to act on. *)
ListChanged(changed) ==
  IF changed THEN busy' = {} /\ armed' = <<>>
             ELSE UNCHANGED <<busy, armed>>

(* loadApps: the folders are scanned at once, the store is asked. *)
AskStore == /\ asked' = IF asked + Len(answers) < MaxCalls
                        THEN asked + 1 ELSE asked
            /\ UNCHANGED answers
LoadApps == /\ localApps' = Scan(disk')
            /\ ListChanged(localApps' # localApps)
            /\ AskStore

-----------------------------------------------------------------------------
(* What the handlers do to the two folders of one application. The result of
   a handler is where it leaves them and what it tells the user; its trace is
   every state a stop of the program can leave them in. *)

Result(x, said) == [to |-> x, ok |-> said]

(* What is left of a folder whose removal stops half way. *)
Damaged(c) == (IF c = Absent THEN {} ELSE {Partial})
              \cup {h \in Halves : Manifest(h) = Manifest(c)}

(* removeRecursively that fails leaves the folder whole or damaged. *)
Remains(c) == IF Faulty /\ c # Absent THEN {c} \cup Damaged(c) ELSE {}

(* The versions a package announced as v may carry: checkManifestFile compares
   its guid and its name. *)
Package(v) == IF Honest THEN {v} ELSE Versions

(* updateDApp: an existing folder is renamed to a backup, which fails when
   there is one; the download is unpacked; the backup is removed or, when
   unpacking failed, put back. *)
CanBackUp(x) == x.folder = Absent \/ x.backup = Absent
(* A mutant: the folder is removed where it should be renamed. *)
BackedUp_Removes(x) == [x EXCEPT !.folder = Absent]
BackedUp(x)  == IF x.folder = Absent THEN x
                ELSE [folder |-> Absent, backup |-> x.folder]
Restored(y)  == IF y.backup = Absent THEN y
                ELSE [folder |-> y.backup, backup |-> Absent]

UpdateResults(x, v) ==
  {Result(x, FALSE)}
  \cup IF ~CanBackUp(x) THEN {}
       ELSE LET y == BackedUp(x) IN
            {Result([folder |-> v, backup |-> c], TRUE) :
                 c \in {Absent} \cup Remains(y.backup)}
            \cup {Result(Restored(y), FALSE)}
            \cup (IF Faulty
                  THEN {Result([y EXCEPT !.folder = c], FALSE) :
                          c \in {Absent, Partial, Half(v)}}
                  ELSE {})

UpdateTrace(x, v) ==
  {u.to : u \in UpdateResults(x, v)}
  \cup IF ~CanBackUp(x) THEN {}
       ELSE LET y == BackedUp(x) IN
            {y} \cup {[y EXCEPT !.folder = c] : c \in {Partial, Half(v), v}}
                \cup {[folder |-> v, backup |-> c] : c \in Damaged(y.backup)}

(* installFromBuffer, installFromFileImpl: an existing folder is removed, the
   file unpacked; a backup is not looked at. *)
InstallResults(x, v) ==
  {Result(x, FALSE), Result([x EXCEPT !.folder = v], TRUE),
   Result([x EXCEPT !.folder = Partial], FALSE)}
  \cup {Result([x EXCEPT !.folder = c], FALSE) :
           c \in Remains(x.folder) \cup (IF Faulty THEN {Half(v)} ELSE {})}

InstallTrace(x, v) ==
  {i.to : i \in InstallResults(x, v)}
  \cup {[x EXCEPT !.folder = c] :
           c \in {Absent, Partial, Half(v)} \cup Damaged(x.folder)}

-----------------------------------------------------------------------------
(* The page is made: init. *)
OpenPage ==
  /\ localApps' = Scan(disk')
  /\ shaderApps' = [d \in DApps |-> 0]
  /\ asked' = 1
  /\ answers' = <<>>
  /\ requests' = [s \in Slots |-> NoRequest]
  /\ busy' = {}
  /\ confirming' = NoDApp
  /\ armed' = <<>>
  /\ missed' = FALSE
  /\ launched' = FALSE

Init ==
  /\ disk \in [DApps -> {[Empty EXCEPT !.folder = c] : c \in {Absent, 1}}]
  /\ localApps = Scan(disk)
  /\ shaderApps = [d \in DApps |-> 0]
  /\ store = [d \in DApps |-> 1]
  /\ asked = 1
  /\ answers = <<>>
  /\ requests = [s \in Slots |-> NoRequest]
  /\ busy = {}
  /\ confirming = NoDApp
  /\ armed = <<>>
  /\ missed = FALSE
  /\ launched = FALSE
  /\ promised = {d \in DApps : OnDisk(d)}

-----------------------------------------------------------------------------
(* The user. *)

Idle(s) == requests[s] = NoRequest
UserActs == /\ ~launched
            /\ confirming = NoDApp
            /\ Patient => \A s \in Slots : Idle(s)

Download(kind, d) ==
  \E s \in Slots :
    /\ Idle(s)
    /\ requests' = [requests EXCEPT ![s] =
                      [kind |-> kind, app |-> d, version |-> shaderApps[d]]]

(* A mutant: the panel is not asked where its application comes from. *)
Install_FromAnywhere(d) ==
  /\ UserActs
  /\ d \notin busy
  /\ Panels(d) # {} /\ ~Installed(d)
  /\ busy' = busy \cup {d}
  /\ Download("install", d)
  /\ UNCHANGED <<disk, localApps, shaderApps, store, calls, confirming, armed,
                 missed, launched, promised>>

(* A click on the panel of an application the store has and the disk has not:
   installApp. *)
Install(d) ==
  /\ UserActs
  /\ d \notin busy
  /\ "store" \in Panels(d)
  /\ busy' = busy \cup {d}
  /\ Download("install", d)
  /\ UNCHANGED <<disk, localApps, shaderApps, store, calls, confirming, armed,
                 missed, launched, promised>>

(* A mutant: the lists are not loaded again. *)
EndInstall_NoReload(d, r) ==
  /\ disk' = [disk EXCEPT ![d] = r.to]
  /\ promised' = IF r.ok THEN promised \cup {d} ELSE promised
  /\ UNCHANGED <<localApps, calls, busy, armed>>

(* The end of every installation: loadApps only when it went well. *)
EndInstall(d, r) ==
  /\ disk' = [disk EXCEPT ![d] = r.to]
  /\ IF r.ok THEN /\ LoadApps
                  /\ promised' = promised \cup {d}
             ELSE UNCHANGED <<localApps, calls, busy, armed, promised>>

(* The same click on a bundled application: unpacked at once. The panel is
   busy before installApp runs and stays so when it fails. *)
InstallBundled(d) ==
  /\ UserActs
  /\ d \notin busy
  /\ "bundled" \in Panels(d)
  /\ \E r \in InstallResults(disk[d], Bundled[d]) :
       /\ disk' = [disk EXCEPT ![d] = r.to]
       /\ IF r.ok THEN /\ LoadApps
                       /\ promised' = promised \cup {d}
                  ELSE /\ busy' = busy \cup {d}
                       /\ UNCHANGED <<localApps, calls, armed, promised>>
  /\ UNCHANGED <<shaderApps, store, requests, confirming, missed,
                 launched>>

(* A file dropped on the page: refused when the list has its guid. *)
InstallFromFile(d, v) ==
  /\ UserActs
  /\ Panels(d) = {}
  /\ \E r \in InstallResults(disk[d], v) : EndInstall(d, r)
  /\ UNCHANGED <<shaderApps, store, requests, confirming, missed,
                 launched>>

(* A click on a panel with an update, or the menu of the panel, which does not
   ask whether it is busy: updateDApp. *)
Update(d) ==
  /\ UserActs
  /\ HasUpdate(d)
  /\ busy' = busy \cup {d}
  /\ Download("update", d)
  /\ UNCHANGED <<disk, localApps, shaderApps, store, calls, confirming, armed,
                 missed, launched, promised>>

(* The menu's Uninstall opens the one confirmation dialog of the page and
   connects another handler to its accepted signal, for the panel's copy. *)
AskUninstall(d, copy) ==
  /\ UserActs
  /\ Len(armed) < MaxArmed
  /\ Installed(d)
  /\ copy \in Panels(d)
  /\ busy' = busy \cup {d}
  /\ confirming' = d
  /\ armed' = Append(armed, <<d, copy>>)
  /\ UNCHANGED <<disk, localApps, shaderApps, store, calls, requests, missed,
                 launched, promised>>

(* Cancel leaves the handler connected. *)
CancelUninstall ==
  /\ confirming # NoDApp
  /\ ~Patient
  /\ confirming' = NoDApp
  /\ UNCHANGED <<disk, localApps, shaderApps, store, calls, requests, busy,
                 armed, missed, launched, promised>>

(* The folders after the copies in gone were removed, with what is left of
   each: nothing when uninstallLocalApp went well. *)
Without(gone, left) ==
  [d \in DApps |->
     [folder |-> IF <<d, "folder">> \in gone THEN left[<<d, "folder">>]
                                            ELSE disk[d].folder,
      backup |-> IF <<d, "backup">> \in gone THEN left[<<d, "backup">>]
                                            ELSE disk[d].backup]]

Removals(gone) ==
  {left \in [gone -> Content] :
     \A p \in gone : left[p] \in {Absent} \cup Remains(disk[p[1]][p[2]])}

(* A mutant: a handler whose removal fails stays connected. *)
AcceptUninstall_StaysConnected ==
  /\ confirming # NoDApp
  /\ \E gone \in SUBSET ToSet(armed) : \E left \in Removals(gone) :
       LET done     == {p \in gone : left[p] = Absent}
           Late(i)  == \E j \in 1..(i - 1) : armed[j] \in done
           Again(i) == armed[i] \in done /\ \E j \in 1..(i - 1) : armed[j] = armed[i]
       IN /\ \A i \in DOMAIN armed : armed[i] \in gone \/ Late(i)
          /\ missed' \in {FALSE, \E i \in DOMAIN armed :
                                   Again(i) \/ armed[i] \notin gone}
          /\ disk' = Without(gone, left)
          /\ IF done # {} THEN LoadApps ELSE UNCHANGED <<armed, localApps, calls, busy>>
  /\ confirming' = NoDApp
  /\ promised' = promised \ {confirming}
  /\ UNCHANGED <<shaderApps, store, requests, launched>>

(* Every connected handler runs, the oldest first, once for every time it was
   connected. The first removal that goes well resets the list: a handler that
   comes after it may find its application still, and removes it, or not, when
   the lookup of uninstallLocalApp fails or the handler itself does. *)
AcceptUninstall ==
  /\ confirming # NoDApp
  /\ \E gone \in SUBSET ToSet(armed) : \E left \in Removals(gone) :
       LET done     == {p \in gone : left[p] = Absent}
           Late(i)  == \E j \in 1..(i - 1) : armed[j] \in done
           Again(i) == armed[i] \in done /\ \E j \in 1..(i - 1) : armed[j] = armed[i]
       IN /\ \A i \in DOMAIN armed : armed[i] \in gone \/ Late(i)
          /\ missed' \in {FALSE, \E i \in DOMAIN armed :
                                   Again(i) \/ armed[i] \notin gone}
          /\ disk' = Without(gone, left)
          /\ IF done # {} THEN LoadApps
             ELSE /\ armed' = <<>>
                  /\ UNCHANGED <<localApps, calls, busy>>
  /\ confirming' = NoDApp
  /\ promised' = promised \ {confirming}
  /\ UNCHANGED <<shaderApps, store, requests, launched>>

(* An installed application is opened over the page, and closed. *)
Launch(d) ==
  /\ UserActs
  /\ d \notin busy
  /\ Installed(d) /\ ~HasUpdate(d)
  /\ launched' = TRUE
  /\ UNCHANGED <<disk, localApps, shaderApps, store, calls, requests, busy,
                 confirming, armed, missed, promised>>

Back ==
  /\ launched
  /\ launched' = FALSE
  /\ UNCHANGED <<disk, localApps, shaderApps, store, calls, requests, busy,
                 confirming, armed, missed, promised>>

(* The page is left and opened again: the answers of its downloads find
   nobody. *)
Reopen ==
  /\ UserActs
  /\ UNCHANGED <<disk, store, promised>>
  /\ OpenPage

-----------------------------------------------------------------------------
(* The answers. *)

Close(s) == requests' = [requests EXCEPT ![s] = NoRequest]

OnInstallData(s) ==
  /\ requests[s].kind = "install"
  /\ \E v \in Package(requests[s].version) :
       \E r \in InstallResults(disk[requests[s].app], v) :
         EndInstall(requests[s].app, r)
  /\ Close(s)
  /\ UNCHANGED <<shaderApps, store, confirming, missed, launched>>

OnUpdateData(s) ==
  /\ requests[s].kind = "update"
  /\ \E v \in Package(requests[s].version) :
       \E r \in UpdateResults(disk[requests[s].app], v) :
         EndInstall(requests[s].app, r)
  /\ Close(s)
  /\ UNCHANGED <<shaderApps, store, confirming, missed, launched>>

(* The download timed out; stopProgress. *)
OnTimeout(s) ==
  /\ ~Idle(s)
  /\ busy' = busy \ {requests[s].app}
  /\ Close(s)
  /\ UNCHANGED <<disk, localApps, shaderApps, store, calls, confirming, armed,
                 missed, launched, promised>>

(* The wallet's status changed: the lists are loaded again. prepareToLaunchApp
   disconnects the model of the opened application, which was never connected,
   and not the model of this page. *)
OnWalletStatus ==
  /\ asked + Len(answers) < MaxCalls
  /\ UNCHANGED <<disk, shaderApps, store, requests, confirming, missed, launched,
                 promised>>
  /\ LoadApps

(* A mutant: the first list of the store is kept. *)
OnStoreApps_KeepsFirst ==
  /\ answers # <<>>
  /\ shaderApps' = IF \E d \in DApps : shaderApps[d] > 0 THEN shaderApps
                   ELSE Head(answers)
  /\ answers' = Tail(answers)
  /\ ListChanged(shaderApps' # shaderApps)
  /\ UNCHANGED <<disk, localApps, store, asked, requests, confirming, missed,
                 launched, promised>>

(* The answer of the store. *)
OnStoreApps ==
  /\ answers # <<>>
  /\ shaderApps' = Head(answers)
  /\ answers' = Tail(answers)
  /\ ListChanged(shaderApps' # shaderApps)
  /\ UNCHANGED <<disk, localApps, store, asked, requests, confirming, missed,
                 launched, promised>>

-----------------------------------------------------------------------------
(* The environment: the reactor runs the contract's view_dapps, which may
   fail, and publishers change the contract. *)

RunViewDapps ==
  /\ asked > 0
  /\ asked' = asked - 1
  /\ answers' = Append(answers, store)
  /\ UNCHANGED <<disk, localApps, shaderApps, store, requests, page, promised>>

FailViewDapps ==
  /\ asked > 0
  /\ asked' = asked - 1
  /\ UNCHANGED <<disk, localApps, shaderApps, store, answers, requests, page,
                 promised>>

Publish(d, v) ==
  /\ v # store[d]
  /\ store[d] > 0 => v > store[d] \/ v = 0
  /\ store' = [store EXCEPT ![d] = v]
  /\ UNCHANGED <<disk, localApps, shaderApps, calls, requests, page, promised>>

(* The program stops inside a handler, or between two, and is started again. *)
Crash ==
  /\ Crashing
  /\ \/ UNCHANGED <<disk, promised>>
     \/ \E s \in Slots : LET q == requests[s] IN
          /\ \E v \in Package(q.version) :
               \/ /\ q.kind = "install"
                  /\ \E x \in InstallTrace(disk[q.app], v) :
                       disk' = [disk EXCEPT ![q.app] = x]
               \/ /\ q.kind = "update"
                  /\ \E x \in UpdateTrace(disk[q.app], v) :
                       disk' = [disk EXCEPT ![q.app] = x]
          /\ UNCHANGED promised
     \/ /\ confirming # NoDApp
        /\ \E gone \in SUBSET ToSet(armed) : \E left \in [gone -> Content] :
             /\ \A p \in gone :
                  left[p] \in {Absent} \cup Damaged(disk[p[1]][p[2]])
             /\ disk' = Without(gone, left)
        /\ promised' = promised \ {confirming}
  /\ OpenPage
  /\ UNCHANGED store

User == \/ \E d \in DApps : \/ Install(d) \/ InstallBundled(d) \/ Update(d)
                            \/ Launch(d)
                            \/ \E c \in {"folder", "backup"} : AskUninstall(d, c)
                            \/ \E v \in Versions : InstallFromFile(d, v)
        \/ CancelUninstall \/ AcceptUninstall \/ Back \/ Reopen

Next ==
  \/ User
  \/ \E s \in Slots : OnInstallData(s) \/ OnUpdateData(s) \/ OnTimeout(s)
  \/ OnWalletStatus \/ OnStoreApps \/ RunViewDapps \/ FailViewDapps
  \/ \E d \in DApps, v \in 0..MaxVersion : Publish(d, v)
  \/ Crash

Spec == Init /\ [][Next]_vars

(* The wallet's status keeps changing, the reactor keeps running what was
   posted and not every call fails, the UI thread delivers every answer. *)
Fairness == /\ WF_vars(OnWalletStatus)
            /\ SF_vars(RunViewDapps)
            /\ WF_vars(OnStoreApps)
FairSpec == Spec /\ Fairness

-----------------------------------------------------------------------------
(* Whatever the order of clicks and answers, whichever file operation fails
   and wherever the program stops, half way through unpacking too, an
   application with a whole copy before a step has one after it, unless the
   step answers the removal dialog or an installation that was asked for: an
   update never costs the user his copy (the rename, unpack, put back or remove
   sequence of updateDApp). *)
UpdateKeepsACopy ==
  [][\A d \in DApps :
       OnDisk(d) /\ ~OnDisk(d)' =>
         \/ confirming # NoDApp
         \/ \E s \in Slots : requests[s].kind = "install" /\ requests[s].app = d]_vars

(* For a user who waits for his downloads, the library keeps the promise of
   DAppShelf through crashes and failing file operations: what he was told is
   installed stays, as a whole copy, until he removes it, and versions only go
   up as long as packages carry the version they are announced with. *)
Shelf == INSTANCE DAppShelf WITH
           shelf <- [d \in DApps |-> Whole(disk[d])], Upwards <- Honest
KeepsThePromise == Shelf!Spec

(* When publishers leave the contract alone, the folders are left alone and
   the page stays open, the page ends up showing both as they are, whatever
   calls failed and whatever its cached lists were. *)
ListCatchesUp ==
  <>[][UNCHANGED <<store, disk>> /\ ~Reopen /\ ~Crash]_vars
    => <>[](shaderApps = store /\ localApps = Scan(disk))

(* The assertion of uninstallLocalApp (apps_view.cpp:1308-1312): through
   removals that fail, lists that change under the open dialog and stops of the
   program, the application a removal is asked for is in the list, as long as
   the user never cancels one. *)
RemovalFindsItsApp == ~missed

(* The removal dialog asks "Are you sure you want to uninstall %1 DApp?"
   (AppsList.qml:173): accepting it costs no other application its copy. *)
RemovesWhatItNames ==
  [][\A d \in DApps :
       confirming \notin {NoDApp, d} /\ confirming' = NoDApp /\ OnDisk(d)
         => OnDisk(d)']_vars

(* The comment of prepareToLaunchApp (apps_view.cpp:394-395): while an
   application is open the updates are off, "to avoid polling the Dapp Store
   contract". *)
NoPollingWhileLaunched == [][launched /\ launched' => asked' <= asked]_vars

=============================================================================
