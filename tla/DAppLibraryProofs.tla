-------------------------- MODULE DAppLibraryProofs --------------------------
(***************************************************************************)
(* Theorems about DAppLibrary, for every set of applications, versions and *)
(* downloads, with and without failing file operations and crashes.        *)
(*                                                                         *)
(* What makes UpdateKeepsACopy true is that the page never takes an        *)
(* application for missing while a whole copy of it is left: then neither  *)
(* the bundled version nor a file is unpacked over it.                     *)
(*                                                                         *)
(* The second half shows that DAppLibrary implements DAppShelf for a       *)
(* patient user.                                                           *)
(***************************************************************************)
EXTENDS DAppLibrary, TLAPS

\* An application with a whole copy is one the page shows installed.
DiskInv == \A d \in DApps : OnDisk(d) => Installed(d)

\* The handlers a cancelled removal leaves connected belong to copies the page
\* still shows.
ArmedInv == \A i \in DOMAIN armed : localApps[armed[i][1]][armed[i][2]] > 0

IInv == TypeOK /\ DiskInv /\ ArmedInv

\* The two folders of an application hold a whole copy.
Runs(x) == x.folder \in Versions \/ x.backup \in Versions

Found == [folder : 0..MaxVersion, backup : 0..MaxVersion]

-----------------------------------------------------------------------------
(* What the handlers leave of the folders of one application. *)

LEMMA VersionsAreContent ==
    /\ Versions \subseteq Content /\ Absent \in Content /\ Partial \in Content
    /\ Absent \notin Versions /\ Partial \notin Versions /\ Absent # Partial
    /\ \A v \in Versions : Half(v) \in Content /\ Half(v) \notin Versions
  BY LibraryAssumption DEF Content, Versions, Absent, Partial, Half, Halves

LEMMA ManifestType ==
    ASSUME NEW c \in Content
    PROVE  /\ Manifest(c) \in 0..MaxVersion
           /\ c \in Versions => Manifest(c) = c /\ c > 0
           /\ c \in {Absent, Partial} => Manifest(c) = 0
  BY LibraryAssumption
  DEF Manifest, Content, Versions, Absent, Partial, Half, Halves

LEMMA HalfManifest ==
    ASSUME NEW v \in Versions
    PROVE  Manifest(Half(v)) = v
  BY LibraryAssumption DEF Manifest, Versions, Half, Halves

LEMMA ScanFinds ==
    ASSUME NEW fs \in [DApps -> Folders]
    PROVE  /\ Scan(fs) \in [DApps -> Found]
           /\ \A d \in DApps : Runs(fs[d]) => First(Scan(fs)[d]) > 0
  <1>1. ASSUME NEW d \in DApps
        PROVE  /\ Scan(fs)[d] \in Found
               /\ Runs(fs[d]) => First(Scan(fs)[d]) > 0
    <2>1. fs[d].folder \in Content /\ fs[d].backup \in Content
      BY DEF Folders
    <2>2. Scan(fs)[d] = [folder |-> Manifest(fs[d].folder),
                         backup |-> Manifest(fs[d].backup)]
      BY DEF Scan
    <2> QED
      BY <2>1, <2>2, ManifestType, LibraryAssumption DEF Found, First, Runs
  <1>2. Scan(fs) = [d \in DApps |-> Scan(fs)[d]]
    BY DEF Scan
  <1> QED
    BY <1>1, <1>2

\* The version of a whole copy.
LEMMA WholeType ==
    ASSUME NEW x \in Folders
    PROVE  /\ Whole(x) \in 0..MaxVersion
           /\ Whole(x) = 0 <=> ~Runs(x)
           /\ Runs(x) <=> Whole(x) > 0
  BY LibraryAssumption DEF Whole, Runs, Versions

\* k is what a removal may leave of a folder that held c.
Lesser(k, c) == /\ k \in Content
                /\ k \in Versions => k = c
                /\ Manifest(k) \in {0, Manifest(c)}

LEMMA DamagedLesser ==
    ASSUME NEW c \in Content, NEW k \in {Absent, c} \cup Damaged(c)
    PROVE  Lesser(k, c)
  <1>1. CASE k \in {Absent, Partial, c}
    BY <1>1, VersionsAreContent, ManifestType DEF Lesser
  <1>2. CASE k \in Halves /\ Manifest(k) = Manifest(c)
    BY <1>2, VersionsAreContent DEF Lesser, Halves
  <1> QED
    BY <1>1, <1>2 DEF Damaged

LEMMA RemainsLesser ==
    ASSUME NEW c \in Content, NEW k \in Remains(c)
    PROVE  Lesser(k, c) /\ k \in {c} \cup Damaged(c)
  <1>1. k \in {c} \cup Damaged(c)
    BY DEF Remains
  <1> QED
    BY <1>1, DamagedLesser

LEMMA InstallLeaves ==
    ASSUME NEW x \in Folders, NEW v \in Versions, NEW r \in InstallResults(x, v)
    PROVE  /\ r.to \in Folders /\ r.ok \in BOOLEAN
           /\ ~r.ok => (Runs(r.to) => Runs(x))
  <1>1. x.folder \in Content /\ x.backup \in Content
    BY DEF Folders
  <1>2. CASE r = Result(x, FALSE)
    BY <1>2 DEF Result
  <1>3. CASE r = Result([x EXCEPT !.folder = v], TRUE)
    BY <1>1, <1>3, VersionsAreContent DEF Result, Folders
  <1>4. ASSUME NEW c \in {Partial, Half(v)} \cup Remains(x.folder),
               r = Result([x EXCEPT !.folder = c], FALSE)
        PROVE  /\ r.to \in Folders /\ r.ok \in BOOLEAN
               /\ ~r.ok => (Runs(r.to) => Runs(x))
    <2>1. c \in Content /\ (c \in Versions => c = x.folder)
      BY <1>1, VersionsAreContent, RemainsLesser DEF Lesser
    <2> QED
      BY <1>1, <1>4, <2>1 DEF Result, Folders, Runs
  <1> QED
    BY <1>2, <1>3, <1>4 DEF InstallResults

LEMMA InstallTraceType ==
    ASSUME NEW x \in Folders, NEW v \in Versions, NEW y \in InstallTrace(x, v)
    PROVE  y \in Folders
  <1>1. ASSUME NEW c \in {Absent, Partial, Half(v)} \cup Damaged(x.folder),
               y = [x EXCEPT !.folder = c]
        PROVE  y \in Folders
    <2>1. c \in Content
      BY VersionsAreContent, DamagedLesser DEF Lesser, Folders
    <2> QED
      BY <1>1, <2>1 DEF Folders
  <1> QED
    BY <1>1, InstallLeaves DEF InstallTrace

\* The rename that starts an update moves the copies, it loses none.
LEMMA BackedUpKeeps ==
    ASSUME NEW x \in Folders, CanBackUp(x)
    PROVE  /\ BackedUp(x) \in Folders
           /\ BackedUp(x).folder = Absent
           /\ Runs(BackedUp(x)) <=> Runs(x)
           /\ Runs(x) => BackedUp(x).backup \in Versions
  BY VersionsAreContent DEF BackedUp, CanBackUp, Folders, Runs

LEMMA RestoredKeeps ==
    ASSUME NEW y \in Folders, y.folder = Absent
    PROVE  Restored(y) \in Folders /\ (Runs(Restored(y)) <=> Runs(y))
  BY VersionsAreContent DEF Restored, Folders, Runs

LEMMA UpdateLeaves ==
    ASSUME NEW x \in Folders, NEW v \in Versions, NEW r \in UpdateResults(x, v)
    PROVE  /\ r.to \in Folders /\ r.ok \in BOOLEAN
           /\ Runs(x) => Runs(r.to)
           /\ ~r.ok => (Runs(r.to) => Runs(x))
  <1> DEFINE y == BackedUp(x)
             Goal == /\ r.to \in Folders /\ r.ok \in BOOLEAN
                     /\ Runs(x) => Runs(r.to)
                     /\ ~r.ok => (Runs(r.to) => Runs(x))
  <1>1. CASE r = Result(x, FALSE)
    BY <1>1 DEF Result
  <1>2. CASE CanBackUp(x)
    <2>1. /\ y \in Folders /\ y.folder = Absent /\ y.backup \in Content
          /\ Runs(y) <=> Runs(x)
          /\ Runs(x) => y.backup \in Versions
      BY <1>2, BackedUpKeeps DEF Folders
    <2> HIDE DEF y
    <2>2. ASSUME NEW c \in {Absent} \cup Remains(y.backup),
                 r = Result([folder |-> v, backup |-> c], TRUE)
          PROVE  Goal
      <3>1. c \in Content
        BY <2>1, VersionsAreContent, RemainsLesser DEF Lesser
      <3> QED
        BY <2>2, <3>1, VersionsAreContent DEF Result, Folders, Runs
    <2>3. CASE r = Result(Restored(y), FALSE)
      BY <2>1, <2>3, RestoredKeeps DEF Result
    <2>4. ASSUME NEW c \in {Absent, Partial, Half(v)},
                 r = Result([y EXCEPT !.folder = c], FALSE)
          PROVE  Goal
      <3>1. c \in Content /\ c \notin Versions
        BY VersionsAreContent
      <3> QED
        BY <2>1, <2>4, <3>1 DEF Result, Folders, Runs
    <2> QED
      BY <1>1, <1>2, <2>2, <2>3, <2>4 DEF UpdateResults, y
  <1>3. CASE ~CanBackUp(x)
    BY <1>1, <1>3 DEF UpdateResults
  <1> QED
    BY <1>2, <1>3

\* Wherever the program stops in an update, a copy is left.
LEMMA UpdateTraceKeeps ==
    ASSUME NEW x \in Folders, NEW v \in Versions, NEW z \in UpdateTrace(x, v)
    PROVE  z \in Folders /\ (Runs(x) => Runs(z))
  <1> DEFINE y == BackedUp(x)
  <1>1. CASE z \in {u.to : u \in UpdateResults(x, v)}
    BY <1>1, UpdateLeaves
  <1>2. CASE CanBackUp(x)
    <2>1. /\ y \in Folders /\ y.folder = Absent
          /\ Runs(y) <=> Runs(x)
          /\ Runs(x) => y.backup \in Versions
      BY <1>2, BackedUpKeeps
    <2> HIDE DEF y
    <2>2. CASE z = y
      BY <2>1, <2>2
    <2>3. ASSUME NEW c \in {Partial, Half(v), v}, z = [y EXCEPT !.folder = c]
          PROVE  z \in Folders /\ (Runs(x) => Runs(z))
      BY <2>1, <2>3, VersionsAreContent DEF Folders, Runs
    <2>4. ASSUME NEW c \in Damaged(y.backup), z = [folder |-> v, backup |-> c]
          PROVE  z \in Folders /\ (Runs(x) => Runs(z))
      <3>1. c \in Content
        BY <2>1, DamagedLesser DEF Lesser, Folders
      <3> QED
        BY <2>4, <3>1, VersionsAreContent DEF Folders, Runs
    <2> QED
      BY <1>1, <1>2, <2>2, <2>3, <2>4 DEF UpdateTrace, y
  <1>3. CASE ~CanBackUp(x)
    BY <1>1, <1>3 DEF UpdateTrace
  <1> QED
    BY <1>2, <1>3

LEMMA LesserRuns ==
    ASSUME NEW x, NEW z, Lesser(z.folder, x.folder), Lesser(z.backup, x.backup)
    PROVE  Runs(z) => Runs(x)
  BY DEF Lesser, Runs

\* What the handlers of the removal dialog leave of the folders.
LEMMA WithoutLeaves ==
    ASSUME disk \in [DApps -> Folders], NEW gone \in SUBSET Panel,
           NEW left \in [gone -> Content],
           \A p \in gone : LET c == disk[p[1]][p[2]]
                          IN  left[p] \in {Absent, c} \cup Damaged(c)
    PROVE  /\ Without(gone, left) \in [DApps -> Folders]
           /\ \A d \in DApps : LET z == Without(gone, left)[d] IN
                /\ Lesser(z.folder, disk[d].folder) /\ Lesser(z.backup, disk[d].backup)
                /\ (\A p \in gone : p[1] # d) => z = disk[d]
           /\ \A p \in gone : left[p] = Absent =>
                Without(gone, left)[p[1]][p[2]] = Absent
  <1> DEFINE new == Without(gone, left)
  <1>1. ASSUME NEW d \in DApps
        PROVE  /\ new[d] \in Folders
               /\ Lesser(new[d].folder, disk[d].folder)
               /\ Lesser(new[d].backup, disk[d].backup)
               /\ (\A p \in gone : p[1] # d) => new[d] = disk[d]
    <2> DEFINE f == IF <<d, "folder">> \in gone THEN left[<<d, "folder">>]
                                                ELSE disk[d].folder
               b == IF <<d, "backup">> \in gone THEN left[<<d, "backup">>]
                                                ELSE disk[d].backup
    <2>1. new[d] = [folder |-> f, backup |-> b]
      BY DEF Without
    <2>2. disk[d].folder \in Content /\ disk[d].backup \in Content
          /\ disk[d] = [folder |-> disk[d].folder, backup |-> disk[d].backup]
      BY DEF Folders
    <2>3. f \in {Absent, disk[d].folder} \cup Damaged(disk[d].folder)
      OBVIOUS
    <2>4. b \in {Absent, disk[d].backup} \cup Damaged(disk[d].backup)
      OBVIOUS
    <2>5. (\A p \in gone : p[1] # d) => f = disk[d].folder /\ b = disk[d].backup
      OBVIOUS
    <2> HIDE DEF f, b
    <2>6. Lesser(f, disk[d].folder) /\ Lesser(b, disk[d].backup)
      BY <2>2, <2>3, <2>4, DamagedLesser
    <2>7. f \in Content /\ b \in Content
      BY <2>6 DEF Lesser
    <2> QED
      BY <2>1, <2>2, <2>5, <2>6, <2>7 DEF Folders
  <1>2. new \in [DApps -> Folders]
    <2>1. new = [d \in DApps |-> new[d]]
      BY DEF Without
    <2> QED
      BY <1>1, <2>1
  <1>3. ASSUME NEW p \in gone, left[p] = Absent
        PROVE  new[p[1]][p[2]] = Absent
    <2>1. p[1] \in DApps /\ p = <<p[1], p[2]>> /\ p[2] \in {"folder", "backup"}
      BY DEF Panel
    <2>2. CASE p[2] = "folder"
      BY <1>3, <2>1, <2>2 DEF Without
    <2>3. CASE p[2] = "backup"
      BY <1>3, <2>1, <2>3 DEF Without
    <2> QED
      BY <2>1, <2>2, <2>3
  <1> QED
    BY <1>1, <1>2, <1>3

-----------------------------------------------------------------------------
(* The lists. *)

\* On a disk of the right type, the state predicates of the lists are these.
LEMMA DiskMeaning ==
    ASSUME TypeOK
    PROVE  \A d \in DApps : OnDisk(d) <=> Runs(disk[d])
  BY WholeType DEF TypeOK, OnDisk

LEMMA ScannedInv ==
    ASSUME disk' \in [DApps -> Folders], localApps' = Scan(disk')
    PROVE  localApps' \in [DApps -> Found] /\ DiskInv'
  <1>1. localApps' \in [DApps -> Found]
    BY ScanFinds
  <1>2. DiskInv'
    BY ScanFinds, WholeType DEF DiskInv, OnDisk, Installed
  <1> QED
    BY <1>1, <1>2

\* The armed handlers and the progress of the panels after the list is set.
LEMMA ListChangedInv ==
    ASSUME busy \subseteq DApps, armed \in Seq(Panel), ArmedInv,
           ListChanged(localApps' # localApps)
    PROVE  busy' \subseteq DApps /\ armed' \in Seq(Panel) /\ ArmedInv'
  <1>1. CASE localApps' = localApps
    BY <1>1 DEF ListChanged, ArmedInv
  <1>2. CASE localApps' # localApps
    BY <1>2 DEF ListChanged, ArmedInv
  <1> QED
    BY <1>1, <1>2

LEMMA AskStoreType ==
    ASSUME asked \in 0..MaxCalls, asked + Len(answers) <= MaxCalls,
           answers \in Seq([DApps -> 0..MaxVersion]), AskStore
    PROVE  /\ asked' \in 0..MaxCalls /\ answers' = answers
           /\ asked' + Len(answers') <= MaxCalls
  <1>1. Len(answers) \in Nat
    OBVIOUS
  <1>2. answers' = answers /\ asked' \in {asked, asked + 1}
    BY DEF AskStore
  <1>3. asked' # asked => asked + Len(answers) < MaxCalls
    BY DEF AskStore
  <1> QED
    BY <1>1, <1>2, <1>3, LibraryAssumption

\* loadApps brings the lists up to the disk.
LEMMA LoadAppsInv ==
    ASSUME TypeOK, ArmedInv, disk' \in [DApps -> Folders], LoadApps
    PROVE  /\ localApps' \in [DApps -> Found] /\ DiskInv' /\ ArmedInv'
           /\ busy' \subseteq DApps /\ armed' \in Seq(Panel)
           /\ asked' \in 0..MaxCalls /\ answers' = answers
           /\ asked' + Len(answers') <= MaxCalls
  <1>1. localApps' \in [DApps -> Found] /\ DiskInv'
    BY ScannedInv DEF LoadApps
  <1>2. busy' \subseteq DApps /\ armed' \in Seq(Panel) /\ ArmedInv'
    BY ListChangedInv DEF LoadApps, TypeOK
  <1>3. /\ asked' \in 0..MaxCalls /\ answers' = answers
        /\ asked' + Len(answers') <= MaxCalls
    BY AskStoreType DEF LoadApps, TypeOK
  <1> QED
    BY <1>1, <1>2, <1>3

\* An installation, update or removal that ends with r for d.
LEMMA EndInstallInv ==
    ASSUME IInv, NEW d \in DApps, NEW r, EndInstall(d, r),
           r.to \in Folders, r.ok \in BOOLEAN,
           ~r.ok => (Runs(r.to) => Runs(disk[d])),
           requests' \in [Slots -> Request \cup {NoRequest}],
           UNCHANGED <<shaderApps, store, confirming, missed, launched>>
    PROVE  IInv'
  <1>1. disk' = [disk EXCEPT ![d] = r.to] /\ disk' \in [DApps -> Folders]
    BY DEF EndInstall, IInv, TypeOK
  <1>2. CASE r.ok
    <2>1. LoadApps /\ promised' = promised \cup {d}
      BY <1>2 DEF EndInstall
    <2>2. /\ localApps' \in [DApps -> Found] /\ DiskInv' /\ ArmedInv'
          /\ busy' \subseteq DApps /\ armed' \in Seq(Panel)
          /\ asked' \in 0..MaxCalls /\ answers' = answers
          /\ asked' + Len(answers') <= MaxCalls
      BY <1>1, <2>1, LoadAppsInv DEF IInv
    <2> QED
      BY <1>1, <2>1, <2>2 DEF IInv, TypeOK, Found
  <1>3. CASE ~r.ok
    <2>1. UNCHANGED <<localApps, calls, busy, armed, promised>>
      BY <1>3 DEF EndInstall
    <2>2. TypeOK'
      BY <1>1, <2>1 DEF IInv, TypeOK, calls
    <2>3. ArmedInv'
      BY <2>1 DEF IInv, ArmedInv
    <2>4. DiskInv'
      <3> SUFFICES ASSUME NEW e \in DApps, OnDisk(e)'
                   PROVE  Installed(e)
        BY <2>1 DEF DiskInv, Installed
      <3>1. Runs(disk'[e])
        BY <1>1, WholeType DEF OnDisk
      <3>2. Runs(disk[e])
        BY <1>1, <1>3, <3>1 DEF IInv, TypeOK
      <3> QED
        BY <3>2, DiskMeaning DEF IInv, DiskInv
    <2> QED
      BY <2>2, <2>3, <2>4 DEF IInv
  <1> QED
    BY <1>2, <1>3

\* The page is made anew on a disk of the right type.
LEMMA OpenPageInv ==
    ASSUME disk' \in [DApps -> Folders], OpenPage, store' \in [DApps -> 0..MaxVersion],
           promised' \subseteq DApps
    PROVE  IInv'
  <1>1. localApps' \in [DApps -> Found] /\ DiskInv'
    BY ScannedInv DEF OpenPage
  <1>2. /\ shaderApps' \in [DApps -> 0..MaxVersion]
        /\ asked' \in 0..MaxCalls /\ answers' = <<>> /\ asked' = 1
        /\ requests' \in [Slots -> Request \cup {NoRequest}]
        /\ busy' = {} /\ confirming' = NoDApp /\ armed' = <<>>
        /\ missed' = FALSE /\ launched' = FALSE
    BY LibraryAssumption DEF OpenPage
  <1>3. /\ answers' \in Seq([DApps -> 0..MaxVersion])
        /\ asked' + Len(answers') <= MaxCalls
        /\ armed' \in Seq(Panel)
    BY <1>2, LibraryAssumption
  <1>4. ArmedInv'
    BY <1>2 DEF ArmedInv
  <1> QED
    BY <1>1, <1>2, <1>3, <1>4 DEF IInv, TypeOK, Found

LEMMA InitInv == Init => IInv
  <1> SUFFICES ASSUME Init
               PROVE  IInv
    OBVIOUS
  <1>1. disk \in [DApps -> Folders]
    BY LibraryAssumption DEF Init, Folders, Empty, Content, Versions
  <1>2. localApps \in [DApps -> Found]
    BY <1>1, ScanFinds DEF Init
  <1>3. DiskInv
    BY <1>1, ScanFinds, WholeType DEF Init, DiskInv, OnDisk, Installed
  <1>4. /\ shaderApps \in [DApps -> 0..MaxVersion]
        /\ store \in [DApps -> 0..MaxVersion]
        /\ asked \in 0..MaxCalls
        /\ requests \in [Slots -> Request \cup {NoRequest}]
    BY LibraryAssumption DEF Init
  <1>5. /\ answers \in Seq([DApps -> 0..MaxVersion]) /\ armed \in Seq(Panel)
        /\ asked + Len(answers) <= MaxCalls
    BY LibraryAssumption DEF Init
  <1>6. busy \subseteq DApps /\ confirming \in DApps \cup {NoDApp} /\ launched \in BOOLEAN
        /\ missed \in BOOLEAN
    BY DEF Init
  <1>7. promised \subseteq DApps
    <2>1. promised = {d \in DApps : OnDisk(d)}
      BY DEF Init
    <2> QED
      BY <2>1
  <1>8. ArmedInv
    <2>1. armed = <<>>
      BY DEF Init
    <2> QED
      BY <2>1 DEF ArmedInv
  <1> QED
    BY <1>1, <1>2, <1>3, <1>4, <1>5, <1>6, <1>7, <1>8 DEF IInv, TypeOK, Found

-----------------------------------------------------------------------------
(* The steps. *)

\* What UpdateKeepsACopy says of one step.
CopyStep ==
  \A d \in DApps :
    OnDisk(d) /\ ~OnDisk(d)' =>
      \/ confirming # NoDApp
      \/ \E s \in Slots : requests[s].kind = "install" /\ requests[s].app = d

\* A step is judged by the copies it leaves.
LEMMA CopyMeaning ==
    ASSUME TypeOK, disk' \in [DApps -> Folders],
           \A d \in DApps : Runs(disk[d]) /\ ~Runs(disk'[d]) =>
             \/ confirming # NoDApp
             \/ \E s \in Slots : requests[s].kind = "install" /\ requests[s].app = d
    PROVE  CopyStep
  <1>1. \A d \in DApps : (OnDisk(d) <=> Runs(disk[d])) /\ (OnDisk(d)' <=> Runs(disk'[d]))
    BY WholeType DEF TypeOK, OnDisk
  <1> QED
    BY <1>1 DEF CopyStep

\* A step that leaves the folders and the list of them alone.
LEMMA Untouched ==
    ASSUME IInv, UNCHANGED <<disk, localApps>>
    PROVE  DiskInv' /\ CopyStep /\ (armed' = armed => ArmedInv')
  BY DEF IInv, DiskInv, OnDisk, Installed, CopyStep, ArmedInv

LEMMA PanelsMeaning ==
    ASSUME TypeOK, NEW d \in DApps
    PROVE  /\ Installed(d) => Panels(d) \subseteq {"folder", "backup"} /\ Panels(d) # {}
           /\ "store" \in Panels(d) => ~Installed(d) /\ shaderApps[d] \in Versions
           /\ "bundled" \in Panels(d) => ~Installed(d) /\ Bundled[d] \in Versions
  <1>1. /\ localApps[d].folder \in 0..MaxVersion /\ localApps[d].backup \in 0..MaxVersion
        /\ shaderApps[d] \in 0..MaxVersion /\ Bundled[d] \in 0..MaxVersion
    BY LibraryAssumption DEF TypeOK
  <1>2. /\ shaderApps[d] > 0 => shaderApps[d] \in Versions
        /\ Bundled[d] > 0 => Bundled[d] \in Versions
    BY <1>1, LibraryAssumption DEF Versions
  <1>3. CASE Installed(d)
    <2>1. localApps[d].folder > 0 \/ localApps[d].backup > 0
      BY <1>1, <1>3 DEF Installed, First
    <2>2. Copies(d) \subseteq {"folder", "backup"} /\ Copies(d) # {}
      BY <2>1 DEF Copies
    <2>3. FirstCopy(d) \subseteq {"folder", "backup"} /\ FirstCopy(d) # {}
      BY DEF FirstCopy
    <2> QED
      BY <1>3, <2>2, <2>3 DEF Panels
  <1>4. CASE ~Installed(d)
    BY <1>2, <1>4 DEF Panels
  <1> QED
    BY <1>3, <1>4

\* A panel of an installed application stands for a copy in the list.
LEMMA PanelsListed ==
    ASSUME TypeOK, NEW d \in DApps, Installed(d), NEW c \in Panels(d)
    PROVE  c \in {"folder", "backup"} /\ localApps[d][c] > 0
  <1>1. /\ localApps[d].folder \in 0..MaxVersion /\ localApps[d].backup \in 0..MaxVersion
        /\ localApps[d].folder > 0 \/ localApps[d].backup > 0
    BY DEF TypeOK, Installed, First
  <1>2. c \in Copies(d) \/ c \in FirstCopy(d)
    BY DEF Panels
  <1> QED
    BY <1>1, <1>2, LibraryAssumption DEF Copies, FirstCopy

\* An application the page does not show installed has no copy to lose.
LEMMA NothingToLose ==
    ASSUME IInv, NEW d \in DApps, ~Installed(d)
    PROVE  ~Runs(disk[d])
  BY DiskMeaning DEF IInv, DiskInv

LEMMA RequestMeaning ==
    ASSUME TypeOK, NEW s \in Slots, requests[s].kind # "none"
    PROVE  requests[s].app \in DApps /\ requests[s].version \in Versions
  <1>1. requests[s] \in Request \cup {NoRequest}
    BY DEF TypeOK
  <1>2. requests[s] # NoRequest
    BY DEF NoRequest
  <1> QED
    BY <1>1, <1>2 DEF Request

LEMMA DownloadType ==
    ASSUME TypeOK, NEW d \in DApps, shaderApps[d] \in Versions,
           NEW kind \in {"install", "update"}, Download(kind, d)
    PROVE  requests' \in [Slots -> Request \cup {NoRequest}]
  <1>1. PICK s \in Slots : requests' = [requests EXCEPT ![s] =
                      [kind |-> kind, app |-> d, version |-> shaderApps[d]]]
    BY DEF Download
  <1>2. [kind |-> kind, app |-> d, version |-> shaderApps[d]] \in Request
    BY DEF Request
  <1> QED
    BY <1>1, <1>2 DEF TypeOK

LEMMA CloseType ==
    ASSUME TypeOK, NEW s \in Slots, Close(s)
    PROVE  requests' \in [Slots -> Request \cup {NoRequest}]
  BY DEF TypeOK, Close

\* A step that changes only what the page shows of itself.
LEMMA PageStep ==
    ASSUME IInv, UNCHANGED <<disk, localApps, shaderApps, store, calls>>,
           requests' \in [Slots -> Request \cup {NoRequest}],
           busy' \subseteq DApps, confirming' \in DApps \cup {NoDApp},
           armed' \in Seq(Panel), ArmedInv', missed' \in BOOLEAN, launched' \in BOOLEAN,
           promised' = promised
    PROVE  IInv' /\ CopyStep
  <1>1. TypeOK'
    BY DEF IInv, TypeOK, calls
  <1> QED
    BY <1>1, Untouched DEF IInv

LEMMA InstallInv ==
    ASSUME IInv, NEW d \in DApps, Install(d)
    PROVE  IInv' /\ CopyStep
  <1>1. requests' \in [Slots -> Request \cup {NoRequest}]
    BY PanelsMeaning, DownloadType DEF Install, IInv
  <1>2. UNCHANGED <<disk, localApps, shaderApps, store, calls, confirming, armed,
                    missed, launched, promised>>
    BY DEF Install
  <1>3. busy' \subseteq DApps
    BY DEF Install, IInv, TypeOK
  <1>4. ArmedInv'
    BY <1>2, Untouched
  <1> QED
    BY <1>1, <1>2, <1>3, <1>4, PageStep DEF IInv, TypeOK

LEMMA UpdateInv ==
    ASSUME IInv, NEW d \in DApps, Update(d)
    PROVE  IInv' /\ CopyStep
  <1>1. shaderApps[d] \in Versions
    <2>1. /\ localApps[d].folder \in 0..MaxVersion /\ localApps[d].backup \in 0..MaxVersion
          /\ shaderApps[d] \in 0..MaxVersion
      BY DEF IInv, TypeOK
    <2>2. First(localApps[d]) \in 0..MaxVersion /\ shaderApps[d] > First(localApps[d])
      BY <2>1 DEF Update, HasUpdate, First
    <2> QED
      BY <2>1, <2>2, LibraryAssumption DEF Versions
  <1>2. requests' \in [Slots -> Request \cup {NoRequest}]
    BY <1>1, DownloadType DEF Update, IInv
  <1>3. UNCHANGED <<disk, localApps, shaderApps, store, calls, confirming, armed,
                    missed, launched, promised>>
    BY DEF Update
  <1>4. busy' \subseteq DApps
    BY DEF Update, IInv, TypeOK
  <1>5. ArmedInv'
    BY <1>3, Untouched
  <1> QED
    BY <1>2, <1>3, <1>4, <1>5, PageStep DEF IInv, TypeOK

LEMMA AskUninstallInv ==
    ASSUME IInv, NEW d \in DApps, NEW copy \in {"folder", "backup"},
           AskUninstall(d, copy)
    PROVE  IInv' /\ CopyStep
  <1>1. /\ UNCHANGED <<disk, localApps, shaderApps, store, calls, requests, missed,
                       launched, promised>>
        /\ confirming' = d /\ busy' \subseteq DApps
    BY DEF AskUninstall, IInv, TypeOK
  <1>2. armed' \in Seq(Panel) /\ ArmedInv'
    <2>1. /\ armed \in Seq(Panel) /\ <<d, copy>> \in Panel /\ ArmedInv
          /\ armed' = Append(armed, <<d, copy>>) /\ localApps[d][copy] > 0
      BY PanelsListed DEF AskUninstall, IInv, TypeOK, Panel
    <2>2. /\ armed' \in Seq(Panel)
          /\ \A i \in DOMAIN armed' :
               (i \in DOMAIN armed /\ armed'[i] = armed[i]) \/ armed'[i] = <<d, copy>>
      BY <2>1
    <2>3. ArmedInv'
      BY <1>1, <2>1, <2>2 DEF ArmedInv
    <2> QED
      BY <2>2, <2>3
  <1> QED
    BY <1>1, <1>2, PageStep DEF IInv, TypeOK

LEMMA SmallPageStepsInv ==
    ASSUME IInv, \/ CancelUninstall \/ Back
                 \/ \E d \in DApps : Launch(d)
                 \/ \E s \in Slots : OnTimeout(s)
    PROVE  IInv' /\ CopyStep
  <1>1. UNCHANGED <<disk, localApps, shaderApps, store, calls, armed, promised>>
    BY DEF CancelUninstall, Back, Launch, OnTimeout
  <1>2. ArmedInv'
    BY <1>1, Untouched
  <1>3. requests' \in [Slots -> Request \cup {NoRequest}]
    BY CloseType DEF CancelUninstall, Back, Launch, OnTimeout, IInv, TypeOK
  <1>4. busy' \subseteq DApps
    BY DEF CancelUninstall, Back, Launch, OnTimeout, IInv, TypeOK
  <1>5. confirming' \in DApps \cup {NoDApp}
    BY DEF CancelUninstall, Back, Launch, OnTimeout, IInv, TypeOK
  <1>6. missed' \in BOOLEAN /\ launched' \in BOOLEAN
    BY DEF CancelUninstall, Back, Launch, OnTimeout, IInv, TypeOK
  <1> QED
    BY <1>1, <1>2, <1>3, <1>4, <1>5, <1>6, PageStep DEF IInv, TypeOK

-----------------------------------------------------------------------------
(* The steps that write folders. *)

\* An installation that was not refused ends on one application.
LEMMA EndInstallCopies ==
    ASSUME IInv, NEW d \in DApps, NEW r, EndInstall(d, r), r.to \in Folders,
           \/ Runs(disk[d]) => Runs(r.to)
           \/ \E s \in Slots : requests[s].kind = "install" /\ requests[s].app = d
    PROVE  CopyStep
  <1>1. disk' = [disk EXCEPT ![d] = r.to] /\ disk' \in [DApps -> Folders]
    BY DEF EndInstall, IInv, TypeOK
  <1>2. disk'[d] = r.to /\ \A e \in DApps \ {d} : disk'[e] = disk[e]
    BY <1>1 DEF IInv, TypeOK
  <1>3. TypeOK
    BY DEF IInv
  <1> QED
    BY <1>1, <1>2, <1>3, CopyMeaning

\* The same end of an installation when the panel was marked busy first.
LEMMA InstallBundledInv ==
    ASSUME IInv, NEW d \in DApps, InstallBundled(d)
    PROVE  IInv' /\ CopyStep
  <1>1. ~Installed(d) /\ Bundled[d] \in Versions
    BY PanelsMeaning DEF InstallBundled, IInv
  <1>2. ~Runs(disk[d]) /\ disk[d] \in Folders
    BY <1>1, NothingToLose DEF IInv, TypeOK
  <1>3. /\ UNCHANGED <<shaderApps, store, requests, confirming, missed,
                       launched>>
        /\ requests' \in [Slots -> Request \cup {NoRequest}]
    BY DEF InstallBundled, IInv, TypeOK
  <1>4. PICK r \in InstallResults(disk[d], Bundled[d]) :
          /\ disk' = [disk EXCEPT ![d] = r.to]
          /\ IF r.ok THEN LoadApps /\ promised' = promised \cup {d}
                     ELSE /\ busy' = busy \cup {d}
                          /\ UNCHANGED <<localApps, calls, armed, promised>>
    BY DEF InstallBundled
  <1>5. r.to \in Folders /\ r.ok \in BOOLEAN /\ (~r.ok => (Runs(r.to) => Runs(disk[d])))
    BY <1>1, <1>2, InstallLeaves
  <1>6. CASE r.ok
    <2>1. EndInstall(d, r)
      BY <1>4, <1>6 DEF EndInstall
    <2> QED
      BY <1>2, <1>3, <1>5, <2>1, EndInstallInv, EndInstallCopies
  <1>7. CASE ~r.ok
    <2>1. /\ disk' \in [DApps -> Folders] /\ disk'[d] = r.to
          /\ \A e \in DApps \ {d} : disk'[e] = disk[e]
      BY <1>4, <1>5 DEF IInv, TypeOK
    <2>2. busy' = busy \cup {d} /\ UNCHANGED <<localApps, calls, armed, promised>>
      BY <1>4, <1>7
    <2>3. TypeOK'
      BY <1>3, <2>1, <2>2 DEF IInv, TypeOK, calls
    <2>4. \A e \in DApps : Runs(disk'[e]) <=> Runs(disk[e])
      BY <1>2, <1>5, <1>7, <2>1
    <2>5. \A e \in DApps : (OnDisk(e) <=> Runs(disk[e])) /\ (OnDisk(e)' <=> Runs(disk'[e]))
      BY <2>1, WholeType DEF IInv, TypeOK, OnDisk
    <2>6. DiskInv' /\ ArmedInv'
      BY <2>2, <2>4, <2>5 DEF IInv, DiskInv, ArmedInv, Installed
    <2> QED
      BY <2>3, <2>4, <2>5, <2>6 DEF IInv, CopyStep
  <1> QED
    BY <1>5, <1>6, <1>7

LEMMA InstallFromFileInv ==
    ASSUME IInv, NEW d \in DApps, NEW v \in Versions, InstallFromFile(d, v)
    PROVE  IInv' /\ CopyStep
  <1>1. ~Installed(d)
    BY PanelsMeaning DEF InstallFromFile, IInv
  <1>2. ~Runs(disk[d]) /\ disk[d] \in Folders
    BY <1>1, NothingToLose DEF IInv, TypeOK
  <1>3. /\ UNCHANGED <<shaderApps, store, requests, confirming, missed,
                       launched>>
        /\ requests' \in [Slots -> Request \cup {NoRequest}]
    BY DEF InstallFromFile, IInv, TypeOK
  <1>4. PICK r \in InstallResults(disk[d], v) : EndInstall(d, r)
    BY DEF InstallFromFile
  <1>5. r.to \in Folders /\ r.ok \in BOOLEAN /\ (~r.ok => (Runs(r.to) => Runs(disk[d])))
    BY <1>2, InstallLeaves
  <1> QED
    BY <1>2, <1>3, <1>4, <1>5, EndInstallInv, EndInstallCopies

LEMMA OnInstallDataInv ==
    ASSUME IInv, NEW s \in Slots, OnInstallData(s)
    PROVE  IInv' /\ CopyStep
  <1> DEFINE d == requests[s].app
  <1>1. requests[s].kind = "install" /\ d \in DApps /\ requests[s].version \in Versions
    BY RequestMeaning DEF OnInstallData, IInv
  <1>2. /\ UNCHANGED <<shaderApps, store, confirming, missed, launched>>
        /\ requests' \in [Slots -> Request \cup {NoRequest}]
    BY CloseType DEF OnInstallData, IInv
  <1>3. PICK v \in Package(requests[s].version) :
          \E r \in InstallResults(disk[d], v) : EndInstall(d, r)
    BY DEF OnInstallData
  <1>3a. PICK r \in InstallResults(disk[d], v) : EndInstall(d, r)
    BY <1>3
  <1>4. disk[d] \in Folders /\ v \in Versions
    BY <1>1, <1>3 DEF IInv, TypeOK, Package
  <1> HIDE DEF d
  <1>5. r.to \in Folders /\ r.ok \in BOOLEAN /\ (~r.ok => (Runs(r.to) => Runs(disk[d])))
    BY <1>1, <1>3a, <1>4, InstallLeaves
  <1>6. \E t \in Slots : requests[t].kind = "install" /\ requests[t].app = d
    BY <1>1 DEF d
  <1> QED
    BY <1>1, <1>2, <1>3a, <1>5, <1>6, EndInstallInv, EndInstallCopies

LEMMA OnUpdateDataInv ==
    ASSUME IInv, NEW s \in Slots, OnUpdateData(s)
    PROVE  IInv' /\ CopyStep
  <1> DEFINE d == requests[s].app
  <1>1. requests[s].kind = "update" /\ d \in DApps /\ requests[s].version \in Versions
    BY RequestMeaning DEF OnUpdateData, IInv
  <1>2. /\ UNCHANGED <<shaderApps, store, confirming, missed, launched>>
        /\ requests' \in [Slots -> Request \cup {NoRequest}]
    BY CloseType DEF OnUpdateData, IInv
  <1>3. PICK v \in Package(requests[s].version) :
          \E r \in UpdateResults(disk[d], v) : EndInstall(d, r)
    BY DEF OnUpdateData
  <1>3a. PICK r \in UpdateResults(disk[d], v) : EndInstall(d, r)
    BY <1>3
  <1>4. disk[d] \in Folders /\ v \in Versions
    BY <1>1, <1>3 DEF IInv, TypeOK, Package
  <1> HIDE DEF d
  <1>5. /\ r.to \in Folders /\ r.ok \in BOOLEAN
        /\ Runs(disk[d]) => Runs(r.to)
        /\ ~r.ok => (Runs(r.to) => Runs(disk[d]))
    BY <1>1, <1>3a, <1>4, UpdateLeaves
  <1> QED
    BY <1>1, <1>2, <1>3a, <1>5, EndInstallInv, EndInstallCopies

\* The handlers that run when the dialog is accepted: which copies they remove,
\* and what is left of them.
LEMMA Accepted ==
    ASSUME TypeOK, AcceptUninstall
    PROVE  \E gone \in SUBSET ToSet(armed) : \E left \in [gone -> Content] :
             /\ gone \subseteq Panel
             /\ \A p \in gone : LET c == disk[p[1]][p[2]]
                               IN  left[p] \in {Absent, c} \cup Damaged(c)
             /\ disk' = Without(gone, left)
             /\ IF \E p \in gone : left[p] = Absent THEN LoadApps
                ELSE armed' = <<>> /\ UNCHANGED <<localApps, calls, busy>>
  <1>1. PICK gone \in SUBSET ToSet(armed) : \E left \in Removals(gone) :
             /\ disk' = Without(gone, left)
             /\ IF {p \in gone : left[p] = Absent} # {} THEN LoadApps
                ELSE armed' = <<>> /\ UNCHANGED <<localApps, calls, busy>>
    BY Zenon DEF AcceptUninstall
  <1>2. PICK left \in Removals(gone) :
             /\ disk' = Without(gone, left)
             /\ IF {p \in gone : left[p] = Absent} # {} THEN LoadApps
                ELSE armed' = <<>> /\ UNCHANGED <<localApps, calls, busy>>
    BY <1>1
  <1>3. gone \subseteq Panel
    BY DEF TypeOK, ToSet
  <1>4. /\ left \in [gone -> Content]
        /\ \A p \in gone : LET c == disk[p[1]][p[2]]
                          IN  left[p] \in {Absent, c} \cup Damaged(c)
    <2>1. left \in [gone -> Content]
          /\ \A p \in gone : left[p] \in {Absent} \cup Remains(disk[p[1]][p[2]])
      BY DEF Removals
    <2>2. \A c : Remains(c) \subseteq {c} \cup Damaged(c)
      BY DEF Remains
    <2> QED
      BY <2>1, <2>2
  <1>5. IF \E p \in gone : left[p] = Absent THEN LoadApps
        ELSE armed' = <<>> /\ UNCHANGED <<localApps, calls, busy>>
    BY <1>2
  <1> QED
    BY <1>2, <1>3, <1>4, <1>5

\* They remove copies the page shows, and what they leave of a folder was there
\* before.
LEMMA AcceptUninstallInv ==
    ASSUME IInv, AcceptUninstall
    PROVE  IInv' /\ CopyStep
  <1>0. PICK gone \in SUBSET ToSet(armed) : \E left \in [gone -> Content] :
             /\ gone \subseteq Panel
             /\ \A p \in gone : LET c == disk[p[1]][p[2]]
                               IN  left[p] \in {Absent, c} \cup Damaged(c)
             /\ disk' = Without(gone, left)
             /\ IF \E p \in gone : left[p] = Absent THEN LoadApps
                ELSE armed' = <<>> /\ UNCHANGED <<localApps, calls, busy>>
    BY Accepted DEF IInv
  <1>1. PICK left \in [gone -> Content] :
             /\ gone \subseteq Panel
             /\ \A p \in gone : LET c == disk[p[1]][p[2]]
                               IN  left[p] \in {Absent, c} \cup Damaged(c)
             /\ disk' = Without(gone, left)
             /\ IF \E p \in gone : left[p] = Absent THEN LoadApps
                ELSE armed' = <<>> /\ UNCHANGED <<localApps, calls, busy>>
    BY <1>0
  <1>2. /\ disk' \in [DApps -> Folders]
        /\ \A d \in DApps : /\ Lesser(disk'[d].folder, disk[d].folder)
                            /\ Lesser(disk'[d].backup, disk[d].backup)
    BY <1>1, WithoutLeaves DEF IInv, TypeOK
  <1>3. /\ confirming # NoDApp /\ confirming' = NoDApp /\ missed' \in BOOLEAN
        /\ promised' = promised \ {confirming}
        /\ UNCHANGED <<shaderApps, store, requests, launched>>
    BY Zenon DEF AcceptUninstall
  <1>4. CopyStep
    BY <1>3 DEF CopyStep
  <1>5. CASE \E p \in gone : left[p] = Absent
    <2>1. LoadApps
      BY <1>1, <1>5
    <2>2. /\ localApps' \in [DApps -> Found] /\ DiskInv' /\ ArmedInv'
          /\ busy' \subseteq DApps /\ armed' \in Seq(Panel)
          /\ asked' \in 0..MaxCalls /\ answers' = answers
          /\ asked' + Len(answers') <= MaxCalls
      BY <1>2, <2>1, LoadAppsInv DEF IInv
    <2> QED
      BY <1>2, <1>3, <1>4, <2>2 DEF IInv, TypeOK, Found
  <1>6. CASE ~\E p \in gone : left[p] = Absent
    <2>1. armed' = <<>> /\ UNCHANGED <<localApps, calls, busy>>
      BY <1>1, <1>6
    <2>2. armed' \in Seq(Panel) /\ ArmedInv'
      BY <2>1 DEF ArmedInv
    <2>3. TypeOK'
      BY <1>2, <1>3, <2>1, <2>2 DEF IInv, TypeOK, calls
    <2>4. \A d \in DApps : OnDisk(d)' => OnDisk(d)
      BY <1>2, LesserRuns, WholeType DEF IInv, TypeOK, OnDisk
    <2>5. DiskInv'
      BY <2>1, <2>4 DEF IInv, DiskInv, Installed
    <2> QED
      BY <1>4, <2>2, <2>3, <2>5 DEF IInv
  <1> QED
    BY <1>5, <1>6

LEMMA ReopenInv ==
    ASSUME IInv, Reopen
    PROVE  IInv' /\ CopyStep
  <1>1. OpenPage /\ UNCHANGED <<disk, store, promised>>
    BY DEF Reopen
  <1>2. IInv'
    BY <1>1, OpenPageInv DEF IInv, TypeOK
  <1>3. CopyStep
    BY <1>1 DEF CopyStep, OnDisk
  <1> QED
    BY <1>2, <1>3

\* A stop of the program inside an update leaves a copy, one inside an
\* installation or a removal only touches the application it was asked for.
LEMMA CrashInv ==
    ASSUME IInv, Crash
    PROVE  IInv' /\ CopyStep
  <1>1. OpenPage /\ store' = store
    BY DEF Crash
  <1>2. ASSUME disk' \in [DApps -> Folders], promised' \subseteq DApps
        PROVE  IInv'
    BY <1>1, <1>2, OpenPageInv DEF IInv, TypeOK
  <1>3. CASE UNCHANGED <<disk, promised>>
    BY <1>2, <1>3 DEF IInv, TypeOK, CopyStep, OnDisk
  <1>4. ASSUME NEW s \in Slots, requests[s].kind = "install", promised' = promised,
               NEW v \in Package(requests[s].version),
               NEW x \in InstallTrace(disk[requests[s].app], v),
               disk' = [disk EXCEPT ![requests[s].app] = x]
        PROVE  IInv' /\ CopyStep
    <2> DEFINE d == requests[s].app
    <2>1. d \in DApps /\ disk[d] \in Folders /\ v \in Versions
      BY <1>4, RequestMeaning DEF IInv, TypeOK, Package
    <2>2. x \in Folders
      BY <1>4, <2>1, InstallTraceType
    <2>3. disk' \in [DApps -> Folders] /\ \A e \in DApps \ {d} : disk'[e] = disk[e]
      BY <1>4, <2>1, <2>2 DEF IInv, TypeOK
    <2>4. CopyStep
      BY <1>4, <2>3, CopyMeaning DEF IInv
    <2> QED
      BY <1>2, <1>4, <2>3, <2>4 DEF IInv, TypeOK
  <1>5. ASSUME NEW s \in Slots, requests[s].kind = "update", promised' = promised,
               NEW v \in Package(requests[s].version),
               NEW x \in UpdateTrace(disk[requests[s].app], v),
               disk' = [disk EXCEPT ![requests[s].app] = x]
        PROVE  IInv' /\ CopyStep
    <2> DEFINE d == requests[s].app
    <2>1. d \in DApps /\ disk[d] \in Folders /\ v \in Versions
      BY <1>5, RequestMeaning DEF IInv, TypeOK, Package
    <2>2. x \in Folders /\ (Runs(disk[d]) => Runs(x))
      BY <1>5, <2>1, UpdateTraceKeeps
    <2>3. /\ disk' \in [DApps -> Folders] /\ disk'[d] = x
          /\ \A e \in DApps \ {d} : disk'[e] = disk[e]
      BY <1>5, <2>1, <2>2 DEF IInv, TypeOK
    <2>4. CopyStep
      BY <2>2, <2>3, CopyMeaning DEF IInv
    <2> QED
      BY <1>2, <1>5, <2>3, <2>4 DEF IInv, TypeOK
  <1>6. ASSUME confirming # NoDApp, NEW gone \in SUBSET ToSet(armed),
               NEW left \in [gone -> Content],
               \A p \in gone : left[p] \in {Absent} \cup Damaged(disk[p[1]][p[2]]),
               disk' = Without(gone, left), promised' = promised \ {confirming}
        PROVE  IInv' /\ CopyStep
    <2>1. gone \subseteq Panel
      BY DEF IInv, TypeOK, ToSet
    <2>2. disk' \in [DApps -> Folders]
      BY <1>6, <2>1, WithoutLeaves DEF IInv, TypeOK
    <2>3. CopyStep
      BY <1>6 DEF CopyStep
    <2> QED
      BY <1>2, <1>6, <2>2, <2>3 DEF IInv, TypeOK
  <1> QED
    BY <1>3, <1>4, <1>5, <1>6 DEF Crash

-----------------------------------------------------------------------------
(* The lists and the environment. *)

LEMMA OnWalletStatusInv ==
    ASSUME IInv, OnWalletStatus
    PROVE  IInv' /\ CopyStep
  <1>1. /\ UNCHANGED <<disk, shaderApps, store, requests, confirming, missed, launched,
                    promised>>
        /\ LoadApps
    BY DEF OnWalletStatus
  <1>2. /\ localApps' \in [DApps -> Found] /\ DiskInv' /\ ArmedInv'
        /\ busy' \subseteq DApps /\ armed' \in Seq(Panel)
        /\ asked' \in 0..MaxCalls /\ answers' = answers
        /\ asked' + Len(answers') <= MaxCalls
    BY <1>1, LoadAppsInv DEF IInv, TypeOK
  <1>3. IInv'
    BY <1>1, <1>2 DEF IInv, TypeOK, Found
  <1>4. CopyStep
    BY <1>1 DEF CopyStep, OnDisk
  <1> QED
    BY <1>3, <1>4

LEMMA OnStoreAppsInv ==
    ASSUME IInv, OnStoreApps
    PROVE  IInv' /\ CopyStep
  <1>1. /\ answers \in Seq([DApps -> 0..MaxVersion]) /\ asked \in 0..MaxCalls
        /\ asked + Len(answers) <= MaxCalls /\ answers # <<>>
        /\ shaderApps' = Head(answers) /\ answers' = Tail(answers)
        /\ ListChanged(shaderApps' # shaderApps)
        /\ UNCHANGED <<disk, localApps, store, asked, requests, confirming, missed,
                       launched, promised>>
    BY DEF OnStoreApps, IInv, TypeOK
  <1>2. /\ shaderApps' \in [DApps -> 0..MaxVersion]
        /\ answers' \in Seq([DApps -> 0..MaxVersion])
        /\ Len(answers') \in Nat /\ Len(answers) \in Nat /\ Len(answers') <= Len(answers)
    BY <1>1
  <1>3. asked' + Len(answers') <= MaxCalls
    BY <1>1, <1>2, LibraryAssumption
  <1>4. busy' \subseteq DApps /\ armed' \in Seq(Panel) /\ ArmedInv'
    <2>1. CASE shaderApps' = shaderApps
      <3>1. busy' = busy /\ armed' = armed
        BY <1>1, <2>1 DEF ListChanged
      <3> QED
        BY <1>1, <3>1, Untouched DEF IInv, TypeOK
    <2>2. CASE shaderApps' # shaderApps
      <3>1. busy' = {} /\ armed' = <<>>
        BY <1>1, <2>2 DEF ListChanged
      <3> QED
        BY <3>1 DEF ArmedInv
    <2> QED
      BY <2>1, <2>2
  <1>5. DiskInv' /\ CopyStep
    BY <1>1, Untouched
  <1>6. TypeOK'
    BY <1>1, <1>2, <1>3, <1>4 DEF IInv, TypeOK
  <1> QED
    BY <1>4, <1>5, <1>6 DEF IInv

LEMMA ViewDappsInv ==
    ASSUME IInv, RunViewDapps \/ FailViewDapps
    PROVE  IInv' /\ CopyStep
  <1>1. /\ asked > 0 /\ asked' = asked - 1 /\ asked \in 0..MaxCalls
        /\ asked + Len(answers) <= MaxCalls
        /\ answers \in Seq([DApps -> 0..MaxVersion]) /\ store \in [DApps -> 0..MaxVersion]
        /\ answers' = answers \/ answers' = Append(answers, store)
        /\ UNCHANGED <<disk, localApps, shaderApps, store, requests, page, promised>>
    BY DEF RunViewDapps, FailViewDapps, IInv, TypeOK
  <1>2. /\ answers' \in Seq([DApps -> 0..MaxVersion])
        /\ Len(answers) \in Nat /\ Len(answers') \in {Len(answers), Len(answers) + 1}
    <2> DEFINE Answer == [DApps -> 0..MaxVersion]
    <2>1. answers \in Seq(Answer) /\ store \in Answer
      BY <1>1
    <2> HIDE DEF Answer
    <2>2. /\ Append(answers, store) \in Seq(Answer) /\ Len(answers) \in Nat
          /\ Len(Append(answers, store)) = Len(answers) + 1
      BY <2>1
    <2> QED
      BY <1>1, <2>1, <2>2 DEF Answer
  <1>3. asked' \in 0..MaxCalls /\ asked' + Len(answers') <= MaxCalls
    BY <1>1, <1>2, LibraryAssumption
  <1>4. TypeOK'
    BY <1>1, <1>2, <1>3 DEF IInv, TypeOK, page
  <1>5. DiskInv' /\ CopyStep /\ ArmedInv'
    BY <1>1, Untouched DEF page
  <1> QED
    BY <1>4, <1>5 DEF IInv

LEMMA PublishInv ==
    ASSUME IInv, NEW d \in DApps, NEW v \in 0..MaxVersion, Publish(d, v)
    PROVE  IInv' /\ CopyStep
  <1>1. /\ store' = [store EXCEPT ![d] = v]
        /\ UNCHANGED <<disk, localApps, shaderApps, calls, requests, page, promised>>
    BY DEF Publish
  <1>2. TypeOK'
    BY <1>1 DEF IInv, TypeOK, page, calls
  <1>3. DiskInv' /\ CopyStep /\ ArmedInv'
    BY <1>1, Untouched DEF page
  <1> QED
    BY <1>2, <1>3 DEF IInv

-----------------------------------------------------------------------------
(* The theorems. *)

LEMMA NextInv == IInv /\ [Next]_vars => IInv' /\ CopyStep
  <1> SUFFICES ASSUME IInv, [Next]_vars
               PROVE  IInv' /\ CopyStep
    OBVIOUS
  <1>1. CASE User
    <2>1. ASSUME NEW d \in DApps, NEW v \in Versions, InstallFromFile(d, v)
          PROVE  IInv' /\ CopyStep
      BY <2>1, InstallFromFileInv
    <2>2. ASSUME NEW d \in DApps,
                 \/ Install(d) \/ InstallBundled(d) \/ Update(d)
                 \/ \E c \in {"folder", "backup"} : AskUninstall(d, c)
          PROVE  IInv' /\ CopyStep
      BY <2>2, InstallInv, InstallBundledInv, UpdateInv, AskUninstallInv
    <2> QED
      BY <1>1, <2>1, <2>2, SmallPageStepsInv, AcceptUninstallInv, ReopenInv DEF User
  <1>2. ASSUME NEW s \in Slots, OnInstallData(s) \/ OnUpdateData(s) \/ OnTimeout(s)
        PROVE  IInv' /\ CopyStep
    BY <1>2, OnInstallDataInv, OnUpdateDataInv, SmallPageStepsInv
  <1>3. CASE OnWalletStatus \/ OnStoreApps \/ RunViewDapps \/ FailViewDapps \/ Crash
    BY <1>3, OnWalletStatusInv, OnStoreAppsInv, ViewDappsInv, CrashInv
  <1>4. ASSUME NEW d \in DApps, NEW v \in 0..MaxVersion, Publish(d, v)
        PROVE  IInv' /\ CopyStep
    BY <1>4, PublishInv
  <1>5. CASE UNCHANGED vars
    <2>1. UNCHANGED <<disk, localApps, shaderApps, store, asked, answers, requests,
                      busy, confirming, armed, missed, launched, promised>>
      BY <1>5 DEF vars, calls, page
    <2>2. TypeOK'
      BY <2>1 DEF IInv, TypeOK
    <2> QED
      BY <2>1, <2>2, Untouched DEF IInv
  <1> QED
    BY <1>1, <1>2, <1>3, <1>4, <1>5 DEF Next

\* Every variable of the library and its page keeps its type, for every number
\* of applications, versions and downloads.
THEOREM TypeCorrect == Spec => []TypeOK
  <1>1. Init => IInv
    BY InitInv
  <1>2. IInv /\ [Next]_vars => IInv'
    BY NextInv
  <1>3. IInv => TypeOK
    BY DEF IInv
  <1> QED
    BY <1>1, <1>2, <1>3, PTL DEF Spec

\* The page never takes an application for missing while one of its two
\* folders holds a whole copy: the stale list of loadLocalApps errs on
\* one side only, and installFromFile and the bundled version rely on it.
THEOREM ListTheorem == Spec => []DiskInv
  <1>1. Init => IInv
    BY InitInv
  <1>2. IInv /\ [Next]_vars => IInv'
    BY NextInv
  <1>3. IInv => DiskInv
    BY DEF IInv
  <1> QED
    BY <1>1, <1>2, <1>3, PTL DEF Spec

\* An update never costs the user his copy, whichever operation on a folder
\* fails and wherever the program stops: updateDApp's rename, unpack, put back
\* or remove. Only an accepted removal and an installation he asked for may.
THEOREM CopyTheorem == Spec => UpdateKeepsACopy
  <1>1. Init => IInv
    BY InitInv
  <1>2. IInv /\ [Next]_vars => IInv'
    BY NextInv
  <1>3. IInv /\ [Next]_vars => CopyStep
    BY NextInv
  <1>4. IInv /\ [Next]_vars =>
          [\A d \in DApps :
             OnDisk(d) /\ ~OnDisk(d)' =>
               \/ confirming # NoDApp
               \/ \E s \in Slots : requests[s].kind = "install" /\ requests[s].app = d]_vars
    BY <1>3 DEF CopyStep
  <1> QED
    BY <1>1, <1>2, <1>4, PTL DEF Spec, UpdateKeepsACopy

-----------------------------------------------------------------------------
(* The promise of DAppShelf to a user who waits for his downloads. A whole   *)
(* copy gives way to nothing but another because an installation is only     *)
(* started without one, and an update keeps the old copy until the new one   *)
(* is whole. Where packages carry the version they are announced with,       *)
(* versions only go up: the copy in the backup folder is the older one, the  *)
(* page's list is never behind the disk, and a download that is under way is *)
(* the only one and of a later version than the copy it is for.              *)

\* The whole copy in the backup folder is older than what the folder shows.
Ordered(x) == Manifest(x.folder) > 0 /\ x.backup \in Versions
                => x.backup < Manifest(x.folder)
OrderInv == Honest => \A d \in DApps : Ordered(disk[d])

\* The page shows no version older than the whole copy.
CurrentInv == Honest => \A d \in DApps : Whole(disk[d]) <= First(localApps[d])

\* Where packages are honest, v comes after w.
Later(v, w) == Honest => v > w

\* The one download under way, with no dialog open, brings a later version.
DownloadInv ==
  \A s \in Slots : ~Idle(s) =>
    /\ confirming = NoDApp
    /\ \A t \in Slots : ~Idle(t) => t = s
    /\ Later(requests[s].version, Whole(disk[requests[s].app]))
    /\ requests[s].kind = "install" => Whole(disk[requests[s].app]) = 0

\* The handler connected is that of the removal the dialog is open for.
HandlerInv == \A i \in DOMAIN armed : armed[i][1] = confirming

PatientInv == OrderInv /\ CurrentInv /\ DownloadInv /\ HandlerInv

ShelfStep ==
  [Shelf!Next]_<<[d \in DApps |-> Whole(disk[d])], promised>>

\* A scan shows no version older than the whole copy.
LEMMA ScanWhole ==
    ASSUME NEW fs \in [DApps -> Folders], NEW d \in DApps, Ordered(fs[d])
    PROVE  Whole(fs[d]) <= First(Scan(fs)[d])
  <1>1. fs[d].folder \in Content /\ fs[d].backup \in Content
    BY DEF Folders
  <1>2. Scan(fs)[d] = [folder |-> Manifest(fs[d].folder),
                       backup |-> Manifest(fs[d].backup)]
    BY DEF Scan
  <1>3. /\ Manifest(fs[d].folder) \in 0..MaxVersion
        /\ Manifest(fs[d].backup) \in 0..MaxVersion
        /\ fs[d].folder \in Versions => Manifest(fs[d].folder) = fs[d].folder
                                         /\ fs[d].folder > 0
        /\ fs[d].backup \in Versions => Manifest(fs[d].backup) = fs[d].backup
    BY <1>1, ManifestType
  <1>4. Versions \subseteq Int
    BY LibraryAssumption DEF Versions
  <1> QED
    BY <1>2, <1>3, <1>4, LibraryAssumption DEF First, Whole, Ordered

-----------------------------------------------------------------------------
(* What the handlers leave, by version. *)

LEMMA InstallTops ==
    ASSUME NEW x \in Folders, Whole(x) = 0, NEW v \in Versions,
           NEW r \in InstallResults(x, v)
    PROVE  Ordered(r.to) /\ Whole(r.to) = IF r.ok THEN v ELSE 0
  <1>1. ~Runs(x) /\ x.folder \in Content /\ x.backup \in Content
    BY WholeType DEF Folders
  <1>2. CASE r = Result(x, FALSE)
    BY <1>1, <1>2 DEF Result, Ordered, Runs
  <1>3. CASE r = Result([x EXCEPT !.folder = v], TRUE)
    BY <1>1, <1>3 DEF Result, Ordered, Runs, Whole, Folders
  <1>4. ASSUME NEW c \in {Partial, Half(v)} \cup Remains(x.folder),
               r = Result([x EXCEPT !.folder = c], FALSE)
        PROVE  Ordered(r.to) /\ Whole(r.to) = IF r.ok THEN v ELSE 0
    <2>1. c \notin Versions
      BY <1>1, RemainsLesser, VersionsAreContent DEF Lesser, Runs
    <2> QED
      BY <1>1, <1>4, <2>1 DEF Result, Ordered, Runs, Whole, Folders
  <1> QED
    BY <1>2, <1>3, <1>4 DEF InstallResults

LEMMA InstallTraceTops ==
    ASSUME NEW x \in Folders, Whole(x) = 0, NEW v \in Versions,
           NEW y \in InstallTrace(x, v)
    PROVE  Ordered(y) /\ Whole(y) \in {0, v}
  <1>1. ASSUME NEW c \in {Absent, Partial, Half(v)} \cup Damaged(x.folder),
               y = [x EXCEPT !.folder = c]
        PROVE  Ordered(y) /\ Whole(y) = 0
    <2>1. ~Runs(x) /\ x.folder \in Content /\ x.backup \in Content
      BY WholeType DEF Folders
    <2>2. c \notin Versions
      BY <2>1, DamagedLesser, VersionsAreContent DEF Lesser, Runs
    <2> QED
      BY <1>1, <2>1, <2>2 DEF Ordered, Runs, Whole, Folders
  <1>2. CASE y \in {i.to : i \in InstallResults(x, v)}
    BY <1>2, InstallTops
  <1> QED
    BY <1>1, <1>2 DEF InstallTrace

\* The rename keeps the whole copy.
LEMMA BackedUpTops ==
    ASSUME NEW x \in Folders, CanBackUp(x)
    PROVE  /\ BackedUp(x) \in Folders /\ BackedUp(x).folder = Absent
           /\ Whole(BackedUp(x)) = Whole(x)
  <1>1. CASE x.folder = Absent
    BY <1>1 DEF BackedUp
  <1>2. CASE x.folder # Absent
    <2>1. x.backup = Absent /\ BackedUp(x) = [folder |-> Absent, backup |-> x.folder]
      BY <1>2 DEF CanBackUp, BackedUp
    <2> QED
      BY <2>1, BackedUpKeeps, VersionsAreContent DEF Whole
  <1> QED
    BY <1>1, <1>2

\* An unpacked folder over a backup: the versions, whole or not.
LEMMA OverBackup ==
    ASSUME NEW x \in Folders, NEW y \in Folders, y.folder = Absent,
           Whole(y) = Whole(x), NEW v \in Versions, Later(v, Whole(x)),
           NEW f \in {Absent, Partial, Half(v), v}, NEW b, Lesser(b, y.backup)
    PROVE  /\ [folder |-> f, backup |-> b] \in Folders
           /\ Honest => Ordered([folder |-> f, backup |-> b])
           /\ Whole([folder |-> v, backup |-> b]) = v
           /\ b = y.backup /\ f # v => Whole([folder |-> f, backup |-> b]) = Whole(x)
  <1>1. y.backup \in Versions => y.backup = Whole(x)
    BY VersionsAreContent DEF Whole
  <1>2. b \in Content /\ f \in Content /\ (b \in Versions => b = Whole(x))
    BY <1>1, VersionsAreContent DEF Lesser
  <1>3. Manifest(f) \in {0, v}
    BY VersionsAreContent, ManifestType, HalfManifest
  <1>4. Honest => Ordered([folder |-> f, backup |-> b])
    BY <1>2, <1>3 DEF Ordered, Later
  <1>5. f # v => f \notin Versions
    BY VersionsAreContent
  <1>6. b = y.backup /\ f # v => Whole([folder |-> f, backup |-> b]) = Whole(x)
    BY <1>5, VersionsAreContent DEF Whole
  <1>7. Whole([folder |-> v, backup |-> b]) = v
    BY DEF Whole
  <1> QED
    BY <1>2, <1>4, <1>6, <1>7 DEF Folders

LEMMA UpdateTops ==
    ASSUME NEW x \in Folders, Honest => Ordered(x), NEW v \in Versions,
           Later(v, Whole(x)), NEW r \in UpdateResults(x, v)
    PROVE  /\ Honest => Ordered(r.to)
           /\ Whole(r.to) = IF r.ok THEN v ELSE Whole(x)
  <1> DEFINE y == BackedUp(x)
             Goal == /\ Honest => Ordered(r.to)
                     /\ Whole(r.to) = IF r.ok THEN v ELSE Whole(x)
  <1>1. CASE r = Result(x, FALSE)
    BY <1>1 DEF Result
  <1>2. CASE CanBackUp(x)
    <2>1. /\ y \in Folders /\ y.folder = Absent /\ y.backup \in Content
          /\ Whole(y) = Whole(x) /\ y = [folder |-> Absent, backup |-> y.backup]
      BY <1>2, BackedUpTops DEF Folders
    <2> HIDE DEF y
    <2>2. Lesser(y.backup, y.backup) /\ Lesser(Absent, y.backup)
      BY <2>1, DamagedLesser
    <2>3. ASSUME NEW c \in {Absent} \cup Remains(y.backup),
                 r = Result([folder |-> v, backup |-> c], TRUE)
          PROVE  Goal
      <3>1. Lesser(c, y.backup)
        BY <2>1, <2>2, RemainsLesser
      <3> QED
        BY <2>1, <2>3, <3>1, OverBackup DEF Result
    <2>4. CASE r = Result(Restored(y), FALSE)
      <3>1. CASE y.backup = Absent
        <4>1. Ordered(y)
          BY <3>1, VersionsAreContent DEF Ordered
        <4> QED
          BY <2>1, <2>4, <3>1, <4>1 DEF Result, Restored
      <3>2. CASE y.backup # Absent
        <4>1. r.to = [folder |-> y.backup, backup |-> Absent] /\ ~r.ok
          BY <2>4, <3>2 DEF Result, Restored
        <4> QED
          BY <2>1, <4>1, VersionsAreContent DEF Ordered, Whole
      <3> QED
        BY <3>1, <3>2
    <2>5. ASSUME NEW c \in {Absent, Partial, Half(v)},
                 r = Result([y EXCEPT !.folder = c], FALSE)
          PROVE  Goal
      <3>1. r.to = [folder |-> c, backup |-> y.backup] /\ ~r.ok /\ c # v
        BY <2>1, <2>5, VersionsAreContent DEF Result
      <3>2. c \in {Absent, Partial, Half(v), v}
        BY <2>5
      <3>3. /\ Honest => Ordered([folder |-> c, backup |-> y.backup])
            /\ c # v => Whole([folder |-> c, backup |-> y.backup]) = Whole(x)
            /\ Whole([folder |-> v, backup |-> y.backup]) = v
        BY <2>1, <2>2, <3>2, OverBackup
      <3> QED
        BY <3>1, <3>3
    <2> QED
      BY <1>1, <1>2, <2>3, <2>4, <2>5 DEF UpdateResults, y
  <1>3. CASE ~CanBackUp(x)
    BY <1>1, <1>3 DEF UpdateResults
  <1> QED
    BY <1>2, <1>3

LEMMA UpdateTraceTops ==
    ASSUME NEW x \in Folders, Honest => Ordered(x), NEW v \in Versions,
           Later(v, Whole(x)), NEW z \in UpdateTrace(x, v)
    PROVE  (Honest => Ordered(z)) /\ Whole(z) \in {Whole(x), v}
  <1> DEFINE y == BackedUp(x)
  <1>1. CASE z \in {u.to : u \in UpdateResults(x, v)}
    BY <1>1, UpdateTops
  <1>2. CASE CanBackUp(x)
    <2>1. /\ y \in Folders /\ y.folder = Absent /\ y.backup \in Content
          /\ Whole(y) = Whole(x) /\ y = [folder |-> Absent, backup |-> y.backup]
      BY <1>2, BackedUpTops DEF Folders
    <2> HIDE DEF y
    <2>2. Lesser(y.backup, y.backup)
      BY <2>1, DamagedLesser
    <2>3. ASSUME NEW c \in {Absent, Partial, Half(v), v}, z = [y EXCEPT !.folder = c]
          PROVE  (Honest => Ordered(z)) /\ Whole(z) \in {Whole(x), v}
      <3>1. z = [folder |-> c, backup |-> y.backup]
        BY <2>1, <2>3
      <3>2. /\ Honest => Ordered([folder |-> c, backup |-> y.backup])
            /\ c # v => Whole([folder |-> c, backup |-> y.backup]) = Whole(x)
            /\ Whole([folder |-> v, backup |-> y.backup]) = v
        BY <2>1, <2>2, OverBackup
      <3> QED
        BY <3>1, <3>2
    <2>4. CASE z = y
      BY <2>1, <2>3, <2>4
    <2>5. ASSUME NEW c \in Damaged(y.backup), z = [folder |-> v, backup |-> c]
          PROVE  (Honest => Ordered(z)) /\ Whole(z) \in {Whole(x), v}
      <3>1. Lesser(c, y.backup)
        BY <2>1, DamagedLesser
      <3> QED
        BY <2>1, <2>5, <3>1, OverBackup
    <2> QED
      BY <1>1, <1>2, <2>3, <2>4, <2>5 DEF UpdateTrace, y
  <1>3. CASE ~CanBackUp(x)
    BY <1>1, <1>3 DEF UpdateTrace
  <1> QED
    BY <1>2, <1>3

\* Copies that are gone, damaged or still there leave no later version, and a
\* whole one only where there was one.
LEMMA LessTops ==
    ASSUME NEW x \in Folders, NEW z \in Folders,
           Lesser(z.folder, x.folder), Lesser(z.backup, x.backup)
    PROVE  /\ Whole(x) = 0 => Whole(z) = 0
           /\ Ordered(x) => Ordered(z) /\ Whole(z) <= Whole(x)
  <1>1. /\ x.folder \in Content /\ x.backup \in Content
        /\ z.folder \in Content /\ z.backup \in Content
    BY DEF Folders
  <1>2. /\ Manifest(x.folder) \in 0..MaxVersion /\ Manifest(z.folder) \in 0..MaxVersion
        /\ x.folder \in Versions => Manifest(x.folder) = x.folder /\ x.folder > 0
        /\ x.backup \in Versions => x.backup > 0
    BY <1>1, ManifestType
  <1>3. Versions \subseteq Int
    BY LibraryAssumption DEF Versions
  <1>4. Whole(x) = 0 => Whole(z) = 0
    BY LesserRuns, WholeType
  <1>5. ASSUME Ordered(x)
        PROVE  Ordered(z) /\ Whole(z) <= Whole(x)
    <2>1. Ordered(z)
      BY <1>2, <1>5 DEF Ordered, Lesser
    <2>2. CASE z.folder \in Versions
      <3>1. x.folder = z.folder
        BY <2>2 DEF Lesser
      <3>2. Whole(z) = z.folder /\ Whole(x) = z.folder
        BY <2>2, <3>1 DEF Whole
      <3>3. Whole(z) <= Whole(x)
        <4>1. Whole(z) \in 0..MaxVersion /\ Whole(x) = Whole(z)
          BY <3>2, WholeType
        <4> QED
          BY <4>1, LibraryAssumption
      <3> QED
        BY <2>1, <3>3
    <2>3. CASE z.folder \notin Versions /\ z.backup \in Versions
      <3>1. x.backup = z.backup /\ Whole(z) = z.backup
        BY <2>3 DEF Lesser, Whole
      <3>2. x.folder \in Versions => x.backup < x.folder
        BY <1>2, <1>5, <2>3, <3>1 DEF Ordered
      <3>3. Whole(x) = IF x.folder \in Versions THEN x.folder ELSE x.backup
        BY <2>3, <3>1 DEF Whole
      <3>4. x.backup \in Int /\ (x.folder \in Versions => x.folder \in Int)
        BY <1>3, <2>3, <3>1
      <3>5. Whole(z) <= Whole(x)
        BY <3>1, <3>2, <3>3, <3>4
      <3> QED
        BY <2>1, <3>5
    <2>4. CASE z.folder \notin Versions /\ z.backup \notin Versions
      BY <2>1, <2>4, WholeType, LibraryAssumption DEF Whole
    <2> QED
      BY <2>1, <2>2, <2>3, <2>4
  <1> QED
    BY <1>4, <1>5

-----------------------------------------------------------------------------
(* Steps of the shelf. *)

\* A step that leaves every whole copy, and what was promised.
LEMMA ShelfStays ==
    ASSUME \A d \in DApps : Whole(disk'[d]) = Whole(disk[d]),
           promised' = promised
    PROVE  ShelfStep
  BY DEF ShelfStep

\* A step that brings a whole copy of d, or takes one away from the user who
\* asked for it.
LEMMA ShelfMoves ==
    ASSUME disk \in [DApps -> Folders], disk' \in [DApps -> Folders],
           NEW d \in DApps, \A e \in DApps \ {d} : Whole(disk'[e]) = Whole(disk[e]),
           \/ /\ Whole(disk'[d]) \in Versions /\ Later(Whole(disk'[d]), Whole(disk[d]))
              /\ promised' \in {promised, promised \cup {d}}
           \/ /\ Honest \/ Whole(disk[d]) = 0 => Whole(disk'[d]) <= Whole(disk[d])
              /\ promised' = promised \ {d}
    PROVE  ShelfStep
  <1> DEFINE old == [e \in DApps |-> Whole(disk[e])]
             new == [e \in DApps |-> Whole(disk'[e])]
  <1>1. new = [old EXCEPT ![d] = Whole(disk'[d])]
    OBVIOUS
  <1>2. /\ Whole(disk[d]) \in 0..MaxVersion /\ Whole(disk'[d]) \in 0..MaxVersion
        /\ old[d] = Whole(disk[d])
    BY WholeType
  <1> HIDE DEF old, new
  <1>3. CASE /\ Whole(disk'[d]) \in Versions /\ Later(Whole(disk'[d]), Whole(disk[d]))
             /\ promised' = promised \cup {d}
    <2>1. Shelf!Deliver(d)
      BY <1>1, <1>2, <1>3 DEF Shelf!Deliver, old, new, Later, Versions
    <2> QED
      BY <2>1 DEF ShelfStep, Shelf!Next
  <1>4. CASE /\ Whole(disk'[d]) \in Versions /\ Later(Whole(disk'[d]), Whole(disk[d]))
             /\ promised' = promised
    <2>1. Shelf!Advance(d)
      BY <1>1, <1>2, <1>4 DEF Shelf!Advance, old, new, Later, Versions
    <2> QED
      BY <2>1 DEF ShelfStep, Shelf!Next
  <1>5. CASE /\ Honest \/ Whole(disk[d]) = 0 => Whole(disk'[d]) <= Whole(disk[d])
             /\ promised' = promised \ {d}
    <2>1. Shelf!Withdraw(d)
      BY <1>1, <1>2, <1>5 DEF Shelf!Withdraw, old, new
    <2> QED
      BY <2>1 DEF ShelfStep, Shelf!Next
  <1> QED
    BY <1>3, <1>4, <1>5

-----------------------------------------------------------------------------
(* The steps of a patient user's library. *)

\* A scan shows the disk as it is.
LEMMA ScannedCurrent ==
    ASSUME disk' \in [DApps -> Folders], localApps' = Scan(disk'), OrderInv'
    PROVE  CurrentInv'
  BY ScanWhole DEF CurrentInv, OrderInv

\* No handler becomes connected where the list is set or left alone.
LEMMA ListChangedHandlers ==
    ASSUME HandlerInv, confirming' = confirming, NEW changed,
           ListChanged(changed) \/ armed' = armed
    PROVE  HandlerInv'
  BY DEF ListChanged, HandlerInv

\* The page is made anew.
LEMMA OpenPagePatient ==
    ASSUME IInv', OpenPage, OrderInv'
    PROVE  PatientInv'
  <1>1. CurrentInv'
    BY ScannedCurrent DEF IInv, TypeOK, OpenPage
  <1>2. \A s \in Slots : Idle(s)'
    BY DEF OpenPage, Idle
  <1>3. DownloadInv'
    BY <1>2 DEF DownloadInv
  <1>4. HandlerInv'
    BY DEF OpenPage, HandlerInv
  <1> QED
    BY <1>1, <1>3, <1>4 DEF PatientInv

\* A step that leaves the folders alone and starts no download.
LEMMA QuietPatient ==
    ASSUME IInv, IInv', PatientInv, UNCHANGED <<disk, promised>>,
           localApps' \in {localApps, Scan(disk')}, HandlerInv',
           \A s \in Slots : ~Idle(s)' =>
              requests'[s] = requests[s] /\ confirming' = confirming
    PROVE  PatientInv' /\ ShelfStep
  <1>1. disk \in [DApps -> Folders] /\ disk' \in [DApps -> Folders]
    BY DEF IInv, TypeOK
  <1>2. ShelfStep
    BY ShelfStays
  <1>3. OrderInv'
    BY DEF PatientInv, OrderInv
  <1>4. CurrentInv'
    BY <1>1, <1>3, ScannedCurrent DEF PatientInv, CurrentInv
  <1>5. DownloadInv'
    BY DEF PatientInv, DownloadInv, Idle
  <1> QED
    BY <1>2, <1>3, <1>4, <1>5 DEF PatientInv

\* A download, a bundled application or a file ends with r on the folders of d.
LEMMA WrittenPatient ==
    ASSUME IInv, IInv', PatientInv, NEW d \in DApps, NEW r, NEW v \in Versions,
           Later(v, Whole(disk[d])), disk' = [disk EXCEPT ![d] = r.to],
           Honest => Ordered(r.to),
           Whole(r.to) = IF r.ok THEN v ELSE Whole(disk[d]),
           \A s \in Slots : Idle(s)', HandlerInv',
           IF r.ok THEN localApps' = Scan(disk') /\ promised' = promised \cup {d}
                   ELSE UNCHANGED <<localApps, promised>>
    PROVE  PatientInv' /\ ShelfStep
  <1>1. /\ disk \in [DApps -> Folders] /\ disk' \in [DApps -> Folders]
        /\ disk'[d] = r.to /\ \A e \in DApps \ {d} : disk'[e] = disk[e]
    BY DEF IInv, TypeOK
  <1>2. OrderInv'
    BY <1>1 DEF PatientInv, OrderInv
  <1>3. DownloadInv'
    BY DEF DownloadInv
  <1>4. CASE r.ok
    <2>1. CurrentInv'
      BY <1>1, <1>2, <1>4, ScannedCurrent
    <2>2. ShelfStep
      BY <1>1, <1>4, ShelfMoves
    <2> QED
      BY <1>2, <1>3, <2>1, <2>2 DEF PatientInv
  <1>5. CASE ~r.ok
    <2>1. \A e \in DApps : Whole(disk'[e]) = Whole(disk[e])
      BY <1>1, <1>5
    <2>2. CurrentInv'
      BY <1>5, <2>1 DEF PatientInv, CurrentInv
    <2>3. ShelfStep
      BY <1>1, <1>5, <2>1, ShelfStays
    <2> QED
      BY <1>2, <1>3, <2>2, <2>3 DEF PatientInv
  <1> QED
    BY <1>4, <1>5

\* What the invariants say while the user may act.
LEMMA WhileUserActs ==
    ASSUME Patient, IInv, PatientInv, UserActs
    PROVE  /\ confirming = NoDApp /\ \A s \in Slots : Idle(s)
           /\ armed = <<>>
  <1>1. confirming = NoDApp /\ \A s \in Slots : Idle(s)
    BY DEF UserActs
  <1>2. armed \in Seq(Panel) /\ \A i \in DOMAIN armed : armed[i][1] = NoDApp
    BY <1>1 DEF IInv, TypeOK, PatientInv, HandlerInv
  <1>3. ASSUME armed # <<>>
        PROVE  FALSE
    <2>1. 1 \in DOMAIN armed /\ armed[1] \in Panel
      BY <1>2, <1>3
    <2>2. armed[1][1] \in DApps
      BY <2>1 DEF Panel
    <2> QED
      BY <1>2, <2>1, <2>2, LibraryAssumption
  <1> QED
    BY <1>1, <1>3

\* What is not installed on the page has no whole copy; what is has one the
\* page shows no older.
LEMMA ShownTops ==
    ASSUME IInv, PatientInv, NEW d \in DApps
    PROVE  /\ Whole(disk[d]) \in 0..MaxVersion /\ First(localApps[d]) \in 0..MaxVersion
           /\ Honest => Whole(disk[d]) <= First(localApps[d])
           /\ ~Installed(d) => Whole(disk[d]) = 0
  <1>1. Whole(disk[d]) \in 0..MaxVersion /\ (~Installed(d) => Whole(disk[d]) = 0)
    BY WholeType, NothingToLose DEF IInv, TypeOK
  <1>2. First(localApps[d]) \in 0..MaxVersion
    BY DEF IInv, TypeOK, First
  <1>3. Honest => Whole(disk[d]) <= First(localApps[d])
    BY DEF PatientInv, CurrentInv
  <1> QED
    BY <1>1, <1>2, <1>3

\* The download that is started is of a later version.
LEMMA DownloadPatient ==
    ASSUME Patient, IInv, IInv', PatientInv, NEW d \in DApps,
           Install(d) \/ Update(d)
    PROVE  PatientInv' /\ ShelfStep
  <1>1. UserActs /\ UNCHANGED <<disk, localApps, confirming, armed, promised>>
    BY DEF Install, Update
  <1>2. /\ confirming = NoDApp /\ \A s \in Slots : Idle(s)
    BY <1>1, WhileUserActs
  <1>3. /\ Later(shaderApps[d], Whole(disk[d]))
        /\ ~Update(d) => Whole(disk[d]) = 0
    <2>1. shaderApps[d] \in 0..MaxVersion
      BY DEF IInv, TypeOK
    <2>2. CASE Install(d)
      <3>1. ~Installed(d) /\ shaderApps[d] \in Versions
        BY <2>2, PanelsMeaning DEF Install, IInv
      <3> QED
        BY <3>1, ShownTops, LibraryAssumption DEF Versions, Later
    <2>3. CASE Update(d)
      <3>1. shaderApps[d] > First(localApps[d])
        BY <2>3 DEF Update, HasUpdate
      <3> QED
        BY <2>1, <2>3, <3>1, ShownTops, LibraryAssumption DEF Later
    <2> QED
      BY <2>2, <2>3
  <1>4. PICK kind \in {"install", "update"} :
          Download(kind, d) /\ (kind = "install" => Whole(disk[d]) = 0)
    <2>1. CASE Update(d)
      BY <2>1 DEF Update
    <2>2. CASE ~Update(d)
      BY <1>3, <2>2 DEF Install
    <2> QED
      BY <2>1, <2>2
  <1>5. PICK s \in Slots : requests' = [requests EXCEPT ![s] =
                      [kind |-> kind, app |-> d, version |-> shaderApps[d]]]
    BY <1>4 DEF Download
  <1>6. /\ requests'[s].app = d /\ requests'[s].version = shaderApps[d]
        /\ requests'[s].kind = kind
        /\ \A t \in Slots \ {s} : Idle(t)'
    BY <1>2, <1>5 DEF IInv, TypeOK, Idle
  <1>7. DownloadInv'
    BY <1>1, <1>2, <1>3, <1>4, <1>6 DEF DownloadInv, Later
  <1>8. OrderInv' /\ CurrentInv' /\ HandlerInv'
    BY <1>1 DEF PatientInv, OrderInv, CurrentInv, HandlerInv
  <1>9. ShelfStep
    BY <1>1, ShelfStays
  <1> QED
    BY <1>7, <1>8, <1>9 DEF PatientInv

LEMMA AskUninstallPatient ==
    ASSUME Patient, IInv, IInv', PatientInv, NEW d \in DApps,
           NEW copy \in {"folder", "backup"}, AskUninstall(d, copy)
    PROVE  PatientInv' /\ ShelfStep
  <1>1. /\ UNCHANGED <<disk, localApps, requests, promised>> /\ confirming' = d
        /\ armed' = Append(armed, <<d, copy>>)
    BY DEF AskUninstall
  <1>2. armed = <<>> /\ \A s \in Slots : Idle(s)
    BY WhileUserActs DEF AskUninstall
  <1>3. HandlerInv'
    <2>1. armed' = <<<<d, copy>>>>
      BY <1>1, <1>2
    <2> QED
      BY <1>1, <2>1 DEF HandlerInv
  <1>4. \A s \in Slots : Idle(s)'
    BY <1>1, <1>2 DEF Idle
  <1> QED
    BY <1>1, <1>3, <1>4, QuietPatient

\* Cancelling is not for a patient user; a time-out takes the download away.
LEMMA SmallStepsPatient ==
    ASSUME Patient, IInv, IInv', PatientInv,
           \/ CancelUninstall \/ Back \/ OnStoreApps \/ RunViewDapps \/ FailViewDapps
           \/ \E d \in DApps : Launch(d) \/ \E v \in 0..MaxVersion : Publish(d, v)
           \/ \E s \in Slots : OnTimeout(s)
    PROVE  PatientInv' /\ ShelfStep
  <1>1. UNCHANGED <<disk, localApps, confirming, promised>>
    BY DEF CancelUninstall, Back, OnStoreApps, RunViewDapps, FailViewDapps, Launch,
           Publish, OnTimeout, page
  <1>2. HandlerInv'
    <2>1. HandlerInv
      BY DEF PatientInv
    <2>2. armed' = armed \/ ListChanged(shaderApps' # shaderApps)
      BY DEF CancelUninstall, Back, OnStoreApps, RunViewDapps, FailViewDapps, Launch,
             Publish, OnTimeout, page
    <2> QED
      BY <1>1, <2>1, <2>2, ListChangedHandlers
  <1>3. \A s \in Slots : ~Idle(s)' => requests'[s] = requests[s]
    <2>1. CASE requests' = requests
      BY <2>1
    <2>2. ASSUME NEW s \in Slots, OnTimeout(s)
          PROVE  \A t \in Slots : ~Idle(t)' => requests'[t] = requests[t]
      BY <2>2 DEF OnTimeout, Close, Idle, IInv, TypeOK
    <2>3. (\E s \in Slots : OnTimeout(s)) \/ requests' = requests
      BY DEF CancelUninstall, Back, OnStoreApps, RunViewDapps, FailViewDapps, Launch,
             Publish
    <2> QED
      BY <2>1, <2>2, <2>3
  <1> QED
    BY <1>1, <1>2, <1>3, QuietPatient

LEMMA OnWalletStatusPatient ==
    ASSUME IInv, IInv', PatientInv, OnWalletStatus
    PROVE  PatientInv' /\ ShelfStep
  <1>1. /\ UNCHANGED <<disk, requests, confirming, promised>>
        /\ localApps' = Scan(disk') /\ ListChanged(localApps' # localApps)
    BY DEF OnWalletStatus, LoadApps
  <1>2. HandlerInv'
    BY <1>1, ListChangedHandlers DEF PatientInv
  <1> QED
    BY <1>1, <1>2, QuietPatient

LEMMA ReopenPatient ==
    ASSUME IInv, IInv', PatientInv, Reopen
    PROVE  PatientInv' /\ ShelfStep
  <1>1. OpenPage /\ UNCHANGED <<disk, promised>>
    BY DEF Reopen
  <1>2. OrderInv'
    BY <1>1 DEF PatientInv, OrderInv
  <1>3. ShelfStep
    BY <1>1, ShelfStays
  <1> QED
    BY <1>1, <1>2, <1>3, OpenPagePatient

\* The handlers that end an installation or update set the list or leave it.
LEMMA EndInstallHandlers ==
    ASSUME HandlerInv, NEW d, NEW r, EndInstall(d, r), confirming' = confirming
    PROVE  /\ HandlerInv' /\ disk' = [disk EXCEPT ![d] = r.to]
           /\ IF r.ok THEN localApps' = Scan(disk') /\ promised' = promised \cup {d}
                      ELSE UNCHANGED <<localApps, promised>>
  BY ListChangedHandlers DEF EndInstall, LoadApps

LEMMA InstallBundledPatient ==
    ASSUME Patient, IInv, IInv', PatientInv, NEW d \in DApps, InstallBundled(d)
    PROVE  PatientInv' /\ ShelfStep
  <1>1. ~Installed(d) /\ Bundled[d] \in Versions
    BY PanelsMeaning DEF InstallBundled, IInv
  <1>2. Whole(disk[d]) = 0 /\ disk[d] \in Folders
    BY <1>1, ShownTops DEF IInv, TypeOK
  <1>3. /\ UNCHANGED <<requests, confirming>> /\ \A s \in Slots : Idle(s)
        /\ HandlerInv
    BY WhileUserActs DEF InstallBundled, PatientInv
  <1>4. PICK r \in InstallResults(disk[d], Bundled[d]) :
          /\ disk' = [disk EXCEPT ![d] = r.to]
          /\ IF r.ok THEN LoadApps /\ promised' = promised \cup {d}
                     ELSE UNCHANGED <<localApps, armed, promised>>
    BY DEF InstallBundled
  <1>5. Ordered(r.to) /\ Whole(r.to) = IF r.ok THEN Bundled[d] ELSE Whole(disk[d])
    BY <1>1, <1>2, InstallTops
  <1>6. HandlerInv'
    BY <1>3, <1>4, ListChangedHandlers DEF LoadApps
  <1>7. IF r.ok THEN localApps' = Scan(disk') /\ promised' = promised \cup {d}
                ELSE UNCHANGED <<localApps, promised>>
    BY <1>4 DEF LoadApps
  <1>8. Later(Bundled[d], Whole(disk[d])) /\ \A s \in Slots : Idle(s)'
    BY <1>1, <1>2, <1>3 DEF Versions, Idle, Later
  <1> QED
    BY <1>1, <1>4, <1>5, <1>6, <1>7, <1>8, WrittenPatient

LEMMA InstallFromFilePatient ==
    ASSUME Patient, IInv, IInv', PatientInv, NEW d \in DApps, NEW v \in Versions,
           InstallFromFile(d, v)
    PROVE  PatientInv' /\ ShelfStep
  <1>1. ~Installed(d)
    BY PanelsMeaning DEF InstallFromFile, IInv
  <1>2. Whole(disk[d]) = 0 /\ disk[d] \in Folders
    BY <1>1, ShownTops DEF IInv, TypeOK
  <1>3. /\ UNCHANGED <<requests, confirming>> /\ \A s \in Slots : Idle(s)
        /\ HandlerInv
    BY WhileUserActs DEF InstallFromFile, PatientInv
  <1>4. PICK r \in InstallResults(disk[d], v) : EndInstall(d, r)
    BY DEF InstallFromFile
  <1>5. Ordered(r.to) /\ Whole(r.to) = IF r.ok THEN v ELSE Whole(disk[d])
    BY <1>2, InstallTops
  <1>6. /\ HandlerInv' /\ disk' = [disk EXCEPT ![d] = r.to]
        /\ IF r.ok THEN localApps' = Scan(disk') /\ promised' = promised \cup {d}
                   ELSE UNCHANGED <<localApps, promised>>
    BY <1>3, <1>4, EndInstallHandlers
  <1>7. Later(v, Whole(disk[d])) /\ \A s \in Slots : Idle(s)'
    BY <1>2, <1>3 DEF Versions, Idle, Later
  <1> QED
    BY <1>5, <1>6, <1>7, WrittenPatient

\* The versions of a package come after whatever the announced one does.
LEMMA PackageLater ==
    ASSUME NEW w \in Versions, NEW v \in Package(w), NEW old, Later(w, old)
    PROVE  v \in Versions /\ Later(v, old)
  BY DEF Package, Later

\* The answer of the one download under way.
LEMMA DownloadedPatient ==
    ASSUME Patient, IInv, IInv', PatientInv, NEW s \in Slots,
           OnInstallData(s) \/ OnUpdateData(s)
    PROVE  PatientInv' /\ ShelfStep
  <1> DEFINE d == requests[s].app
             w == requests[s].version
  <1>1. requests[s].kind \in {"install", "update"} /\ d \in DApps /\ w \in Versions
    BY RequestMeaning DEF OnInstallData, OnUpdateData, IInv
  <1>2. ~Idle(s)
    BY <1>1 DEF Idle, NoRequest
  <1>3. /\ \A t \in Slots : ~Idle(t) => t = s
        /\ Later(w, Whole(disk[d]))
        /\ requests[s].kind = "install" => Whole(disk[d]) = 0
        /\ Honest => Ordered(disk[d])
        /\ disk[d] \in Folders /\ HandlerInv
    BY <1>1, <1>2 DEF PatientInv, DownloadInv, OrderInv, IInv, TypeOK
  <1>4. PICK v \in Package(w) : \E r :
          /\ EndInstall(d, r)
          /\ Honest => Ordered(r.to)
          /\ Whole(r.to) = IF r.ok THEN v ELSE Whole(disk[d])
    <2>1. CASE OnInstallData(s)
      <3>1. PICK v \in Package(w) : \E r \in InstallResults(disk[d], v) : EndInstall(d, r)
        BY <2>1 DEF OnInstallData
      <3>2. Whole(disk[d]) = 0
        BY <1>3, <2>1 DEF OnInstallData
      <3> HIDE DEF d, w
      <3>3. v \in Versions
        BY <1>1, <1>3, PackageLater
      <3>4. PICK r \in InstallResults(disk[d], v) : EndInstall(d, r)
        BY <3>1
      <3>5. Ordered(r.to) /\ Whole(r.to) = IF r.ok THEN v ELSE 0
        BY <1>3, <3>2, <3>3, InstallTops
      <3> QED
        BY <3>2, <3>4, <3>5
    <2>2. CASE OnUpdateData(s)
      <3>1. PICK v \in Package(w) : \E r \in UpdateResults(disk[d], v) : EndInstall(d, r)
        BY <2>2 DEF OnUpdateData
      <3> HIDE DEF d, w
      <3>2. v \in Versions /\ Later(v, Whole(disk[d]))
        BY <1>1, <1>3, PackageLater
      <3>3. PICK r \in UpdateResults(disk[d], v) : EndInstall(d, r)
        BY <3>1
      <3>4. /\ Honest => Ordered(r.to)
            /\ Whole(r.to) = IF r.ok THEN v ELSE Whole(disk[d])
        BY <1>3, <3>2, UpdateTops
      <3> QED
        BY <3>3, <3>4
    <2> QED
      BY <2>1, <2>2
  <1>5. PICK r : /\ EndInstall(d, r)
                 /\ Honest => Ordered(r.to)
                 /\ Whole(r.to) = IF r.ok THEN v ELSE Whole(disk[d])
    BY <1>4
  <1>6. confirming' = confirming /\ Close(s)
    BY DEF OnInstallData, OnUpdateData
  <1>7. \A t \in Slots : Idle(t)'
    BY <1>3, <1>6 DEF Close, Idle, IInv, TypeOK
  <1> HIDE DEF d, w
  <1>8. /\ HandlerInv' /\ disk' = [disk EXCEPT ![d] = r.to]
        /\ IF r.ok THEN localApps' = Scan(disk') /\ promised' = promised \cup {d}
                   ELSE UNCHANGED <<localApps, promised>>
    BY <1>3, <1>5, <1>6, EndInstallHandlers
  <1>9. v \in Versions /\ Later(v, Whole(disk[d]))
    BY <1>1, <1>3, PackageLater
  <1> QED
    BY <1>1, <1>5, <1>7, <1>8, <1>9, WrittenPatient

\* The removal the dialog was open for; the list that follows it is another
\* one, so no handler stays connected.
LEMMA AcceptUninstallPatient ==
    ASSUME IInv, IInv', PatientInv, AcceptUninstall
    PROVE  PatientInv' /\ ShelfStep
  <1> DEFINE q == confirming
  <1>1. /\ q \in DApps /\ confirming' = NoDApp
        /\ promised' = promised \ {q} /\ requests' = requests
    BY Zenon DEF AcceptUninstall, IInv, TypeOK
  <1>2. PICK gone \in SUBSET ToSet(armed) : \E left \in [gone -> Content] :
             /\ gone \subseteq Panel
             /\ \A p \in gone : LET c == disk[p[1]][p[2]]
                               IN  left[p] \in {Absent, c} \cup Damaged(c)
             /\ disk' = Without(gone, left)
             /\ IF \E p \in gone : left[p] = Absent THEN LoadApps
                ELSE armed' = <<>> /\ UNCHANGED <<localApps, calls, busy>>
    BY Accepted DEF IInv
  <1>3. PICK left \in [gone -> Content] :
             /\ gone \subseteq Panel
             /\ \A p \in gone : LET c == disk[p[1]][p[2]]
                               IN  left[p] \in {Absent, c} \cup Damaged(c)
             /\ disk' = Without(gone, left)
             /\ IF \E p \in gone : left[p] = Absent THEN LoadApps
                ELSE armed' = <<>> /\ UNCHANGED <<localApps, calls, busy>>
    BY <1>2
  <1>4. \A p \in gone : p[1] = q /\ localApps[p[1]][p[2]] > 0
    BY DEF PatientInv, HandlerInv, IInv, ArmedInv, ToSet
  <1> HIDE DEF q
  <1>5. disk \in [DApps -> Folders] /\ disk' \in [DApps -> Folders]
    BY DEF IInv, TypeOK
  <1>6. /\ \A d \in DApps : /\ Lesser(disk'[d].folder, disk[d].folder)
                            /\ Lesser(disk'[d].backup, disk[d].backup)
                            /\ d # q => disk'[d] = disk[d]
        /\ \A p \in gone : left[p] = Absent => disk'[p[1]][p[2]] = Absent
    <2>1. /\ gone \in SUBSET Panel /\ disk' = Without(gone, left)
          /\ \A p \in gone : left[p] \in {Absent, disk[p[1]][p[2]]}
                                        \cup Damaged(disk[p[1]][p[2]])
      BY <1>3
    <2>2. /\ \A d \in DApps :
               /\ Lesser(disk'[d].folder, disk[d].folder)
               /\ Lesser(disk'[d].backup, disk[d].backup)
               /\ (\A p \in gone : p[1] # d) => disk'[d] = disk[d]
          /\ \A p \in gone : left[p] = Absent => disk'[p[1]][p[2]] = Absent
      BY <1>5, <2>1, WithoutLeaves
    <2> QED
      BY <1>4, <2>2
  <1>7. \A d \in DApps : /\ Whole(disk[d]) = 0 => Whole(disk'[d]) = 0
                         /\ Ordered(disk[d]) => /\ Ordered(disk'[d])
                                                /\ Whole(disk'[d]) <= Whole(disk[d])
                         /\ Whole(disk[d]) \in Int /\ Whole(disk'[d]) \in Int
    BY <1>5, <1>6, LessTops, WholeType, LibraryAssumption
  <1>8. OrderInv'
    BY <1>7 DEF PatientInv, OrderInv
  <1>9. ShelfStep
    <2>1. Honest \/ Whole(disk[q]) = 0 => Whole(disk'[q]) <= Whole(disk[q])
      BY <1>1, <1>7 DEF PatientInv, OrderInv
    <2> QED
      BY <1>1, <1>5, <1>6, <2>1, ShelfMoves
  <1>10. DownloadInv'
    <2>1. \A s \in Slots : Idle(s)
      BY <1>1, LibraryAssumption DEF PatientInv, DownloadInv, q
    <2> QED
      BY <1>1, <2>1 DEF DownloadInv, Idle
  <1>11. armed' = <<>> /\ CurrentInv'
    <2>1. CASE \E p \in gone : left[p] = Absent
      <3>1. PICK p \in gone : left[p] = Absent
        BY <2>1
      <3>2. LoadApps /\ localApps' = Scan(disk')
        BY <1>3, <2>1 DEF LoadApps
      <3>3. p[1] \in DApps /\ p[2] \in {"folder", "backup"}
        BY <1>3 DEF Panel
      <3>4. localApps'[p[1]][p[2]] = 0
        <4>1. disk'[p[1]][p[2]] = Absent
          BY <1>6, <3>1
        <4>2. Manifest(Absent) = 0
          BY VersionsAreContent, ManifestType
        <4>3. CASE p[2] = "folder"
          BY <3>2, <3>3, <4>1, <4>2, <4>3 DEF Scan
        <4>4. CASE p[2] = "backup"
          BY <3>2, <3>3, <4>1, <4>2, <4>4 DEF Scan
        <4> QED
          BY <3>3, <4>3, <4>4
      <3>5. localApps' # localApps
        BY <1>4, <3>4
      <3>6. armed' = <<>>
        BY <3>2, <3>5 DEF LoadApps, ListChanged
      <3> QED
        BY <1>5, <1>8, <3>2, <3>6, ScannedCurrent
    <2>2. CASE ~\E p \in gone : left[p] = Absent
      <3>1. armed' = <<>> /\ localApps' = localApps
        BY <1>3, <2>2
      <3>2. \A d \in DApps : First(localApps[d]) \in Int
        BY ShownTops, LibraryAssumption
      <3>3. CurrentInv'
        BY <1>7, <3>1, <3>2 DEF PatientInv, CurrentInv, OrderInv
      <3> QED
        BY <3>1, <3>3
    <2> QED
      BY <2>1, <2>2
  <1>12. HandlerInv'
    BY <1>11 DEF HandlerInv
  <1> QED
    BY <1>8, <1>9, <1>10, <1>11, <1>12 DEF PatientInv

\* A stop inside an update may leave the later version before anybody was told;
\* one inside an installation or a removal is what the user asked for.
LEMMA CrashPatient ==
    ASSUME IInv, IInv', PatientInv, Crash
    PROVE  PatientInv' /\ ShelfStep
  <1>1. OpenPage /\ disk \in [DApps -> Folders] /\ disk' \in [DApps -> Folders]
    BY DEF Crash, IInv, TypeOK
  <1>2. ASSUME NEW d \in DApps, Honest => Ordered(disk'[d]),
               \A e \in DApps \ {d} : disk'[e] = disk[e],
               ShelfStep
        PROVE  PatientInv' /\ ShelfStep
    <2>1. OrderInv'
      BY <1>2 DEF PatientInv, OrderInv
    <2> QED
      BY <1>1, <1>2, <2>1, OpenPagePatient
  <1>3. CASE UNCHANGED <<disk, promised>>
    <2>1. OrderInv' /\ ShelfStep
      BY <1>3, ShelfStays DEF PatientInv, OrderInv
    <2> QED
      BY <1>1, <2>1, OpenPagePatient
  <1>4. ASSUME NEW s \in Slots, promised' = promised,
               NEW v \in Package(requests[s].version),
               NEW x, disk' = [disk EXCEPT ![requests[s].app] = x],
               \/ /\ requests[s].kind = "install"
                  /\ x \in InstallTrace(disk[requests[s].app], v)
               \/ /\ requests[s].kind = "update"
                  /\ x \in UpdateTrace(disk[requests[s].app], v)
        PROVE  PatientInv' /\ ShelfStep
    <2> DEFINE d == requests[s].app
               w == requests[s].version
    <2>1. d \in DApps /\ w \in Versions
      BY <1>4, RequestMeaning DEF IInv
    <2>2. ~Idle(s)
      BY <1>4 DEF Idle, NoRequest
    <2>3. /\ Later(w, Whole(disk[d]))
          /\ requests[s].kind = "install" => Whole(disk[d]) = 0
          /\ Honest => Ordered(disk[d])
          /\ disk[d] \in Folders
      BY <1>1, <2>1, <2>2 DEF PatientInv, DownloadInv, OrderInv
    <2>4. v \in Versions /\ Later(v, Whole(disk[d]))
      BY <1>4, <2>1, <2>3, PackageLater
    <2>5. (Honest => Ordered(x)) /\ Whole(x) \in {Whole(disk[d]), v}
      <3>1. \/ Whole(disk[d]) = 0 /\ x \in InstallTrace(disk[d], v)
            \/ x \in UpdateTrace(disk[d], v)
        BY <1>4, <2>3
      <3> HIDE DEF d, w
      <3> QED
        BY <2>3, <2>4, <3>1, InstallTraceTops, UpdateTraceTops
    <2>6. disk'[d] = x /\ \A e \in DApps \ {d} : disk'[e] = disk[e]
      BY <1>1, <1>4, <2>1
    <2> HIDE DEF d, w
    <2>7. CASE Whole(x) = Whole(disk[d])
      <3>1. \A e \in DApps : Whole(disk'[e]) = Whole(disk[e])
        BY <2>6, <2>7
      <3>2. ShelfStep
        BY <1>4, <3>1, ShelfStays
      <3> QED
        BY <1>2, <2>1, <2>5, <2>6, <3>2
    <2>8. CASE Whole(x) = v
      <3>1. ShelfStep
        BY <1>1, <1>4, <2>1, <2>4, <2>6, <2>8, ShelfMoves
      <3> QED
        BY <1>2, <2>1, <2>5, <2>6, <3>1
    <2> QED
      BY <2>5, <2>7, <2>8
  <1>5. ASSUME confirming # NoDApp, NEW gone \in SUBSET ToSet(armed),
               NEW left \in [gone -> Content],
               \A p \in gone : left[p] \in {Absent} \cup Damaged(disk[p[1]][p[2]]),
               disk' = Without(gone, left), promised' = promised \ {confirming}
        PROVE  PatientInv' /\ ShelfStep
    <2> DEFINE d == confirming
    <2>1. d \in DApps /\ gone \subseteq Panel
      BY <1>5 DEF IInv, TypeOK, ToSet
    <2>2. \A p \in gone : p[1] = d
      BY DEF PatientInv, HandlerInv, ToSet
    <2>3. disk[d] \in Folders /\ disk'[d] \in Folders
          /\ (Honest => Ordered(disk[d]))
      BY <1>1, <2>1 DEF PatientInv, OrderInv
    <2>4. /\ Lesser(disk'[d].folder, disk[d].folder)
          /\ Lesser(disk'[d].backup, disk[d].backup)
          /\ \A e \in DApps \ {d} : disk'[e] = disk[e]
      BY <1>1, <1>5, <2>1, <2>2, WithoutLeaves
    <2>5. /\ Honest => Ordered(disk'[d])
          /\ Honest \/ Whole(disk[d]) = 0 => Whole(disk'[d]) <= Whole(disk[d])
      BY <2>3, <2>4, LessTops
    <2>6. ShelfStep
      BY <1>1, <1>5, <2>1, <2>4, <2>5, ShelfMoves
    <2> QED
      BY <1>2, <2>1, <2>4, <2>5, <2>6
  <1> QED
    BY <1>3, <1>4, <1>5 DEF Crash

LEMMA NextPatient ==
    Patient => (IInv /\ PatientInv /\ [Next]_vars => PatientInv' /\ ShelfStep)
  <1> SUFFICES ASSUME Patient, IInv, PatientInv, [Next]_vars
               PROVE  PatientInv' /\ ShelfStep
    OBVIOUS
  <1>1. IInv'
    BY NextInv
  <1>2. CASE User
    <2>1. ASSUME NEW d \in DApps, NEW v \in Versions, InstallFromFile(d, v)
          PROVE  PatientInv' /\ ShelfStep
      BY <1>1, <2>1, InstallFromFilePatient
    <2>2. ASSUME NEW d \in DApps,
                 \/ Install(d) \/ InstallBundled(d) \/ Update(d) \/ Launch(d)
                 \/ \E c \in {"folder", "backup"} : AskUninstall(d, c)
          PROVE  PatientInv' /\ ShelfStep
      BY <1>1, <2>2, DownloadPatient, InstallBundledPatient, AskUninstallPatient,
         SmallStepsPatient
    <2> QED
      BY <1>1, <1>2, <2>1, <2>2, SmallStepsPatient, AcceptUninstallPatient,
         ReopenPatient DEF User
  <1>3. ASSUME NEW s \in Slots, OnInstallData(s) \/ OnUpdateData(s) \/ OnTimeout(s)
        PROVE  PatientInv' /\ ShelfStep
    BY <1>1, <1>3, DownloadedPatient, SmallStepsPatient
  <1>4. CASE OnStoreApps \/ RunViewDapps \/ FailViewDapps
             \/ \E d \in DApps, v \in 0..MaxVersion : Publish(d, v)
    BY <1>1, <1>4, SmallStepsPatient
  <1>5. CASE OnWalletStatus \/ Crash
    BY <1>1, <1>5, OnWalletStatusPatient, CrashPatient
  <1>6. CASE UNCHANGED vars
    <2>1. UNCHANGED <<disk, localApps, requests, confirming, armed, promised>>
      BY <1>6 DEF vars, page
    <2>2. HandlerInv'
      BY <2>1 DEF PatientInv, HandlerInv
    <2> QED
      BY <1>1, <2>1, <2>2, QuietPatient
  <1> QED
    BY <1>2, <1>3, <1>4, <1>5, <1>6 DEF Next

LEMMA InitPatient == Init => PatientInv /\ Shelf!Init
  <1> SUFFICES ASSUME Init
               PROVE  PatientInv /\ Shelf!Init
    OBVIOUS
  <1>1. /\ disk \in [DApps -> Folders] /\ localApps = Scan(disk)
        /\ \A d \in DApps : disk[d].backup = Absent
    <2>1. IInv
      BY InitInv
    <2>2. disk \in [DApps -> {[Empty EXCEPT !.folder = c] : c \in {Absent, 1}}]
          /\ localApps = Scan(disk)
      BY DEF Init
    <2>3. ASSUME NEW d \in DApps
          PROVE  disk[d].backup = Absent
      <3>1. PICK c \in {Absent, 1} : disk[d] = [Empty EXCEPT !.folder = c]
        BY <2>2
      <3> QED
        BY <3>1 DEF Empty
    <2> QED
      BY <2>1, <2>2, <2>3 DEF IInv, TypeOK
  <1>2. \A d \in DApps : Ordered(disk[d]) /\ Whole(disk[d]) \in 0..MaxVersion
    BY <1>1, VersionsAreContent, WholeType DEF Ordered
  <1>3. OrderInv /\ CurrentInv
    BY <1>1, <1>2, ScanWhole DEF OrderInv, CurrentInv
  <1>4. DownloadInv /\ HandlerInv
    BY DEF Init, DownloadInv, Idle, HandlerInv
  <1>5. Shelf!Init
    BY <1>2 DEF Init, OnDisk, Shelf!Init
  <1> QED
    BY <1>3, <1>4, <1>5 DEF PatientInv

\* For a user who waits for his downloads and does not cancel a removal he asked
\* for, the library keeps the promise of DAppShelf through failing operations on
\* folders and stops of the program, half way through unpacking too: a whole
\* copy only gives way to another, and what he was told is installed stays
\* (updateDApp, installFromFile, uninstallLocalApp, loadLocalApps). That
\* versions only go up is part of it where Honest, and only there: the code does
\* not compare the version of a package with the one it was announced with.
THEOREM ShelfTheorem == Patient => (Spec => KeepsThePromise)
  <1> SUFFICES ASSUME Patient
               PROVE  Spec => KeepsThePromise
    OBVIOUS
  <1>1. Init => IInv /\ PatientInv /\ Shelf!Init
    BY InitInv, InitPatient
  <1>2. IInv /\ PatientInv /\ [Next]_vars => IInv' /\ PatientInv' /\ ShelfStep
    BY NextInv, NextPatient
  <1>3. IInv /\ PatientInv /\ [Next]_vars
          => [Shelf!Next]_<<[d \in DApps |-> Whole(disk[d])], promised>>
    BY <1>2 DEF ShelfStep
  <1> QED
    BY <1>1, <1>2, <1>3, PTL DEF Spec, KeepsThePromise, Shelf!Spec

-----------------------------------------------------------------------------
(* The lookup of a removal. Of such a user at most one handler is connected, *)
(* because it is disconnected when it runs, whatever becomes of its removal. *)

OneHandler == Len(armed) <= 1 /\ ~missed

LEMMA FewerHandlers ==
    ASSUME OneHandler, armed' = armed \/ armed' = <<>>, missed' = missed \/ missed' = FALSE
    PROVE  OneHandler'
  <1>1. ~missed'
    <2>1. CASE missed' = missed
      BY <2>1, Zenon DEF OneHandler
    <2>2. CASE missed' = FALSE
      BY <2>2, Zenon
    <2> QED
      BY <2>1, <2>2
  <1>2. Len(armed') <= 1
    <2>1. CASE armed' = armed
      BY <2>1 DEF OneHandler
    <2>2. CASE armed' = <<>>
      <3>1. Len(<<>>) = 0
        OBVIOUS
      <3> QED
        BY <2>2, <3>1
    <2> QED
      BY <2>1, <2>2
  <1> QED
    BY <1>1, <1>2 DEF OneHandler

\* Every other step leaves the handlers connected or disconnects them all.
LEMMA OtherStepsHandlers ==
    ASSUME [Next]_vars, \A d \in DApps, c \in {"folder", "backup"} : ~AskUninstall(d, c),
           ~AcceptUninstall
    PROVE  (armed' = armed \/ armed' = <<>>) /\ (missed' = missed \/ missed' = FALSE)
  <1>1. ASSUME NEW changed, ListChanged(changed)
        PROVE  (armed' = armed \/ armed' = <<>>)
    BY <1>1 DEF ListChanged
  <1>2. LoadApps => (armed' = armed \/ armed' = <<>>)
    BY <1>1 DEF LoadApps
  <1>3. ASSUME NEW d, NEW r, EndInstall(d, r)
        PROVE  (armed' = armed \/ armed' = <<>>)
    BY <1>2, <1>3 DEF EndInstall
  <1>4. OpenPage => armed' = <<>> /\ missed' = FALSE
    BY DEF OpenPage
  <1>5. CASE User
    <2>1. ASSUME NEW d \in DApps, Install(d) \/ Update(d) \/ Launch(d)
          PROVE  armed' = armed /\ missed' = missed
      BY <2>1 DEF Install, Update, Launch
    <2>2. ASSUME NEW d \in DApps, InstallBundled(d)
          PROVE  (armed' = armed \/ armed' = <<>>) /\ missed' = missed
      BY <2>2, <1>2 DEF InstallBundled
    <2>3. ASSUME NEW d \in DApps, NEW v \in Versions, InstallFromFile(d, v)
          PROVE  (armed' = armed \/ armed' = <<>>) /\ missed' = missed
      BY <2>3, <1>3 DEF InstallFromFile
    <2>4. CASE CancelUninstall \/ Back
      BY <2>4 DEF CancelUninstall, Back
    <2>5. CASE Reopen
      BY <2>5, <1>4 DEF Reopen
    <2> QED
      BY <1>5, <2>1, <2>2, <2>3, <2>4, <2>5 DEF User
  <1>6. ASSUME NEW s \in Slots, OnInstallData(s) \/ OnUpdateData(s) \/ OnTimeout(s)
        PROVE  (armed' = armed \/ armed' = <<>>) /\ missed' = missed
    BY <1>6, <1>3 DEF OnInstallData, OnUpdateData, OnTimeout
  <1>7. CASE OnWalletStatus
    BY <1>7, <1>2 DEF OnWalletStatus
  <1>8. CASE OnStoreApps
    BY <1>8, <1>1 DEF OnStoreApps
  <1>9. CASE RunViewDapps \/ FailViewDapps
             \/ \E d \in DApps, v \in 0..MaxVersion : Publish(d, v)
    BY <1>9 DEF RunViewDapps, FailViewDapps, Publish, page
  <1>10. CASE Crash
    BY <1>10, <1>4 DEF Crash
  <1>11. CASE UNCHANGED vars
    BY <1>11 DEF vars, page
  <1> QED
    BY <1>5, <1>6, <1>7, <1>8, <1>9, <1>10, <1>11 DEF Next

LEMMA NextOneHandler ==
    ASSUME Patient, IInv, PatientInv, OneHandler, [Next]_vars
    PROVE  OneHandler'
  <1>1. ASSUME NEW d \in DApps, NEW c \in {"folder", "backup"}, AskUninstall(d, c)
        PROVE  OneHandler'
    <2>1. armed = <<>> /\ armed' = Append(armed, <<d, c>>) /\ missed' = missed
      BY <1>1, WhileUserActs DEF AskUninstall
    <2> QED
      BY <2>1 DEF OneHandler
  <1>2. CASE AcceptUninstall
    <2>1. Len(armed) \in {0, 1} /\ DOMAIN armed = 1..Len(armed)
      <3>1. armed \in Seq(Panel)
        BY DEF IInv, TypeOK
      <3>2. Len(armed) \in Nat /\ DOMAIN armed = 1..Len(armed)
        BY <3>1
      <3>3. Len(armed) <= 1
        BY DEF OneHandler
      <3> QED
        BY <3>2, <3>3
    <2>2. PICK gone \in SUBSET ToSet(armed) : \E left \in Removals(gone) :
            LET done     == {p \in gone : left[p] = Absent}
                Late(i)  == \E j \in 1..(i - 1) : armed[j] \in done
                Again(i) == armed[i] \in done /\ \E j \in 1..(i - 1) : armed[j] = armed[i]
            IN /\ \A i \in DOMAIN armed : armed[i] \in gone \/ Late(i)
               /\ missed' \in {FALSE, \E i \in DOMAIN armed :
                                        Again(i) \/ armed[i] \notin gone}
               /\ IF done # {} THEN LoadApps ELSE armed' = <<>>
      BY <1>2, Zenon DEF AcceptUninstall
    <2>3. \A i \in DOMAIN armed : 1..(i - 1) = {}
      BY <2>1
    <2>4. \A i \in DOMAIN armed : armed[i] \in gone
      BY <2>2, <2>3
    <2>5. missed' = FALSE
      BY <2>2, <2>3, <2>4
    <2>6. (armed' = armed \/ armed' = <<>>)
      BY <2>2 DEF LoadApps, ListChanged
    <2> QED
      BY <2>5, <2>6, FewerHandlers
  <1> QED
    BY <1>1, <1>2, OtherStepsHandlers, FewerHandlers

\* A user who does not cancel a removal he asked for never meets the assertion of
\* uninstallLocalApp (apps_view.cpp:1308-1312): the application his removal names
\* is in the list, whatever removals fail, lists change under the open dialog and
\* stops of the program there were before (AppsList.qml:177-181).
THEOREM LookupTheorem == Patient => (Spec => []RemovalFindsItsApp)
  <1> SUFFICES ASSUME Patient
               PROVE  Spec => []RemovalFindsItsApp
    OBVIOUS
  <1>1. Init => IInv /\ PatientInv /\ OneHandler
    BY InitInv, InitPatient DEF Init, OneHandler
  <1>2. IInv /\ PatientInv /\ OneHandler /\ [Next]_vars
          => IInv' /\ PatientInv' /\ OneHandler'
    BY NextInv, NextPatient, NextOneHandler
  <1>3. OneHandler => RemovalFindsItsApp
    BY DEF OneHandler, RemovalFindsItsApp
  <1> QED
    BY <1>1, <1>2, <1>3, PTL DEF Spec

=============================================================================
