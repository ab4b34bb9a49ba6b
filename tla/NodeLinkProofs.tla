--------------------------- MODULE NodeLinkProofs ---------------------------
(***************************************************************************)
(* Theorems about NodeLink, for every set of hosts, ports and peers and    *)
(* whatever the bounds.                                                    *)
(*                                                                         *)
(* Two facts make its properties inductive: an answer on its way to the    *)
(* page says whether the host it names resolves, and an Apply is put off   *)
(* only while the page says that its address is valid.                     *)
(***************************************************************************)
EXTENDS NodeLink, TLAPS, SequenceTheorems

SavedInv   == saved.node.host \in Hosts
ArmedInv   == page.armed => page.valid
AnswersInv == \A i \in DOMAIN answers :
                answers[i].valid = (answers[i].host \in Resolves)

IInv == /\ TypeOK
        /\ SavedInv
        /\ ArmedInv
        /\ AnswersInv
        /\ SettledValidity
        /\ ToggleTellsTruth
        /\ RemoteIsTold

-----------------------------------------------------------------------------
(* What the setters of the page return. *)

\* q is a state of the page reached from p without an answer: its validity is
\* that of p, and another host is to be checked.
Edited(p, q) == /\ q \in Page
                /\ q.valid = p.valid /\ q.armed = p.armed
                /\ q.host # p.host \/ p.check => q.check

LEMMA ReadType ==
    ASSUME NEW a \in Address
    PROVE  Read(a) \in Address /\ Read(a).host = a.host
  BY DEF Read, Address

LEMMA SetNodeAddressEdits ==
    ASSUME NEW p \in Page, NEW h \in Hosts \cup {NoHost}
    PROVE  /\ Edited(p, SetNodeAddress(p, h))
           /\ SetNodeAddress(p, h).host = h
           /\ SetNodeAddress(p, h).connect = p.connect
  BY DEF Edited, SetNodeAddress, Page

LEMMA SetConnectEdits ==
    ASSUME saved \in Settings, NEW p \in Page, NEW v \in BOOLEAN
    PROVE  LET q == SetConnectLocalNode(p, v) IN
           /\ Edited(p, q)
           /\ q.connect = v
           /\ v /\ ~p.connect => q.host = Loopback
           /\ p.connect = v => q = p
  <1> DEFINE to == IF v THEN [host |-> Loopback, port |-> saved.port]
                   ELSE IF p.peers = <<>> THEN Bootstrap ELSE Read(p.peers[1])
             r  == SetNodeAddress(p, to.host)
  <1>1. to \in Address
    <2>1. CASE v
      BY <2>1, LinkAssumption DEF Address, Settings
    <2>2. CASE ~v /\ p.peers = <<>>
      BY <2>2 DEF Address, Bootstrap
    <2>3. CASE ~v /\ p.peers # <<>>
      <3>1. p.peers[1] \in Address
        BY <2>3 DEF Page
      <3> QED
        BY <2>3, <3>1, ReadType
    <2> QED
      BY <2>1, <2>2, <2>3
  <1>2. to.host \in Hosts \cup {NoHost} /\ to.port \in Ports \cup {0}
    BY <1>1 DEF Address
  <1>3. Edited(p, r) /\ r.host = to.host /\ r.connect = p.connect
    BY <1>2, SetNodeAddressEdits
  <1>4. CASE p.connect = v
    BY <1>4 DEF SetConnectLocalNode, Edited
  <1>5. CASE p.connect # v
    <2>1. SetConnectLocalNode(p, v)
             = [r EXCEPT !.port = to.port, !.connect = v]
      BY <1>5 DEF SetConnectLocalNode
    <2> HIDE DEF to, r
    <2>2. SetConnectLocalNode(p, v).host = to.host
      BY <1>3, <2>1 DEF Edited, Page
    <2>3. v => to.host = Loopback
      BY DEF to
    <2> QED
      BY <1>2, <1>3, <1>5, <2>1, <2>2, <2>3 DEF Edited, Page
  <1> QED
    BY <1>4, <1>5

LEMMA UndoneEdits ==
    ASSUME saved \in Settings, NEW p \in Page
    PROVE  /\ Edited(p, Undone(p))
           /\ Undone(p).connect => Undone(p).host = Loopback
           /\ saved.node.host # p.host => Undone(p).check
  <1> DEFINE a == Read(saved.node)
             r == SetNodeAddress(p, a.host)
             b == [r EXCEPT !.port = IF a.port > 0 THEN a.port ELSE @]
             v == a.host = Loopback /\ b.port = saved.port
             c == SetConnectLocalNode(b, v)
             u == [c EXCEPT !.run = saved.run, !.lport = saved.port,
                            !.peers = saved.peers]
  <1>1. a \in Address /\ a.host = saved.node.host
    BY ReadType DEF Settings
  <1>2. Edited(p, r) /\ r.host = a.host
    BY <1>1, SetNodeAddressEdits DEF Address
  <1>3. Edited(p, b) /\ b.host = a.host
    BY <1>1, <1>2 DEF Edited, Page, Address
  <1>4. b \in Page /\ v \in BOOLEAN
    BY <1>3 DEF Edited
  <1> HIDE DEF b, v
  <1>5. /\ Edited(b, c)
        /\ c.connect = v
        /\ v /\ ~b.connect => c.host = Loopback
        /\ b.connect = v => c = b
    BY <1>4, SetConnectEdits
  <1>6. v => c.host = Loopback
    BY <1>3, <1>4, <1>5 DEF v, Page
  <1> HIDE DEF c
  <1>7. Undone(p) = u
    BY DEF Undone, a, r, b, v, c, u
  <1>8. /\ u \in Page
        /\ u.host = c.host /\ u.connect = c.connect /\ u.check = c.check
        /\ u.valid = c.valid /\ u.armed = c.armed
    BY <1>5 DEF Edited, Page, Settings
  <1> HIDE DEF u
  <1>9. saved.node.host # p.host => b.check
    BY <1>1, <1>3 DEF Edited
  <1> QED
    BY <1>3, <1>5, <1>6, <1>7, <1>8, <1>9 DEF Edited

LEMMA NewPageChecks ==
    ASSUME saved \in Settings, SavedInv
    PROVE  /\ NewPage \in Page
           /\ NewPage.check /\ NewPage.valid /\ ~NewPage.armed
           /\ NewPage.connect => NewPage.host = Loopback
  <1> DEFINE p == [host |-> NoHost, port |-> 0, connect |-> FALSE,
                   run |-> FALSE, lport |-> 0, peers |-> <<>>,
                   valid |-> TRUE, check |-> FALSE, armed |-> FALSE]
  <1>1. p \in Page
    BY DEF Page
  <1>2. p.host = NoHost /\ p.valid /\ ~p.armed
    OBVIOUS
  <1>3. saved.node.host # p.host
    BY <1>2, LinkAssumption DEF SavedInv
  <1> HIDE DEF p
  <1>4. NewPage = Undone(p)
    BY DEF NewPage, p
  <1> QED
    BY <1>1, <1>2, <1>3, <1>4, UndoneEdits DEF Edited

-----------------------------------------------------------------------------
(* What posting and running a call changes in what the wallet is told. *)

LEMMA AppendNode ==
    ASSUME NEW q \in Seq(Call), NEW w \in Address, NEW a \in Address
    PROVE  Told(Append(q, [kind |-> "node", to |-> a]), w, a)
  <1> DEFINE r == Append(q, [kind |-> "node", to |-> a])
  <1>1. DOMAIN r = 1..Len(q) + 1 /\ r[Len(q) + 1] = [kind |-> "node", to |-> a]
    BY DEF Call
  <1>2. LastFrom(r, Len(q) + 1)
    BY <1>1 DEF LastFrom
  <1> QED
    BY <1>1, <1>2 DEF Told

LEMMA AppendCheck ==
    ASSUME NEW q \in Seq(Call), NEW w, NEW a, NEW x, Told(q, w, a)
    PROVE  Told(Append(q, [kind |-> "check", to |-> x]), w, a)
  <1> DEFINE c == [kind |-> "check", to |-> x]
             r == Append(q, c)
  <1>1. /\ DOMAIN q = 1..Len(q) /\ DOMAIN r = 1..Len(q) + 1
        /\ \A j \in DOMAIN q : r[j] = q[j]
        /\ r[Len(q) + 1] = c
    OBVIOUS
  <1>2. ASSUME NEW i, LastFrom(q, i)
        PROVE  LastFrom(r, i)
    BY <1>1, <1>2 DEF LastFrom
  <1> QED
    BY <1>1, <1>2 DEF Told

LEMMA RunCheck ==
    ASSUME NEW q \in Seq(Call), q # <<>>, NEW w, NEW a,
           Head(q).kind = "check", Told(q, w, a)
    PROVE  Told(Tail(q), w, a)
  <1> DEFINE r == Tail(q)
  <1>1. /\ DOMAIN q = 1..Len(q) /\ DOMAIN r = 1..Len(q) - 1 /\ Len(q) \in Nat \ {0}
        /\ \A j \in DOMAIN r : r[j] = q[j + 1]
        /\ q[1] = Head(q)
    OBVIOUS
  <1>2. CASE LastFrom(q, 0) /\ w = a
    BY <1>1, <1>2 DEF LastFrom, Told
  <1>3. ASSUME NEW i \in DOMAIN q, q[i].kind = "node", q[i].to = a, LastFrom(q, i)
        PROVE  Told(r, w, a)
    <2>1. i # 1 /\ i - 1 \in DOMAIN r /\ r[i - 1] = q[i]
      BY <1>1, <1>3
    <2>2. LastFrom(r, i - 1)
      BY <1>1, <1>3 DEF LastFrom
    <2> QED
      BY <1>3, <2>1, <2>2 DEF Told
  <1> QED
    BY <1>2, <1>3 DEF Told

LEMMA RunNode ==
    ASSUME NEW q \in Seq(Call), q # <<>>, NEW w, NEW a,
           Head(q).kind = "node", Told(q, w, a)
    PROVE  Told(Tail(q), Head(q).to, a)
  <1> DEFINE r == Tail(q)
  <1>1. /\ DOMAIN q = 1..Len(q) /\ DOMAIN r = 1..Len(q) - 1 /\ Len(q) \in Nat \ {0}
        /\ \A j \in DOMAIN r : r[j] = q[j + 1]
        /\ q[1] = Head(q)
    OBVIOUS
  <1>2. ~LastFrom(q, 0)
    BY <1>1 DEF LastFrom
  <1>3. ASSUME NEW i \in DOMAIN q, q[i].kind = "node", q[i].to = a, LastFrom(q, i)
        PROVE  Told(r, Head(q).to, a)
    <2>1. CASE i = 1
      <3>1. LastFrom(r, 0)
        BY <1>1, <1>3, <2>1 DEF LastFrom
      <3> QED
        BY <1>1, <1>3, <2>1, <3>1 DEF Told
    <2>2. CASE i # 1
      <3>1. i - 1 \in DOMAIN r /\ r[i - 1] = q[i]
        BY <1>1, <1>3, <2>2
      <3>2. LastFrom(r, i - 1)
        BY <1>1, <1>3 DEF LastFrom
      <3> QED
        BY <1>3, <3>1, <3>2 DEF Told
    <2> QED
      BY <2>1, <2>2
  <1> QED
    BY <1>2, <1>3 DEF Told

LEMMA NothingPosted ==
    ASSUME NEW w
    PROVE  Told(<<>>, w, w)
  BY DEF Told, LastFrom

-----------------------------------------------------------------------------
(* The invariant holds initially. *)

LEMMA NodeAddressType ==
    ASSUME saved \in Settings
    PROVE  /\ GetNodeAddress \in Address
           /\ \/ GetNodeAddress = saved.node
              \/ GetNodeAddress = Bootstrap /\ saved.node.host = Loopback
  BY DEF GetNodeAddress, IsConnectToLocalNode, Settings, Address, Bootstrap

LEMMA DefaultPeersType == DefaultPeers \in Seq(Address)
  <1>1. KnownPeers \subseteq Address
    BY LinkAssumption DEF Address
  <1> QED
    BY <1>1, LinkAssumption

LEMMA InitInv == Init => IInv
  <1> SUFFICES ASSUME Init
               PROVE  IInv
    OBVIOUS
  <1>1. saved \in Settings /\ SavedInv
    BY LinkAssumption, DefaultPeersType DEF Init, Settings, Address, SavedInv
  <1>2. /\ page \in Page
        /\ page.check /\ page.valid
        /\ page.connect => page.host = Loopback
    BY <1>1, NewPageChecks DEF Init
  <1>3. TypeOK
    <2>1. saved.run \in BOOLEAN /\ asked \in Address /\ wallet \in Address
      BY <1>1, NodeAddressType DEF Init, Settings
    <2>2. /\ hooked \in BOOLEAN /\ (hooked => saved.run)
          /\ node \in {"off", "starting", "on"} /\ synced = FALSE
      BY <2>1 DEF Init
    <2>3. /\ calls \in Seq(Call) /\ Len(calls) <= MaxCalls
          /\ answers \in Seq(Answer) /\ signals \in Seq(Signal)
          /\ Len(answers) + Len(signals) <= MaxEvents
      BY LinkAssumption DEF Init
    <2> QED
      BY <1>1, <1>2, <2>1, <2>2, <2>3 DEF TypeOK
  <1>4. RemoteIsTold
    BY <1>1, NodeAddressType, NothingPosted DEF Init, RemoteIsTold
  <1> QED
    BY <1>1, <1>2, <1>3, <1>4
    DEF Init, IInv, ArmedInv, AnswersInv, SettledValidity, Unsettled,
        ToggleTellsTruth

-----------------------------------------------------------------------------
(* The user's steps keep the invariant. *)

LEMMA EditInv ==
    ASSUME IInv, NEW q, Edited(page, q), q.connect => q.host = Loopback,
           page' = q,
           UNCHANGED <<saved, asked, calls, posted, wallet, hooked, node, synced>>
    PROVE  IInv'
  <1> USE DEF posted
  <1>1. TypeOK' /\ SavedInv' /\ ArmedInv' /\ AnswersInv' /\ ToggleTellsTruth'
    BY DEF IInv, TypeOK, SavedInv, ArmedInv, AnswersInv, ToggleTellsTruth, Edited
  <1>2. RemoteIsTold'
    BY DEF IInv, RemoteIsTold
  <1>3. SettledValidity'
    <2> SUFFICES ASSUME ~Unsettled'
                 PROVE  page'.valid = (page'.host \in Resolves)
      BY DEF SettledValidity
    <2>1. ~q.check /\ q.host = page.host /\ ~page.check /\ q.valid = page.valid
      BY DEF Unsettled, Edited
    <2>2. ~Unsettled
      BY <2>1 DEF Unsettled
    <2> QED
      BY <2>1, <2>2 DEF IInv, SettledValidity
  <1> QED
    BY <1>1, <1>2, <1>3 DEF IInv

LEMMA AppendPeerType ==
    ASSUME NEW p \in Page, NEW a \in KnownPeers
    PROVE  Append(p.peers, a) \in Seq(Address)
  <1>1. a \in Address /\ p.peers \in Seq(Address)
    BY LinkAssumption DEF Page, Address
  <1> QED
    BY <1>1

LEMMA RemovePeerType ==
    ASSUME NEW p \in Page, NEW i \in DOMAIN p.peers
    PROVE  RemoveAt(p.peers, i) \in Seq(Address)
  <1>1. p.peers \in Seq(Address) /\ i \in 1..Len(p.peers)
    BY DEF Page
  <1>2. /\ SubSeq(p.peers, 1, i - 1) \in Seq(Address)
        /\ SubSeq(p.peers, i + 1, Len(p.peers)) \in Seq(Address)
    BY <1>1
  <1> QED
    BY <1>2 DEF RemoveAt

LEMMA EditsInv == IInv /\ Edits => IInv'
  <1> SUFFICES ASSUME IInv, Edits
               PROVE  IInv'
    OBVIOUS
  <1>0. /\ saved \in Settings /\ page \in Page
        /\ page.connect => page.host = Loopback
    BY DEF IInv, TypeOK, ToggleTellsTruth
  <1>1. ASSUME NEW h \in Hosts \cup {NoHost}, EditHost(h)
        PROVE  IInv'
    <2>1. /\ Edited(page, SetNodeAddress(page, h))
          /\ ~SetNodeAddress(page, h).connect
      BY <1>0, <1>1, SetNodeAddressEdits DEF EditHost
    <2> QED
      BY <1>1, <2>1, EditInv DEF EditHost, Edit
  <1>2. ASSUME NEW n \in Ports \cup {0}, EditPort(n) \/ EditLocalPort(n)
        PROVE  IInv'
    <2>1. /\ Edited(page, [page EXCEPT !.port = n])
          /\ Edited(page, [page EXCEPT !.lport = n])
      BY <1>0 DEF Edited, Page
    <2>2. /\ [page EXCEPT !.port = n].connect = page.connect
          /\ [page EXCEPT !.port = n].host = page.host
          /\ [page EXCEPT !.lport = n].connect = page.connect
          /\ [page EXCEPT !.lport = n].host = page.host
      BY <1>0 DEF Page
    <2> QED
      BY <1>0, <1>2, <2>1, <2>2, EditInv DEF EditPort, EditLocalPort, Edit
  <1>3. ASSUME NEW a \in KnownPeers, AddPeer(a)
        PROVE  IInv'
    <2> DEFINE q == [page EXCEPT !.peers = Append(@, a)]
    <2>1. Edited(page, q) /\ q.connect = page.connect /\ q.host = page.host
      BY <1>0, AppendPeerType DEF Edited, Page
    <2> QED
      BY <1>0, <1>3, <2>1, EditInv DEF AddPeer, Edit
  <1>4. CASE Toggle
    <2> DEFINE q == SetConnectLocalNode(page, ~page.connect)
    <2>1. (~page.connect) \in BOOLEAN
      OBVIOUS
    <2>2. Edited(page, q) /\ (q.connect => q.host = Loopback)
      BY <1>0, <2>1, SetConnectEdits
    <2> QED
      BY <1>4, <2>2, EditInv DEF Toggle, Edit
  <1>5. CASE ToggleRun
    <2> DEFINE q == [page EXCEPT !.run = ~@]
    <2>1. Edited(page, q) /\ q.connect = page.connect /\ q.host = page.host
      BY <1>0 DEF Edited, Page
    <2> QED
      BY <1>0, <1>5, <2>1, EditInv DEF ToggleRun, Edit
  <1>6. CASE DeletePeer
    <2>1. PICK i \in DOMAIN page.peers :
            Edit([page EXCEPT !.peers = RemoveAt(@, i)])
      BY <1>6 DEF DeletePeer
    <2> DEFINE q == [page EXCEPT !.peers = RemoveAt(@, i)]
    <2>2. Edited(page, q) /\ q.connect = page.connect /\ q.host = page.host
      BY <1>0, RemovePeerType DEF Edited, Page
    <2> QED
      BY <1>0, <2>1, <2>2, EditInv DEF Edit
  <1>7. CASE Cancel
    BY <1>0, <1>7, UndoneEdits, EditInv DEF Cancel, Edit
  <1> QED
    BY <1>1, <1>2, <1>3, <1>4, <1>5, <1>6, <1>7 DEF Edits

\* Every check that waits in q waits in r as well.
KeepsChecks(q, r) ==
  \A i \in DOMAIN q : q[i].kind = "check" => \E j \in DOMAIN r : r[j] = q[i]

LEMMA AppendKeeps ==
    ASSUME NEW q \in Seq(Call), NEW c \in Call
    PROVE  /\ KeepsChecks(q, Append(q, c))
           /\ Append(q, c) \in Seq(Call) /\ Len(Append(q, c)) = Len(q) + 1
           /\ \E j \in DOMAIN Append(q, c) : Append(q, c)[j] = c
  <1>1. /\ \A i \in DOMAIN q : i \in DOMAIN Append(q, c) /\ Append(q, c)[i] = q[i]
        /\ Len(q) + 1 \in DOMAIN Append(q, c) /\ Append(q, c)[Len(q) + 1] = c
    OBVIOUS
  <1> QED
    BY <1>1 DEF KeepsChecks

\* Saving the shown address tells the wallet of it.
LEMMA SaveTells ==
    ASSUME TypeOK, RemoteIsTold, SavedInv, page.host \in Hosts, CanPost,
           SaveNodeAddress(Shown), wallet' = wallet
    PROVE  /\ saved' \in Settings /\ saved'.run = saved.run /\ SavedInv'
           /\ calls' \in Seq(Call) /\ Len(calls') <= MaxCalls
           /\ KeepsChecks(calls, calls')
           /\ RemoteIsTold'
  <1>0. /\ saved \in Settings /\ page \in Page /\ calls \in Seq(Call)
        /\ Len(calls) <= MaxCalls /\ wallet \in Address
    BY DEF TypeOK
  <1>1. Shown \in Address /\ Shown.host = page.host
    BY <1>0 DEF Shown, Address, Page
  <1>2. /\ saved' = [saved EXCEPT !.node = Shown] /\ saved' \in Settings
        /\ saved'.run = saved.run /\ saved'.node = Shown
    BY <1>0, <1>1 DEF SaveNodeAddress, Settings
  <1>3. SavedInv'
    BY <1>1, <1>2 DEF SavedInv
  <1>4. CASE Shown = saved.node
    <2>1. saved' = saved
      BY <1>0, <1>2, <1>4 DEF Settings
    <2>2. calls' = calls
      BY <1>4 DEF SaveNodeAddress
    <2>3. RemoteIsTold'
      BY <2>1, <2>2 DEF RemoteIsTold
    <2> QED
      BY <1>0, <1>2, <1>3, <2>2, <2>3 DEF KeepsChecks
  <1>5. CASE Shown # saved.node
    <2> DEFINE g == GetNodeAddress'
               c == [kind |-> "node", to |-> g]
    <2>1. /\ g \in Address
          /\ \/ g = saved'.node
             \/ g = Bootstrap /\ saved'.node.host = Loopback
      BY <1>2 DEF GetNodeAddress, IsConnectToLocalNode, Settings, Address, Bootstrap
    <2>2. calls' = Append(calls, c)
      BY <1>5 DEF SaveNodeAddress, Tell
    <2> HIDE DEF g
    <2>3. c \in Call
      BY <2>1 DEF Call
    <2>4. Told(calls', wallet', g)
      BY <1>0, <2>1, <2>2, AppendNode
    <2>5. RemoteIsTold'
      BY <2>1, <2>4 DEF RemoteIsTold
    <2>6. /\ KeepsChecks(calls, calls') /\ calls' \in Seq(Call)
          /\ Len(calls') = Len(calls) + 1
      BY <1>0, <2>2, <2>3, AppendKeeps
    <2>7. Len(calls') <= MaxCalls
      BY <1>0, <2>6, LinkAssumption DEF CanPost
    <2> QED
      BY <1>2, <1>3, <2>5, <2>6, <2>7
  <1> QED
    BY <1>4, <1>5

LEMMA ApplyNodeInv == IInv /\ ApplyNode => IInv'
  <1> SUFFICES ASSUME IInv, ApplyNode
               PROVE  IInv'
    OBVIOUS
  <1> USE DEF posted
  <1>0. TypeOK /\ page \in Page /\ Shown \in Address
    BY DEF IInv, TypeOK, Shown, Address, Page
  <1>1. CASE page.check
    <2>1. /\ page' = [page EXCEPT !.armed = TRUE] /\ asked' = Shown
          /\ UNCHANGED <<saved, calls, posted, wallet, hooked, node, synced>>
      BY <1>1 DEF ApplyNode
    <2>2. /\ page' \in Page /\ page'.valid /\ page'.check
          /\ page'.connect = page.connect /\ page'.host = page.host
      BY <1>0, <1>1, <2>1 DEF Page, ApplyNode
    <2>3. TypeOK' /\ SavedInv' /\ ArmedInv' /\ AnswersInv' /\ ToggleTellsTruth'
      BY <1>0, <2>1, <2>2
      DEF IInv, TypeOK, SavedInv, ArmedInv, AnswersInv, ToggleTellsTruth
    <2>4. RemoteIsTold'
      BY <2>1 DEF IInv, RemoteIsTold
    <2>5. SettledValidity'
      BY <2>2 DEF SettledValidity, Unsettled
    <2> QED
      BY <2>3, <2>4, <2>5 DEF IInv
  <1>2. CASE ~page.check
    <2>1. /\ SaveNodeAddress(Shown) /\ CanPost /\ page.host \in Hosts
          /\ asked' = Shown
          /\ UNCHANGED <<page, posted, wallet, hooked, node, synced>>
      BY <1>2 DEF ApplyNode
    <2>2. /\ saved' \in Settings /\ saved'.run = saved.run /\ SavedInv'
          /\ calls' \in Seq(Call) /\ Len(calls') <= MaxCalls
          /\ KeepsChecks(calls, calls')
          /\ RemoteIsTold'
      BY <2>1, SaveTells DEF IInv
    <2>3. TypeOK' /\ ArmedInv' /\ AnswersInv' /\ ToggleTellsTruth'
      BY <1>0, <2>1, <2>2 DEF IInv, TypeOK, ArmedInv, AnswersInv, ToggleTellsTruth
    <2>4. SettledValidity'
      BY <2>1, <2>2 DEF IInv, SettledValidity, Unsettled, KeepsChecks
    <2> QED
      BY <2>2, <2>3, <2>4 DEF IInv
  <1> QED
    BY <1>1, <1>2

LEMMA ApplyLocalNodeInv == IInv /\ ApplyLocalNode => IInv'
  <1> SUFFICES ASSUME IInv, ApplyLocalNode
               PROVE  IInv'
    OBVIOUS
  <1> USE DEF posted
  <1> DEFINE ps == ReadPeers(page.peers)
  <1>1. ps \in Seq(Address)
    BY DefaultPeersType DEF ReadPeers, IInv, TypeOK, Page
  <1>2. saved' = [saved EXCEPT !.run = page.run, !.port = page.lport, !.peers = ps]
    BY DEF ApplyLocalNode
  <1> HIDE DEF ps
  <1>3. /\ saved \in Settings /\ page \in Page
    BY DEF IInv, TypeOK
  <1>4. saved' \in Settings /\ saved'.node = saved.node /\ saved'.run = page.run
    BY <1>1, <1>2, <1>3 DEF Settings, Page
  <1>5. /\ hooked' = page.run /\ page.run \in BOOLEAN
        /\ node' = IF ~page.run THEN "off" ELSE IF node = "off" THEN "starting" ELSE node
        /\ synced' = (page.run /\ synced)
        /\ UNCHANGED <<page, asked, calls, posted, wallet>>
    BY <1>3 DEF ApplyLocalNode, Page
  <1>6. TypeOK'
    BY <1>4, <1>5 DEF IInv, TypeOK
  <1>7. /\ SavedInv' /\ ArmedInv' /\ AnswersInv' /\ ToggleTellsTruth'
        /\ SettledValidity' /\ RemoteIsTold'
    BY <1>4, <1>5
    DEF IInv, SavedInv, ArmedInv, AnswersInv, ToggleTellsTruth, SettledValidity,
        Unsettled, RemoteIsTold
  <1> QED
    BY <1>6, <1>7 DEF IInv

\* A page opened anew has its address to be checked.
LEMMA ReopenInv == IInv /\ Reopen => IInv'
  <1> SUFFICES ASSUME IInv, Reopen
               PROVE  IInv'
    OBVIOUS
  <1>1. /\ NewPage \in Page
        /\ NewPage.check /\ NewPage.valid /\ ~NewPage.armed
        /\ NewPage.connect => NewPage.host = Loopback
    BY NewPageChecks DEF IInv, TypeOK
  <1>2. /\ page' = NewPage /\ answers' = <<>> /\ asked' = saved.node
        /\ UNCHANGED <<saved, calls, signals, wallet, hooked, node, synced>>
    BY DEF Reopen
  <1>3. /\ saved.node \in Address /\ answers \in Seq(Answer)
        /\ signals \in Seq(Signal) /\ Len(answers) + Len(signals) <= MaxEvents
    BY DEF IInv, TypeOK, Settings
  <1>4. TypeOK'
    <2>1. answers' \in Seq(Answer) /\ Len(answers') + Len(signals') <= MaxEvents
      BY <1>2, <1>3, LinkAssumption
    <2> QED
      BY <1>1, <1>2, <1>3, <2>1 DEF IInv, TypeOK
  <1>5. SavedInv' /\ ArmedInv' /\ AnswersInv' /\ ToggleTellsTruth'
    BY <1>1, <1>2
    DEF IInv, SavedInv, ArmedInv, AnswersInv, ToggleTellsTruth
  <1>6. SettledValidity' /\ RemoteIsTold'
    BY <1>1, <1>2 DEF IInv, SettledValidity, Unsettled, RemoteIsTold
  <1> QED
    BY <1>4, <1>5, <1>6 DEF IInv

LEMMA RestartInv == IInv /\ Restart => IInv'
  <1> SUFFICES ASSUME IInv, Restart
               PROVE  IInv'
    OBVIOUS
  <1>1. /\ NewPage \in Page
        /\ NewPage.check /\ NewPage.valid /\ ~NewPage.armed
        /\ NewPage.connect => NewPage.host = Loopback
    BY NewPageChecks DEF IInv, TypeOK
  <1>2. /\ GetNodeAddress \in Address
        /\ \/ GetNodeAddress = saved.node
           \/ GetNodeAddress = Bootstrap /\ saved.node.host = Loopback
    BY NodeAddressType DEF IInv, TypeOK
  <1>3. /\ page' = NewPage /\ calls' = <<>>
        /\ answers' = <<>> /\ signals' = <<>>
        /\ wallet' = GetNodeAddress /\ hooked' = saved.run
        /\ node' = IF saved.run THEN "starting" ELSE "off"
        /\ synced' = FALSE /\ asked' = saved.node /\ saved' = saved
    BY DEF Restart
  <1>4. saved \in Settings /\ saved.node \in Address /\ saved.run \in BOOLEAN
    BY DEF IInv, TypeOK, Settings
  <1>5. TypeOK'
    <2>1. /\ hooked' \in BOOLEAN /\ (hooked' => saved'.run)
          /\ node' \in {"off", "starting", "on"} /\ synced' = FALSE
      BY <1>3, <1>4
    <2>2. /\ calls' \in Seq(Call) /\ Len(calls') <= MaxCalls
          /\ answers' \in Seq(Answer) /\ signals' \in Seq(Signal)
          /\ Len(answers') + Len(signals') <= MaxEvents
      BY <1>3, LinkAssumption
    <2> QED
      BY <1>1, <1>2, <1>3, <1>4, <2>1, <2>2 DEF TypeOK
  <1>6. SavedInv' /\ ArmedInv' /\ AnswersInv' /\ ToggleTellsTruth' /\ SettledValidity'
    BY <1>1, <1>3
    DEF IInv, SavedInv, ArmedInv, AnswersInv, ToggleTellsTruth, SettledValidity,
        Unsettled
  <1>7. Told(calls', wallet', wallet')
    BY <1>3, NothingPosted
  <1>8. RemoteIsTold'
    BY <1>2, <1>3, <1>7 DEF RemoteIsTold
  <1> QED
    BY <1>5, <1>6, <1>8 DEF IInv

-----------------------------------------------------------------------------
(* The steps of the UI thread, the reactor and the node keep it. *)

LEMMA TimerEventInv == IInv /\ TimerEvent => IInv'
  <1> SUFFICES ASSUME IInv, TimerEvent
               PROVE  IInv'
    OBVIOUS
  <1> USE DEF posted
  <1> DEFINE c == [kind |-> "check", to |-> [host |-> page.host, port |-> 0]]
  <1>1. /\ page' = [page EXCEPT !.check = FALSE] /\ calls' = Append(calls, c)
        /\ CanPost
        /\ UNCHANGED <<saved, asked, posted, wallet, hooked, node, synced>>
    BY DEF TimerEvent
  <1>2. /\ page \in Page /\ calls \in Seq(Call) /\ Len(calls) <= MaxCalls
        /\ Len(calls) \in Nat
    BY DEF IInv, TypeOK
  <1>3. c \in Call
    BY <1>2 DEF Call, Page, Address
  <1>4. /\ calls' \in Seq(Call) /\ Len(calls') = Len(calls) + 1
        /\ \E j \in DOMAIN calls' : calls'[j] = c
    BY <1>1, <1>2, <1>3, AppendKeeps
  <1>5. /\ page' \in Page /\ page'.host = page.host /\ page'.valid = page.valid
        /\ page'.armed = page.armed /\ page'.connect = page.connect
    BY <1>1, <1>2 DEF Page
  <1>6. TypeOK'
    <2>1. Len(calls') <= MaxCalls
      BY <1>1, <1>2, <1>4, LinkAssumption DEF CanPost
    <2> QED
      BY <1>1, <1>4, <1>5, <2>1 DEF IInv, TypeOK
  <1>7. SavedInv' /\ ArmedInv' /\ AnswersInv' /\ ToggleTellsTruth'
    BY <1>1, <1>5 DEF IInv, SavedInv, ArmedInv, AnswersInv, ToggleTellsTruth
  <1>8. SettledValidity'
    <2>1. c.kind = "check" /\ c.to.host = page'.host
      BY <1>5
    <2> QED
      BY <1>4, <2>1 DEF SettledValidity, Unsettled
  <1>9. RemoteIsTold'
    BY <1>1, <1>2, AppendCheck DEF IInv, RemoteIsTold
  <1> QED
    BY <1>6, <1>7, <1>8, <1>9 DEF IInv

\* An answer that concerns an armed page says no: nothing is saved.
LEMMA AnswerSavesNothing ==
    ASSUME ArmedInv, page.valid \in BOOLEAN, OnAddressChecked
    PROVE  UNCHANGED <<saved, calls>>
  BY DEF OnAddressChecked, ArmedInv, Concerns

LEMMA OnAddressCheckedInv == IInv /\ OnAddressChecked => IInv'
  <1> SUFFICES ASSUME IInv, OnAddressChecked
               PROVE  IInv'
    OBVIOUS
  <1>0. /\ page \in Page /\ page.valid \in BOOLEAN /\ answers \in Seq(Answer)
        /\ signals \in Seq(Signal) /\ Len(answers) + Len(signals) <= MaxEvents
    BY DEF IInv, TypeOK, Page
  <1>1. UNCHANGED <<saved, calls, asked, signals, wallet, hooked, node, synced>>
    BY <1>0, AnswerSavesNothing DEF IInv, OnAddressChecked
  <1> DEFINE e == Head(answers)
  <1>2. /\ answers # <<>> /\ answers' = Tail(answers)
        /\ page' = IF Concerns(e) THEN [page EXCEPT !.valid = e.valid, !.armed = FALSE]
                                  ELSE page
    BY DEF OnAddressChecked
  <1>3. /\ e \in Answer /\ e = answers[1] /\ 1 \in DOMAIN answers
        /\ answers' \in Seq(Answer) /\ Len(answers') = Len(answers) - 1
        /\ \A i \in DOMAIN answers' :
             i + 1 \in DOMAIN answers /\ answers'[i] = answers[i + 1]
        /\ \A i \in DOMAIN answers :
             i = 1 \/ (i - 1 \in DOMAIN answers' /\ answers'[i - 1] = answers[i])
    BY <1>0, <1>2
  <1>4. e.valid = (e.host \in Resolves) /\ e.valid \in BOOLEAN
    BY <1>3 DEF IInv, AnswersInv, Answer
  <1> HIDE DEF e
  <1>5. /\ page' \in Page /\ page'.host = page.host
        /\ page'.connect = page.connect /\ page'.check = page.check
        /\ page'.armed => page'.valid
    BY <1>0, <1>2, <1>4 DEF Page, IInv, ArmedInv
  <1>6. TypeOK'
    <2>1. Len(answers') + Len(signals') <= MaxEvents
      BY <1>0, <1>1, <1>3, LinkAssumption
    <2> QED
      BY <1>1, <1>3, <1>5, <2>1 DEF IInv, TypeOK
  <1>7. SavedInv' /\ ArmedInv' /\ ToggleTellsTruth' /\ RemoteIsTold'
    BY <1>1, <1>5 DEF IInv, SavedInv, ArmedInv, ToggleTellsTruth, RemoteIsTold
  <1>8. AnswersInv'
    BY <1>3 DEF IInv, AnswersInv
  <1>9. SettledValidity'
    <2> SUFFICES ASSUME ~Unsettled'
                 PROVE  page'.valid = (page'.host \in Resolves)
      BY DEF SettledValidity
    <2>1. CASE e.host = page.host
      BY <1>0, <1>2, <1>4, <1>5, <2>1 DEF Concerns, Page
    <2>2. CASE e.host # page.host
      <3>1. page' = page
        BY <1>2, <2>2 DEF Concerns
      <3>2. ~Unsettled
        BY <1>1, <1>3, <2>2, <3>1 DEF Unsettled
      <3> QED
        BY <3>1, <3>2 DEF IInv, SettledValidity
    <2> QED
      BY <2>1, <2>2
  <1> QED
    BY <1>6, <1>7, <1>8, <1>9 DEF IInv

LEMMA OnNodeSignalInv == IInv /\ OnNodeSignal => IInv'
  <1> SUFFICES ASSUME IInv, OnNodeSignal
               PROVE  IInv'
    OBVIOUS
  <1>0. /\ saved \in Settings /\ calls \in Seq(Call) /\ Len(calls) <= MaxCalls
        /\ wallet \in Address /\ answers \in Seq(Answer) /\ signals \in Seq(Signal)
        /\ Len(answers) + Len(signals) <= MaxEvents
        /\ hooked \in BOOLEAN /\ saved.node \in Address
    BY DEF IInv, TypeOK, Settings
  <1>1. /\ signals # <<>> /\ signals' = Tail(signals) /\ CanPost
        /\ UNCHANGED <<saved, page, asked, answers, wallet, node, synced>>
        /\ hooked' \in {hooked, FALSE}
        /\ \/ calls' = calls
           \/ calls' = Append(calls, [kind |-> "node", to |-> saved.node])
    BY DEF OnNodeSignal, Tell
  <1>2. /\ signals' \in Seq(Signal)
        /\ Len(answers') + Len(signals') <= MaxEvents
    <2>1. Len(signals') = Len(signals) - 1 /\ Len(signals) \in Nat
      BY <1>0, <1>1
    <2> QED
      BY <1>0, <1>1, <2>1, LinkAssumption
  <1>a. /\ hooked' \in BOOLEAN /\ (hooked' => saved'.run)
        /\ node' \in {"off", "starting", "on"}
        /\ synced' \in BOOLEAN /\ (synced' => node' # "off")
    <2>1. hooked => saved.run
      BY DEF IInv, TypeOK
    <2>2. hooked' => hooked
      BY <1>1
    <2> QED
      BY <1>0, <1>1, <2>1, <2>2 DEF IInv, TypeOK
  <1>b. /\ saved' \in Settings /\ page' \in Page /\ asked' \in Address
        /\ answers' \in Seq(Answer) /\ wallet' \in Address
    BY <1>1 DEF IInv, TypeOK
  <1>3. CASE calls' = calls
    <2>1. TypeOK'
      BY <1>0, <1>2, <1>3, <1>a, <1>b DEF TypeOK
    <2> QED
      BY <1>1, <1>3, <2>1
      DEF IInv, SavedInv, ArmedInv, AnswersInv, ToggleTellsTruth,
          SettledValidity, Unsettled, RemoteIsTold
  <1>4. CASE calls' = Append(calls, [kind |-> "node", to |-> saved.node])
    <2> DEFINE c == [kind |-> "node", to |-> saved.node]
    <2>1. c \in Call
      BY <1>0 DEF Call
    <2>2. /\ KeepsChecks(calls, calls') /\ calls' \in Seq(Call)
          /\ Len(calls') = Len(calls) + 1
      BY <1>0, <1>4, <2>1, AppendKeeps
    <2>3. Len(calls') <= MaxCalls
      BY <1>0, <1>1, <2>2, LinkAssumption DEF CanPost
    <2>4. TypeOK'
      BY <1>2, <1>a, <1>b, <2>2, <2>3 DEF TypeOK
    <2>5. SavedInv' /\ ArmedInv' /\ AnswersInv' /\ ToggleTellsTruth'
      BY <1>1 DEF IInv, SavedInv, ArmedInv, AnswersInv, ToggleTellsTruth
    <2>6. SettledValidity'
      BY <1>1, <2>2 DEF IInv, SettledValidity, Unsettled, KeepsChecks
    <2>7. Told(calls', wallet', saved.node)
      BY <1>0, <1>1, <1>4, AppendNode
    <2> QED
      BY <1>1, <2>4, <2>5, <2>6, <2>7 DEF IInv, RemoteIsTold
  <1> QED
    BY <1>1, <1>3, <1>4

LEMMA CheckNetworkAddressInv == IInv /\ CheckNetworkAddress => IInv'
  <1> SUFFICES ASSUME IInv, CheckNetworkAddress
               PROVE  IInv'
    OBVIOUS
  <1> DEFINE h == Head(calls).to.host
             e == [host |-> h, valid |-> h \in Resolves]
  <1>0. /\ calls \in Seq(Call) /\ Len(calls) <= MaxCalls
        /\ answers \in Seq(Answer) /\ signals \in Seq(Signal)
        /\ Len(answers) + Len(signals) <= MaxEvents
    BY DEF IInv, TypeOK
  <1>1. /\ calls # <<>> /\ Head(calls).kind = "check" /\ Room
        /\ answers' = Append(answers, e) /\ calls' = Tail(calls)
        /\ UNCHANGED <<saved, page, asked, signals, wallet, hooked, node, synced>>
    BY DEF CheckNetworkAddress
  <1>2. h \in Hosts \cup {NoHost}
    <2>1. Head(calls) \in Call
      BY <1>0, <1>1
    <2> QED
      BY <2>1 DEF Call, Address
  <1>3. e \in Answer /\ e.host = h /\ e.valid = (h \in Resolves)
    BY <1>2 DEF Answer
  <1> HIDE DEF e
  <1>4. /\ answers' \in Seq(Answer) /\ Len(answers') = Len(answers) + 1
        /\ \A i \in DOMAIN answers :
             i \in DOMAIN answers' /\ answers'[i] = answers[i]
        /\ Len(answers) + 1 \in DOMAIN answers'
        /\ answers'[Len(answers) + 1] = e
        /\ \A i \in DOMAIN answers' : i = Len(answers) + 1 \/ i \in DOMAIN answers
    BY <1>0, <1>1, <1>3
  <1>5. /\ calls' \in Seq(Call) /\ Len(calls') = Len(calls) - 1
        /\ Len(calls) \in Nat
        /\ \A i \in DOMAIN calls :
             i = 1 \/ (i - 1 \in DOMAIN calls' /\ calls'[i - 1] = calls[i])
        /\ 1 \in DOMAIN calls /\ calls[1] = Head(calls)
    BY <1>0, <1>1
  <1>6. TypeOK'
    <2>1. Len(answers') + Len(signals') <= MaxEvents
      <3>1. Len(answers) \in Nat /\ Len(signals) \in Nat
        BY <1>0
      <3> QED
        BY <1>1, <1>4, <3>1, LinkAssumption DEF Room
    <2>2. Len(calls') <= MaxCalls
      BY <1>0, <1>5, LinkAssumption
    <2> QED
      BY <1>1, <1>4, <1>5, <2>1, <2>2 DEF IInv, TypeOK
  <1>7. SavedInv' /\ ArmedInv' /\ ToggleTellsTruth'
    BY <1>1 DEF IInv, SavedInv, ArmedInv, ToggleTellsTruth
  <1>8. AnswersInv'
    BY <1>3, <1>4 DEF IInv, AnswersInv
  <1>9. SettledValidity'
    <2>1. Unsettled => Unsettled'
      <3>1. CASE page.check
        BY <1>1, <3>1 DEF Unsettled
      <3>2. ASSUME NEW i \in DOMAIN calls, calls[i].kind = "check",
                   calls[i].to.host = page.host
            PROVE  Unsettled'
        BY <1>1, <1>3, <1>4, <1>5, <3>2 DEF Unsettled
      <3>3. ASSUME NEW i \in DOMAIN answers, answers[i].host = page.host
            PROVE  Unsettled'
        BY <1>1, <1>4, <3>3 DEF Unsettled
      <3> QED
        BY <3>1, <3>2, <3>3 DEF Unsettled
    <2> QED
      BY <1>1, <2>1 DEF IInv, SettledValidity
  <1>10. RemoteIsTold'
    BY <1>0, <1>1, RunCheck DEF IInv, RemoteIsTold
  <1> QED
    BY <1>6, <1>7, <1>8, <1>9, <1>10 DEF IInv

LEMMA ChangeNodeInv == IInv /\ ChangeNode => IInv'
  <1> SUFFICES ASSUME IInv, ChangeNode
               PROVE  IInv'
    OBVIOUS
  <1> USE DEF posted
  <1>0. calls \in Seq(Call) /\ Len(calls) <= MaxCalls
    BY DEF IInv, TypeOK
  <1>1. /\ calls # <<>> /\ Head(calls).kind = "node"
        /\ wallet' = Head(calls).to /\ calls' = Tail(calls)
        /\ UNCHANGED <<saved, page, asked, posted, hooked, node, synced>>
    BY DEF ChangeNode
  <1>2. wallet' \in Address
    <2>1. Head(calls) \in Call
      BY <1>0, <1>1
    <2> QED
      BY <1>1, <2>1 DEF Call
  <1>3. /\ calls' \in Seq(Call) /\ Len(calls') = Len(calls) - 1
        /\ Len(calls) \in Nat
        /\ \A i \in DOMAIN calls :
             i = 1 \/ (i - 1 \in DOMAIN calls' /\ calls'[i - 1] = calls[i])
        /\ calls[1] = Head(calls)
    BY <1>0, <1>1
  <1>4. TypeOK'
    <2>1. Len(calls') <= MaxCalls
      BY <1>0, <1>3, LinkAssumption
    <2> QED
      BY <1>1, <1>2, <1>3, <2>1 DEF IInv, TypeOK
  <1>5. SavedInv' /\ ArmedInv' /\ AnswersInv' /\ ToggleTellsTruth'
    BY <1>1 DEF IInv, SavedInv, ArmedInv, AnswersInv, ToggleTellsTruth
  <1>6. SettledValidity'
    <2>1. Unsettled => Unsettled'
      BY <1>1, <1>3 DEF Unsettled
    <2> QED
      BY <1>1, <2>1 DEF IInv, SettledValidity
  <1>7. RemoteIsTold'
    BY <1>0, <1>1, RunNode DEF IInv, RemoteIsTold
  <1> QED
    BY <1>4, <1>5, <1>6, <1>7 DEF IInv

\* The node's thread touches neither the page nor the settings.
LEMMA NodeStepInv == IInv /\ (NodeStarts \/ NodeFails \/ NodeSynced) => IInv'
  <1> SUFFICES ASSUME IInv, NodeStarts \/ NodeFails \/ NodeSynced
               PROVE  IInv'
    OBVIOUS
  <1>0. /\ signals \in Seq(Signal) /\ answers \in Seq(Answer)
        /\ Len(answers) + Len(signals) <= MaxEvents
    BY DEF IInv, TypeOK
  <1>1. /\ UNCHANGED <<saved, page, asked, calls, answers, wallet, hooked>>
        /\ \E signal \in Signal : Emit(signal)
    BY DEF NodeStarts, NodeFails, NodeSynced, Signal, Emit
  <1>2. /\ node' \in {"off", "starting", "on"}
        /\ synced' \in BOOLEAN /\ (synced' => node' # "off")
    BY DEF NodeStarts, NodeFails, NodeSynced, IInv, TypeOK
  <1>3. /\ signals' \in Seq(Signal)
        /\ Len(answers') + Len(signals') <= MaxEvents
    <2>1. PICK signal \in Signal : Emit(signal)
      BY <1>1
    <2>2. /\ signals' \in Seq(Signal)
          /\ Len(signals') \in {Len(signals), Len(signals) + 1}
      BY <1>0, <2>1 DEF Emit
    <2>3. Len(answers) \in Nat /\ Len(signals) \in Nat
      BY <1>0
    <2> QED
      BY <1>0, <1>1, <2>1, <2>2, <2>3, LinkAssumption DEF Emit, Room
  <1>4. TypeOK'
    BY <1>1, <1>2, <1>3 DEF IInv, TypeOK
  <1> QED
    BY <1>1, <1>4
    DEF IInv, SavedInv, ArmedInv, AnswersInv, ToggleTellsTruth, SettledValidity,
        Unsettled, RemoteIsTold

-----------------------------------------------------------------------------
(* The theorems. *)

LEMMA NextInv == IInv /\ [Next]_vars => IInv'
  <1> SUFFICES ASSUME IInv, [Next]_vars
               PROVE  IInv'
    OBVIOUS
  <1>1. CASE UNCHANGED vars
    BY <1>1
    DEF vars, posted, IInv, TypeOK, SavedInv, ArmedInv, AnswersInv,
        SettledValidity, Unsettled, ToggleTellsTruth, RemoteIsTold
  <1>2. CASE Next
    BY <1>2, EditsInv, ApplyNodeInv, ApplyLocalNodeInv, ReopenInv, RestartInv,
       TimerEventInv, OnAddressCheckedInv, OnNodeSignalInv,
       CheckNetworkAddressInv, ChangeNodeInv, NodeStepInv
    DEF Next
  <1> QED
    BY <1>1, <1>2

\* The inductive invariant holds in every reachable state, whatever the number
\* of hosts, ports and peers and however many calls and signals wait
\* (settings_view.cpp, app_model.cpp).
THEOREM InvariantHolds == Spec => []IInv
  BY InitInv, NextInv, PTL DEF Spec

\* Every variable keeps its type, no more is posted than the bounds allow, and
\* AppModel listens only to a node its settings run.
THEOREM TypeCorrect == Spec => []TypeOK
  <1>1. IInv => TypeOK
    BY DEF IInv
  <1> QED
    BY <1>1, InvariantHolds, PTL

\* The page never keeps the verdict of an address it no longer shows.
THEOREM ValidityTheorem == Spec => []SettledValidity
  <1>1. IInv => SettledValidity
    BY DEF IInv
  <1> QED
    BY <1>1, InvariantHolds, PTL

\* A page whose toggle says "integrated node" shows the local address.
THEOREM ToggleTheorem == Spec => []ToggleTellsTruth
  <1>1. IInv => ToggleTellsTruth
    BY DEF IInv
  <1> QED
    BY <1>1, InvariantHolds, PTL

\* The wallet ends with the node the user saved, however the signals of the
\* integrated node and the saves interleave.
THEOREM RemoteTheorem == Spec => []RemoteIsTold
  <1>1. IInv => RemoteIsTold
    BY DEF IInv
  <1> QED
    BY <1>1, InvariantHolds, PTL

\* A step that saves a node address is Apply of this very address.
LEMMA OnlyApplySaves ==
    ASSUME IInv, Next, saved'.node # saved.node
    PROVE  /\ ApplyNode /\ ~page.check
           /\ saved'.node = Shown
  <1>1. saved \in Settings /\ page \in Page
    BY DEF IInv, TypeOK
  <1>2. ~Edits
    BY DEF Edits, EditHost, EditPort, EditLocalPort, AddPeer, Toggle, ToggleRun,
           DeletePeer, Cancel, Edit
  <1>3. ~ApplyLocalNode
    BY <1>1 DEF ApplyLocalNode, Settings
  <1>4. ~OnAddressChecked
    BY <1>1, AnswerSavesNothing DEF IInv, Page
  <1>5. ApplyNode
    BY <1>2, <1>3, <1>4
    DEF Next, Reopen, Restart, TimerEvent, OnNodeSignal, CheckNetworkAddress,
        ChangeNode, NodeStarts, NodeFails, NodeSynced
  <1>6. ~page.check
    BY <1>5 DEF ApplyNode
  <1> QED
    BY <1>1, <1>5, <1>6 DEF ApplyNode, SaveNodeAddress, Settings

\* What was typed after Apply is never what an answer that comes late saves
\* (applyNodeChanges, onAddressChecked).
THEOREM AppliedTheorem == Spec => SavesWhatWasApplied
  <1>1. IInv /\ [Next]_vars => [saved.node' # saved.node => saved.node' = asked']_vars
    <2> SUFFICES ASSUME IInv, Next, saved'.node # saved.node
                 PROVE  saved'.node = asked'
      OBVIOUS
    <2> QED
      BY OnlyApplySaves DEF ApplyNode
  <1> QED
    BY <1>1, InvariantHolds, PTL DEF Spec, SavesWhatWasApplied

\* The port that is saved is one of a form: only Apply saves an address, and it
\* refuses an empty port.
PortInv == saved.node.port \in Ports

LEMMA PortKept == IInv /\ PortInv /\ [Next]_vars => PortInv'
  <1> SUFFICES ASSUME IInv, PortInv, [Next]_vars
               PROVE  PortInv'
    OBVIOUS
  <1>1. CASE saved'.node = saved.node
    BY <1>1 DEF PortInv
  <1>2. CASE saved'.node # saved.node
    <2>1. Next
      BY <1>2 DEF vars
    <2>2. ApplyNode /\ saved'.node = Shown
      BY <1>2, <2>1, OnlyApplySaves
    <2>3. page.port # 0 /\ page.port \in Ports \cup {0} /\ Shown.port = page.port
      BY <2>2 DEF ApplyNode, Shown, IInv, TypeOK, Page
    <2> QED
      BY <2>2, <2>3 DEF PortInv
  <1> QED
    BY <1>1, <1>2

\* With the toggle as the saved address has it, undoChanges does not turn it
\* and the address set before that stands.
LEMMA UndoneRestores ==
    ASSUME saved \in Settings, PortInv, saved.node.port \notin HighPorts,
           NEW p \in Page,
           p.connect = (saved.node.host = Loopback /\ saved.node.port = saved.port)
    PROVE  LET u == Undone(p) IN
           /\ [host |-> u.host, port |-> u.port] = saved.node
           /\ <<u.run, u.lport, u.peers>> = <<saved.run, saved.port, saved.peers>>
  <1> DEFINE a == Read(saved.node)
             r == SetNodeAddress(p, a.host)
             b == [r EXCEPT !.port = IF a.port > 0 THEN a.port ELSE @]
             v == a.host = Loopback /\ b.port = saved.port
             c == SetConnectLocalNode(b, v)
             u == [c EXCEPT !.run = saved.run, !.lport = saved.port,
                            !.peers = saved.peers]
  <1>1. /\ saved.node \in Address /\ saved.node.port \in Nat \ {0}
        /\ a = saved.node
    BY LinkAssumption DEF Settings, Address, PortInv, Read
  <1>2. r \in Page /\ r.host = saved.node.host /\ r.connect = p.connect
    BY <1>1, SetNodeAddressEdits DEF Edited, Address
  <1>3. a.port > 0
    BY <1>1
  <1> HIDE DEF r, a
  <1>4. b = [r EXCEPT !.port = saved.node.port]
    BY <1>1, <1>3
  <1>5. /\ b \in Page /\ b.host = saved.node.host /\ b.connect = p.connect
        /\ b.port = saved.node.port
    BY <1>1, <1>2, <1>4 DEF Page, Address
  <1> HIDE DEF b
  <1>6. v = b.connect
    BY <1>1, <1>5
  <1>7. c = b
    BY <1>5, <1>6 DEF SetConnectLocalNode
  <1> HIDE DEF v, c
  <1>8. Undone(p) = u
    BY DEF Undone, a, r, b, v, c, u
  <1>9. /\ u.host = saved.node.host /\ u.port = saved.node.port
        /\ u.run = saved.run /\ u.lport = saved.port /\ u.peers = saved.peers
    BY <1>5, <1>7 DEF Page
  <1>10. saved.node = [host |-> saved.node.host, port |-> saved.node.port]
    BY <1>1 DEF Address
  <1> HIDE DEF u
  <1> QED
    BY <1>8, <1>9, <1>10

\* Cancel undoes any number of edits of both sections, unless the toggle was
\* turned since the page was opened (undoChanges): the address that comes first
\* is not replaced by the toggle that follows it.
THEOREM CancelTheorem == Spec => CancelRestores
  <1>1. Init => PortInv
    BY DEF Init, PortInv
  <1>2. IInv /\ PortInv /\ [Next]_vars
          => [Cancel /\ saved.node.port \notin HighPorts
                /\ page.connect = (saved.node.host = Loopback
                                     /\ saved.node.port = saved.port)
              => ~IsNodeChanged' /\ ~IsLocalNodeChanged']_vars
    <2> SUFFICES ASSUME IInv, PortInv, Cancel, saved.node.port \notin HighPorts,
                        page.connect = (saved.node.host = Loopback
                                          /\ saved.node.port = saved.port)
                 PROVE  ~IsNodeChanged' /\ ~IsLocalNodeChanged'
      OBVIOUS
    <2>1. saved' = saved /\ page' = Undone(page)
      BY DEF Cancel, Edit
    <2>2. saved \in Settings /\ page \in Page
      BY DEF IInv, TypeOK
    <2>3. /\ [host |-> page'.host, port |-> page'.port] = saved.node
          /\ <<page'.run, page'.lport, page'.peers>>
               = <<saved.run, saved.port, saved.peers>>
      BY <2>1, <2>2, UndoneRestores
    <2> QED
      BY <2>1, <2>3 DEF IsNodeChanged, IsLocalNodeChanged, Shown
  <1> QED
    BY <1>1, <1>2, InvariantHolds, PortKept, PTL DEF Spec, CancelRestores

=============================================================================
