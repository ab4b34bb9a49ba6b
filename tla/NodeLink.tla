------------------------------ MODULE NodeLink ------------------------------
(***************************************************************************)
(* Which node the wallet talks to: the two node sections of the settings   *)
(* page (SettingsViewModel, ui/viewmodel/settings_view.cpp and             *)
(* view/controls/SettingsBeam*Node.qml), what they save (WalletSettings)   *)
(* and how AppModel passes it on to the wallet and to the integrated node  *)
(* (ui/model/app_model.cpp).  The handlers run on the UI thread; the check *)
(* of an address and a change of the wallet's node are calls its reactor   *)
(* runs in order; the node's thread starts, catches up and fails when it   *)
(* likes and its signals wait in the event loop.                           *)
(*                                                                         *)
(* The wallet is open throughout: AppSession has how it gets there.  Left  *)
(* out: the peers a new wallet is given and how a host name is resolved.   *)
(***************************************************************************)
EXTENDS Naturals, Sequences, FiniteSets, SequencesExt

CONSTANTS
  Hosts,      \* the host names a form accepts
  Loopback,   \* 127.0.0.1
  NoHost,     \* the empty name
  Resolves,   \* the hosts whose check succeeds
  Ports,      \* the ports a form accepts
  HighPorts,  \* those above 32767: parseAddress reads them with toShort
  KnownPeers, \* the peers the user may give the integrated node
  DefaultPeers, \* getDefaultPeers, read back for an empty list
  MaxChanges, \* bound: settings of the page that differ from what is saved
  MaxCalls,   \* bound: calls waiting for the wallet's reactor
  MaxEvents   \* bound: signals and answers waiting in the event loop

ASSUME LinkAssumption ==
  /\ Loopback \in Hosts /\ NoHost \notin Hosts
  /\ Resolves \subseteq Hosts
  /\ Ports \subseteq Nat \ {0} /\ HighPorts \subseteq Ports
  /\ KnownPeers \subseteq [host : Hosts, port : Ports \cup {0}]
  /\ DefaultPeers \in Seq(KnownPeers) /\ DefaultPeers # <<>>
  /\ MaxChanges \in Nat /\ MaxCalls \in Nat /\ MaxEvents \in Nat

VARIABLES
  saved,    \* WalletSettings: node address, integrated node on, port, peers
  page,     \* SettingsViewModel
  asked,    \* the address the page last had Apply pressed for
  calls,    \* calls posted to the wallet's reactor
  answers,  \* answers of checks on their way to the page
  signals,  \* the node's signals on their way to AppModel
  wallet,   \* the node the wallet uses, Bootstrap for any known one
  hooked,   \* m_nsc: AppModel is connected to the node's signals
  node,     \* the integrated node's thread
  synced    \* the integrated node has caught up with the chain

posted == <<answers, signals>>
vars == <<saved, page, asked, calls, posted, wallet, hooked, node, synced>>

Address   == [host : Hosts \cup {NoHost}, port : Ports \cup {0}]
Bootstrap == [host |-> NoHost, port |-> 0]
Settings  == [node : Address, run : BOOLEAN, port : Ports \cup {0},
              peers : Seq(Address)]
Page      == [host : Hosts \cup {NoHost}, port : Ports \cup {0},
              connect : BOOLEAN, run : BOOLEAN, lport : Ports \cup {0},
              peers : Seq(Address), valid : BOOLEAN, check : BOOLEAN,
              armed : BOOLEAN]
Call      == [kind : {"check", "node"}, to : Address]
Answer    == [host : Hosts \cup {NoHost}, valid : BOOLEAN]
Signal    == {"started", "failed", "synced"}

TypeOK ==
  /\ saved \in Settings
  /\ page \in Page
  /\ asked \in Address
  /\ calls \in Seq(Call) /\ Len(calls) <= MaxCalls
  /\ answers \in Seq(Answer) /\ signals \in Seq(Signal)
  /\ Len(answers) + Len(signals) <= MaxEvents
  /\ wallet \in Address
  /\ hooked \in BOOLEAN
  /\ hooked => saved.run
  /\ node \in {"off", "starting", "on"}
  /\ synced \in BOOLEAN /\ (synced => node # "off")

-----------------------------------------------------------------------------
(* parseAddress of a formatted address. *)
Read(a) == [a EXCEPT !.port = IF a.port \in HighPorts THEN 0 ELSE a.port]

(* getLocalNodePeers. *)
ReadPeers(ps) == IF ps = <<>> THEN DefaultPeers ELSE ps

(* A mutant: any address with the port of the integrated node is local. *)
IsConnectToLocalNode_AnyHost ==
  saved.run /\ Read(saved.node).port = saved.port
IsConnectToLocalNode ==
  /\ saved.run
  /\ saved.node.host = Loopback
  /\ Read(saved.node).port = saved.port

GetNodeAddress == IF IsConnectToLocalNode THEN Bootstrap ELSE saved.node

Shown == [host |-> page.host, port |-> page.port]
IsNodeChanged == Shown # saved.node
IsLocalNodeChanged ==
  <<page.run, page.lport, page.peers>> # <<saved.run, saved.port, saved.peers>>

-----------------------------------------------------------------------------
(* The setters of the page, on the state p of the page. *)

(* A mutant: a check that is already under way is trusted. *)
SetNodeAddress_TrustsCheck(p, h) == [p EXCEPT !.host = h]
SetNodeAddress(p, h) ==
  IF h = p.host THEN p ELSE [p EXCEPT !.host = h, !.check = TRUE]

(* A mutant: the toggle alone is turned. *)
SetConnectLocalNode_ToggleOnly(p, v) == [p EXCEPT !.connect = v]
SetConnectLocalNode(p, v) ==
  LET to == IF v THEN [host |-> Loopback, port |-> saved.port]
            ELSE IF p.peers = <<>> THEN Bootstrap ELSE Read(p.peers[1])
  IN IF p.connect = v THEN p
     ELSE [SetNodeAddress(p, to.host) EXCEPT !.port = to.port, !.connect = v]

(* A mutant: the toggle is decided by the port on the page. *)
Undone_PagePort(p) ==
  LET a == Read(saved.node)
      b == [SetNodeAddress(p, a.host) EXCEPT
              !.port = IF a.port > 0 THEN a.port ELSE @]
      c == SetConnectLocalNode(b, /\ a.host = Loopback
                                  /\ b.port = b.lport)
  IN [c EXCEPT !.run = saved.run, !.lport = saved.port, !.peers = saved.peers]
(* undoChanges, in its order: the toggle comes after the address and may
   replace it once more, with the first of the peers on the page. *)
Undone(p) ==
  LET a == Read(saved.node)
      b == [SetNodeAddress(p, a.host) EXCEPT
              !.port = IF a.port > 0 THEN a.port ELSE @]
      c == SetConnectLocalNode(b, /\ a.host = Loopback
                                  /\ b.port = saved.port)
  IN [c EXCEPT !.run = saved.run, !.lport = saved.port, !.peers = saved.peers]

NewPage ==
  Undone([host |-> NoHost, port |-> 0, connect |-> FALSE, run |-> FALSE,
          lport |-> 0, peers |-> <<>>, valid |-> TRUE, check |-> FALSE,
          armed |-> FALSE])

-----------------------------------------------------------------------------
(* Posting. *)

CanPost == Len(calls) < MaxCalls
Tell(a) == calls' = Append(calls, [kind |-> "node", to |-> a])

(* WalletSettings::setNodeAddress: AppModel::onNodeAddressChanged runs inside
   it and reads what has just been saved. *)
SaveNodeAddress(a) ==
  /\ saved' = [saved EXCEPT !.node = a]
  /\ IF a = saved.node THEN UNCHANGED calls ELSE Tell(GetNodeAddress')

(* Answers and signals wait in one event loop; kept apart here, they may also
   overtake each other. *)
Room == Len(answers) + Len(signals) < MaxEvents

(* The node's thread emits a signal: it reaches AppModel if it is connected at
   that moment, later disconnections do not take it back. *)
Emit(signal) ==
  /\ Room
  /\ signals' = IF hooked THEN Append(signals, signal) ELSE signals
  /\ UNCHANGED answers

-----------------------------------------------------------------------------
(* The user has created a wallet before and just opened it: AppModel::start. *)
Init ==
  /\ saved \in [node : [host : Hosts, port : Ports], run : BOOLEAN,
                port : Ports, peers : {DefaultPeers}]
  /\ page = NewPage
  /\ asked = saved.node
  /\ calls = <<>>
  /\ answers = <<>> /\ signals = <<>>
  /\ wallet = GetNodeAddress
  /\ hooked = saved.run
  /\ node = IF saved.run THEN "starting" ELSE "off"
  /\ synced = FALSE

(* The wallet is locked or the program is stopped, and opened again. *)
Restart ==
  /\ page' = NewPage
  /\ calls' = <<>>
  /\ answers' = <<>> /\ signals' = <<>>
  /\ wallet' = GetNodeAddress
  /\ hooked' = saved.run
  /\ node' = IF saved.run THEN "starting" ELSE "off"
  /\ synced' = FALSE
  /\ asked' = saved.node
  /\ UNCHANGED saved

(* The page is left and opened again: the answers waiting for it are gone, the
   calls it has posted still run. *)
Reopen ==
  /\ page' = NewPage
  /\ answers' = <<>>
  /\ asked' = saved.node
  /\ UNCHANGED <<saved, calls, signals, wallet, hooked, node, synced>>

-----------------------------------------------------------------------------
(* The user edits the page. *)

Changes(p) ==
  Cardinality({f \in {"address"} : [host |-> p.host, port |-> p.port] # saved.node}
              \cup {f \in {"run", "peers"} : p[f] # saved[f]}
              \cup {f \in {"lport"} : p.lport # saved.port})
Edit(p) ==
  /\ Changes(p) <= MaxChanges
  /\ page' = p
  /\ UNCHANGED <<saved, asked, calls, posted, wallet, hooked, node, synced>>

EditHost(h) == ~page.connect /\ Edit(SetNodeAddress(page, h))
EditPort(n) == ~page.connect /\ Edit([page EXCEPT !.port = n])
Toggle      == Edit(SetConnectLocalNode(page, ~page.connect))
ToggleRun   == Edit([page EXCEPT !.run = ~@])
EditLocalPort(n) == page.run /\ Edit([page EXCEPT !.lport = n])
AddPeer(a)  == /\ page.run
               /\ ~Contains(page.peers, a)
               /\ Edit([page EXCEPT !.peers = Append(@, a)])
DeletePeer  == /\ page.run
               /\ \E i \in DOMAIN page.peers :
                    Edit([page EXCEPT !.peers = RemoveAt(@, i)])
Cancel      == (IsNodeChanged \/ IsLocalNodeChanged) /\ Edit(Undone(page))

(* Apply of the node section: put off when the address is still to be
   checked. *)
ApplyNode ==
  /\ IsNodeChanged
  /\ page.valid /\ page.host \in Hosts /\ page.port # 0
  /\ CanPost
  /\ asked' = Shown
  /\ IF page.check
     THEN page' = [page EXCEPT !.armed = TRUE] /\ UNCHANGED <<saved, calls>>
     ELSE SaveNodeAddress(Shown) /\ UNCHANGED page
  /\ UNCHANGED <<posted, wallet, hooked, node, synced>>

(* A mutant: the signals of a stopped node are still listened to. *)
ApplyLocalNode_StaysHooked ==
  /\ IsLocalNodeChanged
  /\ page.run => page.peers # <<>> /\ page.lport # 0
  /\ saved' = [saved EXCEPT !.run = page.run, !.port = page.lport,
                            !.peers = ReadPeers(page.peers)]
  /\ hooked' = (page.run \/ hooked)
  /\ node' = IF ~page.run THEN "off" ELSE IF node = "off" THEN "starting" ELSE node
  /\ synced' = (page.run /\ synced)
  /\ UNCHANGED <<page, asked, calls, posted, wallet>>

(* Apply of the integrated node's section; AppModel::applyLocalNodeChanges. A
   node that runs is not started again, and the wallet is told nothing. *)
ApplyLocalNode ==
  /\ IsLocalNodeChanged
  /\ page.run => page.peers # <<>> /\ page.lport # 0
  /\ saved' = [saved EXCEPT !.run = page.run, !.port = page.lport,
                            !.peers = ReadPeers(page.peers)]
  /\ hooked' = page.run
  /\ node' = IF ~page.run THEN "off" ELSE IF node = "off" THEN "starting" ELSE node
  /\ synced' = (page.run /\ synced)
  /\ UNCHANGED <<page, asked, calls, posted, wallet>>

-----------------------------------------------------------------------------
(* The UI thread. *)

TimerEvent ==
  /\ page.check
  /\ CanPost
  /\ page' = [page EXCEPT !.check = FALSE]
  /\ calls' = Append(calls, [kind |-> "check",
                             to |-> [host |-> page.host, port |-> 0]])
  /\ UNCHANGED <<saved, asked, posted, wallet, hooked, node, synced>>

(* A mutant: an answer that confirms what is shown settles a delayed Apply as
   well. *)
Concerns_Same(e) == e.host = page.host
(* onAddressChecked looks only at an answer for the address shown that
   changes its validity. *)
Concerns(e) == e.host = page.host /\ page.valid # e.valid

OnAddressChecked ==
  /\ answers # <<>>
  /\ CanPost
  /\ LET e == Head(answers) IN
     IF ~Concerns(e) THEN UNCHANGED <<page, saved, calls>>
     ELSE /\ IF page.armed /\ e.valid
             THEN IF page.check THEN UNCHANGED <<saved, calls>>
                                ELSE SaveNodeAddress(Shown)
             ELSE UNCHANGED <<saved, calls>>
          /\ page' = [page EXCEPT !.valid = e.valid, !.armed = FALSE]
  /\ answers' = Tail(answers)
  /\ UNCHANGED <<asked, signals, wallet, hooked, node, synced>>

OnNodeSignal ==
  /\ signals # <<>>
  /\ CanPost
  /\ IF Head(signals) = "synced"
     THEN /\ IF IsConnectToLocalNode THEN Tell(saved.node) ELSE UNCHANGED calls
          /\ UNCHANGED hooked
     ELSE hooked' = FALSE /\ UNCHANGED calls
  /\ signals' = Tail(signals)
  /\ UNCHANGED <<saved, page, asked, answers, wallet, node, synced>>

-----------------------------------------------------------------------------
(* The wallet's reactor and the node's thread. *)

CheckNetworkAddress ==
  /\ calls # <<>> /\ Head(calls).kind = "check"
  /\ Room
  /\ LET h == Head(calls).to.host IN
     answers' = Append(answers, [host |-> h, valid |-> h \in Resolves])
  /\ calls' = Tail(calls)
  /\ UNCHANGED <<saved, page, asked, signals, wallet, hooked, node, synced>>

ChangeNode ==
  /\ calls # <<>> /\ Head(calls).kind = "node"
  /\ wallet' = Head(calls).to
  /\ calls' = Tail(calls)
  /\ UNCHANGED <<saved, page, asked, posted, hooked, node, synced>>

NodeStarts ==
  /\ node = "starting"
  /\ node' = "on"
  /\ Emit("started")
  /\ UNCHANGED <<saved, page, asked, calls, wallet, hooked, synced>>

NodeFails ==
  /\ node # "off"
  /\ node' = "off"
  /\ synced' = FALSE
  /\ Emit("failed")
  /\ UNCHANGED <<saved, page, asked, calls, wallet, hooked>>

NodeSynced ==
  /\ node # "off"
  /\ ~synced
  /\ synced' = TRUE
  /\ Emit("synced")
  /\ UNCHANGED <<saved, page, asked, calls, wallet, hooked, node>>

-----------------------------------------------------------------------------
Edits ==
  \/ \E h \in Hosts \cup {NoHost} : EditHost(h)
  \/ \E n \in Ports \cup {0} : EditPort(n) \/ EditLocalPort(n)
  \/ \E a \in KnownPeers : AddPeer(a)
  \/ Toggle \/ ToggleRun \/ DeletePeer \/ Cancel
Next ==
  \/ Edits \/ ApplyNode \/ ApplyLocalNode \/ Reopen \/ Restart
  \/ TimerEvent \/ OnAddressChecked \/ OnNodeSignal
  \/ CheckNetworkAddress \/ ChangeNode
  \/ NodeStarts \/ NodeFails \/ NodeSynced

Spec == Init /\ [][Next]_vars

(* The event loop delivers what is posted and the reactor runs it. *)
Fairness == /\ WF_vars(TimerEvent) /\ WF_vars(OnAddressChecked)
            /\ WF_vars(OnNodeSignal)
            /\ WF_vars(CheckNetworkAddress) /\ WF_vars(ChangeNode)
FairSpec == Spec /\ Fairness

-----------------------------------------------------------------------------
(* A check of the host on the page is still to be made or answered. *)
Unsettled ==
  \/ page.check
  \/ \E i \in DOMAIN calls : calls[i].kind = "check" /\ calls[i].to.host = page.host
  \/ \E i \in DOMAIN answers : answers[i].host = page.host

(* Whatever is typed while checks are under way, and however their answers
   overtake the typing, the page marks the address it shows as the check of
   this very address came out, once that is answered (onAddressChecked,
   setNodeAddress, timerEvent). *)
SettledValidity == ~Unsettled => page.valid = (page.host \in Resolves)

(* Only the address the page showed when the user last pressed Apply is saved:
   an Apply put off for a check never saves what was typed after it. *)
SavesWhatWasApplied == [][saved.node' # saved.node => saved.node' = asked']_vars

(* The toggle of the page says "integrated node" only with its address below,
   through any sequence of toggles, edits and Cancel. *)
ToggleTellsTruth == page.connect => page.host = Loopback

(* Cancel brings the page back to what is saved when the toggle was not
   touched and the port is one parseAddress can read. *)
CancelRestores ==
  [][Cancel /\ saved.node.port \notin HighPorts
            /\ page.connect = (saved.node.host = Loopback /\ saved.node.port = saved.port)
       => ~IsNodeChanged' /\ ~IsLocalNodeChanged']_vars

(* Once the calls q are run, a wallet that uses w uses a: the last call that
   changes the node is to a, or there is none and a is w. *)
LastFrom(q, i) == \A j \in DOMAIN q : j > i => q[j].kind # "node"
Told(q, w, a)  ==
  \/ \E i \in DOMAIN q : q[i].kind = "node" /\ q[i].to = a /\ LastFrom(q, i)
  \/ LastFrom(q, 0) /\ w = a

(* A remote node the user has chosen is the one the wallet is told last,
   whatever the integrated node reports late, is switched to or listens on; for
   a local address it is that or any known node (onNodeAddressChanged,
   onNodeSyncProgressUpdated, start). *)
RemoteIsTold ==
  \/ Told(calls, wallet, saved.node)
  \/ Told(calls, wallet, Bootstrap) /\ saved.node.host = Loopback

(* The comment of AppModel::getNodeAddress (app_model.cpp:694): "connect to the
   bootstrap node first, then we'll switch to the local after if gets
   synced". *)
UsesSyncedNode ==
  (node = "on" /\ synced /\ IsConnectToLocalNode)
    ~> (wallet = saved.node \/ node # "on" \/ ~IsConnectToLocalNode)

=============================================================================
