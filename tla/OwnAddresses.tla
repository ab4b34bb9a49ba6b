---------------------------- MODULE OwnAddresses ----------------------------
(***************************************************************************)
(* The wallet's own addresses and their labels, as the wallet model keeps  *)
(* them for quick answers (model/wallet_model.cpp: isOwnAddress,           *)
(* isAddressWithCommentExist), and the page of the address book            *)
(* (viewmodel/address_book_view.cpp), which asks for all addresses after   *)
(* every change. A change is announced first and then entered into the     *)
(* sets on the wallet's thread, an answer on the thread of the event loop. *)
(***************************************************************************)
EXTENDS Integers, Sequences, FiniteSets

CONSTANTS
    Addresses,
    Labels,
    NoLabel,        \* the label of an address the wallet does not have
    MaxChangesUnderWay

ASSUME OwnAddressesAssumption == NoLabel \notin Labels /\ MaxChangesUnderWay \in Nat

VARIABLES
    labelOf,        \* the wallet's own addresses
    addrCalls,      \* how many requests for them there are
    addrEvents,     \* answers and announced changes, in order
    entering,       \* the change announced and not entered yet
    myWalletIds,    \* m_myWalletIds
    myAddrLabels,   \* m_myAddrLabels
    bookOpen,       \* the page of the address book is open
    bookAddresses   \* its own addresses, active and expired ones

ownAddressesVars == <<labelOf, addrCalls, addrEvents, entering, myWalletIds, myAddrLabels,
                      bookOpen, bookAddresses>>

LabelOf == [Addresses -> Labels \cup {NoLabel}]

Change == [id: Addresses, label: Labels, removed: BOOLEAN]
NoChange == [id |-> NoLabel, label |-> NoLabel, removed |-> FALSE]

\* The changed address is not used by the page.
Changed == [kind |-> "changed"]

OwnAddressesTypeOK ==
    /\ labelOf \in LabelOf
    /\ addrCalls \in Nat
    /\ addrEvents \in Seq({Changed} \cup [kind: {"addresses"}, of: LabelOf])
    /\ entering \in Change \cup {NoChange}
    /\ myWalletIds \subseteq Addresses
    /\ myAddrLabels \subseteq Labels
    /\ bookOpen \in BOOLEAN
    /\ bookAddresses \subseteq Addresses \X Labels

IdsOf(own) == {a \in Addresses : own[a] # NoLabel}
LabelsOf(own) == {own[a] : a \in IdsOf(own)}

\* The constructor of the wallet model asks for the own addresses.
OwnAddressesInit ==
    /\ labelOf \in LabelOf
    /\ addrCalls = 1
    /\ addrEvents = <<>>
    /\ entering = NoChange
    /\ myWalletIds = {} /\ myAddrLabels = {}
    /\ bookOpen = FALSE /\ bookAddresses = {}

AddressesUnderWay == addrCalls + Len(addrEvents)

-----------------------------------------------------------------------------
(* The wallet's thread.                                                    *)

\* onAddressesChanged, as far as the signal: an address is made, gets another
\* label, or goes.
AnnounceChange(a, label) ==
    /\ entering = NoChange /\ AddressesUnderWay < MaxChangesUnderWay
    /\ label # labelOf[a]
    /\ labelOf' = [labelOf EXCEPT ![a] = label]
    /\ addrEvents' = Append(addrEvents, Changed)
    /\ entering' = IF label = NoLabel
                   THEN [id |-> a, label |-> labelOf[a], removed |-> TRUE]
                   ELSE [id |-> a, label |-> label, removed |-> FALSE]
    /\ UNCHANGED <<addrCalls, myWalletIds, myAddrLabels, bookOpen, bookAddresses>>

\* Its rest. A label goes with the address removed, whoever else has it; a
\* former label stays.
EnterChange ==
    /\ entering # NoChange
    /\ entering' = NoChange
    /\ IF entering.removed
       THEN /\ myWalletIds' = myWalletIds \ {entering.id}
            /\ myAddrLabels' = myAddrLabels \ {entering.label}
       ELSE /\ myWalletIds' = myWalletIds \cup {entering.id}
            /\ myAddrLabels' = myAddrLabels \cup {entering.label}
    /\ UNCHANGED <<labelOf, addrCalls, addrEvents, bookOpen, bookAddresses>>

RunAddressCall ==
    /\ entering = NoChange /\ addrCalls > 0
    /\ addrCalls' = addrCalls - 1
    /\ addrEvents' = Append(addrEvents, [kind |-> "addresses", of |-> labelOf])
    /\ UNCHANGED <<labelOf, entering, myWalletIds, myAddrLabels, bookOpen, bookAddresses>>

-----------------------------------------------------------------------------
(* The thread of the event loop.                                           *)

\* A mutant: the sets are filled without being cleared.
SetAddresses_Adds(own) ==
    /\ myWalletIds' = myWalletIds \cup IdsOf(own)
    /\ myAddrLabels' = myAddrLabels \cup LabelsOf(own)

\* setAddresses clears the sets and fills them again. When the wallet's
\* thread is entering a change, both write the sets at once: what they hold
\* then may be anything.
SetAddresses(own) ==
    \/ /\ entering = NoChange
       /\ myWalletIds' = IdsOf(own)
       /\ myAddrLabels' = LabelsOf(own)
    \/ /\ entering # NoChange
       /\ myWalletIds' \in SUBSET Addresses
       /\ myAddrLabels' \in SUBSET Labels

OnOwnAddresses ==
    /\ addrEvents # <<>> /\ Head(addrEvents).kind = "addresses"
    /\ addrEvents' = Tail(addrEvents)
    /\ LET own == Head(addrEvents).of
       IN  /\ SetAddresses(own)
           /\ bookAddresses' = IF bookOpen THEN {<<a, own[a]>> : a \in IdsOf(own)} ELSE {}
    /\ UNCHANGED <<labelOf, addrCalls, entering, bookOpen>>

OnAddressChanged ==
    /\ addrEvents # <<>> /\ Head(addrEvents) = Changed
    /\ addrEvents' = Tail(addrEvents)
    /\ addrCalls' = IF bookOpen THEN addrCalls + 1 ELSE addrCalls
    /\ UNCHANGED <<labelOf, entering, myWalletIds, myAddrLabels, bookOpen, bookAddresses>>

OpenBook ==
    /\ ~bookOpen /\ AddressesUnderWay < MaxChangesUnderWay
    /\ bookOpen' = TRUE
    /\ bookAddresses' = {}
    /\ addrCalls' = addrCalls + 1
    /\ UNCHANGED <<labelOf, addrEvents, entering, myWalletIds, myAddrLabels>>

CloseBook ==
    /\ bookOpen
    /\ bookOpen' = FALSE
    /\ bookAddresses' = {}
    /\ UNCHANGED <<labelOf, addrCalls, addrEvents, entering, myWalletIds, myAddrLabels>>

OwnAddressesNext ==
    \/ \E a \in Addresses, label \in Labels \cup {NoLabel} : AnnounceChange(a, label)
    \/ EnterChange
    \/ RunAddressCall
    \/ OnOwnAddresses
    \/ OnAddressChanged
    \/ OpenBook
    \/ CloseBook

OwnAddressesSpec == OwnAddressesInit /\ [][OwnAddressesNext]_ownAddressesVars

-----------------------------------------------------------------------------
\* While the address book is open, once nothing is under way, the wallet model
\* knows exactly the own addresses and their labels, and the page shows them:
\* the request after every change makes up for labels that were dropped or
\* left behind, for answers older than a change, and for sets two threads have
\* spoilt (wallet_model.cpp: onAddressesChanged, setAddresses;
\* address_book_view.cpp: onAddressesChanged).
OwnAddressesAtRest ==
    bookOpen /\ addrCalls = 0 /\ addrEvents = <<>> /\ entering = NoChange =>
        /\ myWalletIds = IdsOf(labelOf)
        /\ myAddrLabels = LabelsOf(labelOf)
        /\ bookAddresses = {<<a, labelOf[a]>> : a \in IdsOf(labelOf)}
=============================================================================
