--------------------------- MODULE WalletLifecycle ---------------------------
(***************************************************************************)
(* What the application promises about the wallets kept on the disk,       *)
(* whatever its windows, its node thread and its event queue do:           *)
(*                                                                         *)
(*  - at most one wallet is open at a time;                                *)
(*  - a wallet database is created only in an account that has none, so    *)
(*    nobody's database is ever overwritten;                               *)
(*  - a database disappears only when its account is removed, and only the *)
(*    account whose wallet is open can be removed.                         *)
(*                                                                         *)
(* AppSession implements this specification (see Lifecycle there).         *)
(***************************************************************************)
CONSTANTS Accounts,  (* the account indices                                *)
          NoWallet   (* "no wallet is open"; not an account                *)

VARIABLES existing,  (* the accounts that hold a wallet database           *)
          current    (* the account whose wallet is open, or NoWallet      *)

vars == <<existing, current>>

Init ==
    /\ existing \subseteq Accounts
    /\ current = NoWallet

\* A new database; opening it may fail and leave it closed.
Create(a) ==
    /\ a \notin existing
    /\ existing' = existing \cup {a}
    /\ current' \in {a, NoWallet}

Open(a) ==
    /\ current = NoWallet
    /\ a \in existing
    /\ current' = a
    /\ UNCHANGED existing

Close ==
    /\ current' = NoWallet
    /\ UNCHANGED existing

Remove ==
    /\ current # NoWallet
    /\ existing' = existing \ {current}
    /\ current' = NoWallet

Next ==
    \/ \E a \in Accounts : Create(a) \/ Open(a)
    \/ Close
    \/ Remove

Spec == Init /\ [][Next]_vars
=============================================================================
