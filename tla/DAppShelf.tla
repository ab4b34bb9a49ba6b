----------------------------- MODULE DAppShelf -----------------------------
(***************************************************************************)
(* What the DApp library promises its user, whatever happens to the files: *)
(* a whole copy of an application only gives way to another whole copy,    *)
(* of a later version where Upwards, and an application the user was told  *)
(* is installed stays until he uninstalls it.                              *)
(***************************************************************************)
EXTENDS Naturals

CONSTANTS DApps, MaxVersion,
          Upwards     \* versions only go up

VARIABLES
  shelf,      \* the version of the whole copy of each application, 0 when none
  promised    \* the applications the user was told are installed

Init == /\ shelf \in [DApps -> 0..MaxVersion]
        /\ promised = {d \in DApps : shelf[d] > 0}

(* An installation or an update ends well and is announced. *)
Deliver(d) ==
  \E v \in 1..MaxVersion :
    /\ Upwards => v > shelf[d]
    /\ shelf' = [shelf EXCEPT ![d] = v]
    /\ promised' = promised \cup {d}

(* The program stops after an update and before it was announced. *)
Advance(d) ==
  \E v \in 1..MaxVersion :
    /\ Upwards => v > shelf[d]
    /\ shelf' = [shelf EXCEPT ![d] = v]
    /\ UNCHANGED promised

(* The user uninstalls d; another copy may have been under it. *)
Withdraw(d) ==
  \E v \in 0..MaxVersion :
    /\ Upwards \/ shelf[d] = 0 => v <= shelf[d]
    /\ shelf' = [shelf EXCEPT ![d] = v]
    /\ promised' = promised \ {d}

Next == \E d \in DApps : Deliver(d) \/ Advance(d) \/ Withdraw(d)

Spec == Init /\ [][Next]_<<shelf, promised>>

=============================================================================
