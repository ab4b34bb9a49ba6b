--------------------------- MODULE MCDAppLibrary ---------------------------
(* The applications shipped with the wallet: the first version of each, or
   none. *)
EXTENDS DAppLibrary, TLC

AllBundled  == [d \in DApps |-> 1]
NoneBundled == [d \in DApps |-> 0]
=============================================================================
