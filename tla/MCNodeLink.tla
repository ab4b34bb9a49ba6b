----------------------------- MODULE MCNodeLink -----------------------------
(* The integrated node, a remote node that resolves and a name that does
   not. *)
EXTENDS NodeLink, TLC

CONSTANTS loopback, remote, typo

SomeHosts   == {loopback, remote, typo}
TwoHosts    == {loopback, remote}
SomeResolve == {loopback, remote}
SomeDefaults == <<[host |-> remote, port |-> 1]>>
SomePeers   == {[host |-> remote, port |-> 1]}
=============================================================================
