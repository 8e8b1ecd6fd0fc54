-------------------------- MODULE MCConflictsView ---------------------------
(****************************************************************************)
(* Model checking of ConflictsView: two symbols of type bool and one of     *)
(* type int, say NET, NFS and NETDEVS, and a search over two soft           *)
(* constraints.                                                             *)
(****************************************************************************)
EXTENDS ConflictsView

CONSTANTS net, nfs, netdevs

MCPrefixes == {<<net, netdevs>>}
=============================================================================
