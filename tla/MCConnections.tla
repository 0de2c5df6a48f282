---------------------------- MODULE MCConnections ----------------------------
(***************************************************************************)
(* An instance of Connections for TLC.                                     *)
(***************************************************************************)
EXTENDS Connections, TLC

Anybody == UNION {Permutations(S) : S \in {Requests, ConnIds, Hosts, Ports, Tokens}}
=============================================================================
