--------------------------- MODULE MCPermissions ---------------------------
(***************************************************************************)
(* An instance of Permissions for TLC: a connection with its main group m1 *)
(* and an ordinary group g1, and another connection with a group h1.       *)
(***************************************************************************)
EXTENDS Permissions, TLC

CONSTANTS u1, m1, g1, h1, c1, c2, t1

TwoConnections == m1 :> c1 @@ g1 :> c1 @@ h1 :> c2
AdminIds       == <<m1, "Connection">> :> 1 @@ <<m1, "Group">> :> 2

\* A body that gives rights, and one that takes them back.
Give == [connectionId |-> c1, connection |-> "edit", group |-> "readonly",
         tables |-> t1 :> {"visibility", "edit"}]
Take == [connectionId |-> c1, connection |-> "none", group |-> "readonly", tables |-> t1 :> {}]
GiveAndTake == {Give, Take}
Everybody   == {Groups \X Users}

Slots == Permutations(Requests)
=============================================================================
