---------------------------- MODULE MCMembership ----------------------------
(***************************************************************************)
(* Instances of Membership for TLC: a connection with its main group m and *)
(* an ordinary group g whose members may edit the group.                   *)
(***************************************************************************)
EXTENDS Membership, TLC

CONSTANTS u1, u2, u3, m1, g1, c1, e1, e2, e3

OneConnection == m1 :> c1 @@ g1 :> c1

Edit(type) == [type |-> type, accessLevel |-> "edit", tableName |-> NoTable]

\* The rows a connection is created with, and group rights for g.
AdminAndGroup == 1 :> Edit("Connection") @@ 2 :> Edit("Group") @@ 3 :> Edit("Group")
AdminAndGroupLinks == {<<1, m1>>, <<2, m1>>, <<3, g1>>}

With(e, status) == [email |-> e, status |-> status]

\* At first one account is to be activated, and one address is unknown.
OneInactive ==
  {u1 :> With(e1, "active") @@ u2 :> With(e2, "inactive") @@ u3 :> NoAccount}

\* u1 administers the connection with u2.
SmallMain    == {{<<m1, u1>>, <<m1, u2>>}}

Slots == Permutations(Requests) \union Permutations(Codes)
=============================================================================
