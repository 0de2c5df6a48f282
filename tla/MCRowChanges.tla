---------------------------- MODULE MCRowChanges ----------------------------
(***************************************************************************)
(* Instances of RowChanges for TLC: a table with a key of two columns, id  *)
(* and part, and a password.                                               *)
(***************************************************************************)
EXTENDS RowChanges, TLC

CONSTANT u1

Row(i, v)   == [id |-> i, part |-> 1, word |-> v]
Key(i)      == [id |-> i, part |-> 1]
OnlyPart    == [part |-> 1]
ThreeHashed == 1 :> 3 @@ 2 :> 3 @@ 3 :> 3
TwoRows     == {{Row(1, 1), Row(2, 2)}}

Ask(user, op, key, body) == [user |-> user, op |-> op, key |-> key, body |-> body]

\* The word of a row is changed, a row is moved to another key, added and
\* deleted; a key lacks a column or the body has one too many; rows are listed.
SevenWants ==
  {Ask(u1, "update", Key(1), [word |-> 2]), Ask(u1, "update", Key(1), [id |-> 3]),
   Ask(u1, "update", OnlyPart, [word |-> 2]), Ask(u1, "update", Key(1), [part |-> 2]),
   Ask(u1, "add", <<>>, [id |-> 3, word |-> 1]),
   Ask(u1, "delete", Key(1), <<>>), Ask(u1, "rows", <<>>, <<>>)}

Can(ops, list, excluded, passwords) ==
  [can |-> ops, list_fields |-> list, excluded_fields |-> excluded, passwords |-> passwords]

All == {"add", "update", "delete"}
FourSettings ==
  {Can(All, {}, {}, {"word"}), Can(All, {}, {"id"}, {"word"}),
   Can(All, {"word"}, {"word"}, {}), Can({}, {}, {}, {})}

Slots == Permutations(Requests)
=============================================================================
