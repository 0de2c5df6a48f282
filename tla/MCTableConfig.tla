--------------------------- MODULE MCTableConfig ----------------------------
(***************************************************************************)
(* Instances of TableConfig for TLC: two tables that share the columns id  *)
(* and label; the first has one more.                                       *)
(***************************************************************************)
EXTENDS TableConfig, TLC

CONSTANTS t1, t2, id, label, size

TwoTables   == {t1, t2}
TheirFields == t1 :> {id, label, size} @@ t2 :> {id, label}
TheirKeys   == t1 :> {id} @@ t2 :> {id}
SomeNames   == {label}

\* One that is accepted for t1 only, one with excluded fields, one that would
\* exclude what it searches, one with no page.
Body(list, value) == [NoColumns EXCEPT ![list] = value]
FourBodies == {Body("readonly_fields", {size}),
               [Body("excluded_fields", {id}) EXCEPT !["search_fields"] = {label}],
               [Body("excluded_fields", {label}) EXCEPT !["search_fields"] = {label}],
               Body("list_per_page", 0)}
For(field) == [field |-> field, refers |-> None]
Wishes == {<<>>, <<For(label), [For(size) EXCEPT !.refers = [table |-> t2, column |-> id]]>>,
           <<For(label), For(label)>>,
           <<[For(id) EXCEPT !.refers = [table |-> t2, column |-> size]]>>}

AnyIds == Permutations(Requests) \union Permutations(ChildIds) \union Permutations(SettingsIds)
=============================================================================
