---------------------------- MODULE MCRowQueries ----------------------------
(***************************************************************************)
(* Instances of RowQueries for TLC: a table of employees with a name, a    *)
(* boss and a deputy, who are both rows of the table of people.            *)
(***************************************************************************)
EXTENDS RowQueries, TLC

CONSTANTS id, name, boss, deputy, people

FourColumns == <<id, name, boss, deputy>>
BossAndDeputy == <<[column |-> boss, table |-> people], [column |-> deputy, table |-> people]>>
TwoPeople == people :> {1, 2}

Row(i, n, b, d) == id :> i @@ name :> n @@ boss :> b @@ deputy :> d

ThreeRows == {Row(1, 12, 1, 2), Row(2, 2, 2, 1), Row(3, Null, 3, Null)}
SmallTables == {{}, ThreeRows}

\* 12 begins with 1, ends with 2 and contains both.
TextLike == [startswith |-> {<<1, 1>>, <<2, 2>>, <<3, 3>>, <<12, 12>>, <<12, 1>>},
             endswith   |-> {<<1, 1>>, <<2, 2>>, <<3, 3>>, <<12, 12>>, <<12, 2>>},
             contains   |-> {<<1, 1>>, <<2, 2>>, <<3, 3>>, <<12, 12>>, <<12, 1>>, <<12, 2>>}]

Ask == [op |-> "list", page |-> Undefined, perPage |-> Undefined, search |-> Undefined, filters |-> {},
        sort |-> Undefined, referenced |-> Undefined, autocomplete |-> Undefined, row |-> Null]
F(field, criterion, value) == {Test(field, criterion, value)}
Sorted(page) == [Ask EXCEPT !.page = page, !.perPage = 2, !.sort = id]

Listings ==
  {Sorted(1), Sorted(2),
   [Ask EXCEPT !.search = 2, !.filters = F(name, "eq", 12) \union F(boss, "empty", Undefined)],
   [Ask EXCEPT !.filters = F(name, "icontains", 1) \union F(id, "lte", 2)],
   [Ask EXCEPT !.referenced = name, !.autocomplete = 1],
   [Ask EXCEPT !.referenced = name, !.autocomplete = Star],
   [Ask EXCEPT !.perPage = 1, !.sort = name]}
Additions == {[Ask EXCEPT !.op = "add", !.row = Row(1, 1, 2, Null)]}
AllWants == Listings \union Additions

Default == [configured |-> FALSE, list_fields |-> <<>>, excluded_fields |-> {},
            search_fields |-> <<>>, sortable_by |-> {}, ordering_field |-> Undefined,
            list_per_page |-> Undefined, autocomplete_columns |-> <<>>, identity_column |-> Undefined]
FourSettings ==
  {Default,
   [Default EXCEPT !.configured = TRUE, !.list_fields = <<name, id, boss>>,
      !.excluded_fields = {boss}, !.search_fields = <<name>>, !.sortable_by = {id},
      !.list_per_page = 1, !.identity_column = name, !.autocomplete_columns = <<boss, name>>],
   [Default EXCEPT !.configured = TRUE, !.excluded_fields = {name},
      !.ordering_field = boss, !.identity_column = id],
   [Default EXCEPT !.configured = TRUE, !.list_fields = <<boss, id, boss>>, !.excluded_fields = {boss}]}

Slots == Permutations(Calls)
=============================================================================
