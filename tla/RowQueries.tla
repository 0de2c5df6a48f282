----------------------------- MODULE RowQueries -----------------------------
(***************************************************************************)
(* Listing the rows of a customer's table and adding one, as the data      *)
(* access objects do it (data-access-layer/data-access-objects).  A        *)
(* listing reads the structure of the table, checks the query against it,  *)
(* counts the rows, selects a page of them and looks up what the foreign   *)
(* keys of the page refer to; every one of these is a statement of its     *)
(* own.  The condition of the select is put together by a query builder    *)
(* that knows no brackets.  The key of an added row is returned by the     *)
(* INSERT, or asked for by a second statement on some session of the pool. *)
(***************************************************************************)
EXTENDS Integers, FiniteSets, SequencesExt

CONSTANTS Dialects,       \* the types of connection that are considered
          Calls,          \* requests; each is sent at most once
          Wants,          \* what they may ask for
          SettingsChoices,\* settings the table may have
          InitialTables,  \* contents the table may have at first
          Columns,        \* its columns, a sequence in the order of the structure
          Key,            \* its primary key, which the database generates
          ForeignKeys,    \* a sequence of [column, table]
          Referenced,     \* the rows of the tables they refer to, by their keys
          Values, Null,
          Like,           \* [criterion -> the pairs <<value, pattern>> it accepts]
          Sessions,       \* the sessions of the pool
          DefaultPerPage, \* DEFAULT_PAGINATION.perPage
          LibraryPerPage, \* what knex-paginate takes for want of a number
          AutocompleteLimit, \* AUTOCOMPLETE_ROW_LIMIT
          Star,           \* the text that stands for every row
          Undefined, NaN, \* undefined, and a number that is none
          MaxEvents       \* bound on what happens around the requests

Cells    == Values \union {Null}
Names    == ToSet(Columns)
Rows     == [Names -> Cells]
Criteria == {"eq", "startswith", "endswith", "gt", "lt", "lte", "gte",
             "contains", "icontains", "empty"}
\* The order in which findFilteringFieldsUtil asks for them.
CriteriaInOrder == <<"eq", "startswith", "endswith", "gt", "lt", "lte", "gte",
                     "contains", "icontains", "empty">>

\* The database keeps the keys apart; numbers of pages and of rows per page
\* that are not positive are refused or count as not given.
ASSUME QueriesAssumption ==
  /\ Columns \in Seq(Names) /\ Key \in Names
  /\ Undefined \notin Names \union Nat
  /\ {DefaultPerPage, LibraryPerPage} \subseteq Nat \ {0}
  /\ Sessions # {}
  /\ \A k \in DOMAIN ForeignKeys : k \in Nat
  /\ \A rows \in InitialTables :
        /\ rows \subseteq Rows /\ IsFiniteSet(rows)
        /\ \A row \in rows : row[Key] \in Nat \ {Null}
        /\ \A a, b \in rows : a[Key] = b[Key] => a = b
  /\ \A w \in Wants :
        /\ IsFiniteSet(w.filters) /\ \A f \in w.filters : f.criterion \in Criteria
        /\ {w.page, w.perPage} \subseteq (Nat \ {0}) \union {Undefined}
  /\ \A s \in SettingsChoices : /\ s.list_fields \in Seq(Names)
                               /\ s.list_per_page \in (Nat \ {0}) \union {Undefined}

VARIABLES dialect,    \* connection.type
          table,      \* the rows of the table
          present,    \* the columns the table has now
          cached,     \* the structure in tableStructureCache, or Undefined
          settings,   \* the row in table_settings
          lastId,     \* lastId[s]: the key that session s generated last
          nextId,     \* the key that will be generated next
          pc, want,   \* of each request: its next statement, what it asks for ...
          query,      \* ... the checked query ...
          counted,    \* ... rowsCount ...
          answer,     \* ... the page it answers ...
          added,      \* ... the key of the row it added (history) ...
          reply,
          stale,      \* history: requests that met a structure no longer true
          changed,    \* history: requests during which the table changed, or its columns later
          events      \* events so far

database  == <<dialect, table, present, settings, lastId, nextId>>
history   == <<added, stale, changed, events>>
queryVars == <<database, cached, pc, want, query, counted, answer, reply, history>>
-----------------------------------------------------------------------------
(***************************************************************************)
(* The condition of a query: its groups are OR-ed, the tests of a group    *)
(* AND-ed.  builder.andWhere extends the last group, builder.orWhere       *)
(* starts another one.                                                     *)
(***************************************************************************)
And(where, test) ==
  IF where = <<>> THEN <<{test}>> ELSE [where EXCEPT ![Len(where)] = @ \union {test}]
Or(where, test) == Append(where, {test})

Test(field, criterion, value) == [field |-> field, criterion |-> criterion, value |-> value]

\* A comparison with NULL is not true, nor is its negation.
Passes(row, test) ==
  LET cell == row[test.field] value == test.value IN
  IF test.criterion = "null" THEN cell = Null
  ELSE /\ cell # Null
       /\ CASE test.criterion = "eq"  -> cell = value
            [] test.criterion = "gt"  -> cell > value
            [] test.criterion = "lt"  -> cell < value
            [] test.criterion = "lte" -> cell <= value
            [] test.criterion = "gte" -> cell >= value
            [] test.criterion \in {"startswith", "endswith", "contains"} ->
                 <<cell, value>> \in Like[test.criterion]
            [] test.criterion = "icontains" -> <<cell, value>> \notin Like["contains"]
            [] test.criterion = "two quotes" -> FALSE

Satisfies(row, where) ==
  where = <<>> \/ \E i \in DOMAIN where : \A test \in where[i] : Passes(row, test)

\* Mutant: the tests of the filters are OR-ed.
AddFilterOr(where, filter) ==
  IF filter.criterion = "empty" THEN Or(where, Test(filter.field, "null", Undefined))
  ELSE Or(where, filter)

(***************************************************************************)
(* The switch over filterObject.criteria.  An empty field is null or       *)
(* equal to the text of two quotes, which no cell of the model is.         *)
(***************************************************************************)
AddFilter(where, filter) ==
  IF filter.criterion = "empty"
  THEN Or(Or(where, Test(filter.field, "null", Undefined)), Test(filter.field, "two quotes", Undefined))
  ELSE And(where, filter)

AddFilters(where, filters) == FoldLeft(AddFilter, where, filters)

AddSearch(where, fields, value) ==
  FoldLeft(LAMBDA w, field : Or(w, Test(field, "eq", value)), where, fields)

\* search_fields, or every available field when there are none.
SearchFields(s, available) == IF s.search_fields = <<>> THEN available ELSE s.search_fields

\* The search comes first, the filters follow: a search for x in a and b with
\* a filter f is  a = x OR b = x AND f.
Where(q) ==
  AddFilters(IF q.search = Undefined THEN <<>>
             ELSE AddSearch(<<>>, SearchFields(q.using, q.available), q.search),
             q.filters)

\* getRowsCount of mysql-ssh: the filters come first, and a search counts only
\* in the search fields of the settings.
CountWhere(q) ==
  LET where == AddFilters(<<>>, q.filters) IN
  IF q.search = Undefined THEN where ELSE AddSearch(where, q.using.search_fields, q.search)

Matching(where) == {row \in table : Satisfies(row, where)}
-----------------------------------------------------------------------------
(***************************************************************************)
(* What the use case makes of the query (entities/table/utils).            *)
(***************************************************************************)

\* findFilteringFieldsUtil: the filters on columns of the structure, in its order.
FilteringFields(w, structure) ==
  LET given(field, criterion) ==
        SetToSeq({f \in w.filters : f.field = field /\ f.criterion = criterion})
      all(field) ==
        FlattenSeq([i \in DOMAIN CriteriaInOrder |-> given(field, CriteriaInOrder[i])])
  IN  FlattenSeq([i \in DOMAIN structure |-> all(structure[i])])

\* findOrderingFieldUtil throws on a column that the table lacks or that is
\* not sortable.
OrderingRefused(w, structure, s) ==
  /\ w.sort # Undefined
  /\ \/ w.sort \notin ToSet(structure)
     \/ s.sortable_by # {} /\ w.sort \notin s.sortable_by

\* findAutocompleteFieldsUtil throws on an excluded or missing column ...
AutocompleteRefused(w, structure, s) ==
  /\ w.referenced # Undefined
  /\ w.referenced \in s.excluded_fields \/ w.referenced \notin ToSet(structure)

\* ... and takes the column, the autocomplete columns and the identity column,
\* or every column of a table without settings.
AutocompleteFields(w, structure, s) ==
  LET named == <<w.referenced>>
                 \o SelectSeq(s.autocomplete_columns, LAMBDA c : c \in ToSet(structure))
  IN  IF ~s.configured THEN structure
      ELSE IF s.identity_column = Undefined \/ s.identity_column \in ToSet(named) THEN named
      ELSE <<s.identity_column>> \o named

Without(seq, S) ==
  FlattenSeq([i \in DOMAIN seq |-> IF seq[i] \in S THEN <<>> ELSE <<seq[i]>>])

\* splice() at the position that indexOf() finds: the first one.
Spliced(seq, S) ==
  FlattenSeq([i \in DOMAIN seq |->
                IF seq[i] \in S /\ \A j \in 1..(i - 1) : seq[j] # seq[i] THEN <<>> ELSE <<seq[i]>>])

\* findAvaliableFields of every data access object.  The columns of a structure
\* are different, the settings may list one twice.
AvailableFields(s, structure) ==
  IF s.list_fields # <<>> THEN Spliced(s.list_fields, s.excluded_fields)
  ELSE Without(structure, s.excluded_fields)

ListedOnce(s) == \A i, j \in DOMAIN s.list_fields : s.list_fields[i] = s.list_fields[j] => i = j

\* A page that is not given takes the default, and only then the number of
\* rows per page is looked at: one given without a page is lost.
Page(w)       == IF w.page = Undefined THEN 1 ELSE w.page
PerPage(w, s) == IF w.page # Undefined THEN w.perPage
                 ELSE IF s.list_per_page # Undefined /\ w.perPage = Undefined THEN s.list_per_page
                 ELSE DefaultPerPage

\* select() of no column selects all of them.
Selected(q) ==
  LET fields == IF q.autocomplete # <<>> THEN q.autocomplete ELSE q.available
  IN  IF fields = <<>> THEN present ELSE ToSet(fields)

OrderedBy(q) == IF q.order = Undefined THEN {} ELSE {q.order}

Mentioned(q) ==
  IF q.autocomplete # <<>> THEN ToSet(q.autocomplete)
  ELSE Selected(q) \union OrderedBy(q)
         \union UNION {{t.field : t \in g} : g \in ToSet(Where(q))}
-----------------------------------------------------------------------------
(***************************************************************************)
(* Statements and answers.                                                 *)
(***************************************************************************)
CeilDiv(n, d) == (n + d - 1) \div d
LeastOf(a, b) == IF a < b THEN a ELSE b

\* The orders in which the database may deliver rows.
Deliveries(rows, order) ==
  {seq \in [1..Cardinality(rows) -> rows] :
     /\ \A i, j \in DOMAIN seq : i # j => seq[i] # seq[j]
     /\ order # Undefined =>
          \A i, j \in DOMAIN seq :
             (i < j /\ seq[i][order] # Null /\ seq[j][order] # Null)
                => seq[i][order] <= seq[j][order]}

\* offset = (page - 1) * perPage
Slice(seq, page, per) ==
  LET first == (page - 1) * per IN SubSeq(seq, first + 1, LeastOf(first + per, Len(seq)))

NoQuery  == [using |-> Undefined, filters |-> <<>>, search |-> Undefined, order |-> Undefined,
             autocomplete |-> <<>>, available |-> <<>>, page |-> 1, perPage |-> Undefined]
NoAnswer == [data |-> <<>>, shown |-> {}, total |-> Undefined, lastPage |-> Undefined, perPage |-> Undefined,
             refs |-> <<>>, key |-> Undefined]

\* The pagination is put into the answer.
Numbered(a, pagination) == [a EXCEPT !.total = pagination.total, !.perPage = pagination.perPage,
                                     !.lastPage = pagination.lastPage]

\* Mutant: the total is that of the whole table.
PaginatedWhole(q, rows, whole) ==
  LET per == IF q.perPage = Undefined THEN LibraryPerPage ELSE q.perPage
  IN  [total |-> whole, lastPage |-> CeilDiv(Cardinality(rows), per), perPage |-> per]

(***************************************************************************)
(* paginate() of knex-paginate counts the rows of the query.  A total of 0 *)
(* is replaced by the number of rows of the table.                         *)
(***************************************************************************)
Paginated(q, rows, whole) ==
  LET per == IF q.perPage = Undefined THEN LibraryPerPage ELSE q.perPage
      n   == Cardinality(rows)
      replaced == n = 0
      last == IF whole = NaN \/ q.perPage = Undefined THEN NaN ELSE CeilDiv(whole, per)
  IN  [total |-> IF replaced THEN whole ELSE n,
       lastPage |-> IF replaced THEN last ELSE CeilDiv(n, per),
       perPage |-> per]

\* limit() and offset() of oracle and mysql-ssh: without a number of rows per
\* page neither applies.
Limited(q, whole) ==
  [total |-> whole, perPage |-> q.perPage,
   lastPage |-> IF whole = NaN \/ q.perPage = Undefined THEN NaN ELSE CeilDiv(whole, q.perPage)]

Goto(r, place) == pc' = [pc EXCEPT ![r] = place]
Reply(r, a)   == reply' = [reply EXCEPT ![r] = a]
Fail(r)        == Goto(r, "done") /\ Reply(r, "failed")
Active(r)      == pc[r] \notin {"unsent", "done"}
Happens        == events < MaxEvents /\ events' = events + 1
\* The statement names a column that is gone, or the cache lacks one.
Notice(r, structure) ==
  stale' = IF ToSet(structure) # present THEN stale \union {r} ELSE stale
Touches(r) == changed' = changed \union {q \in Calls \ {r} : Active(q)}
-----------------------------------------------------------------------------
Empty == [s \in Sessions |-> Undefined]

QueriesInit ==
  /\ dialect \in Dialects
  /\ table \in InitialTables
  /\ present = Names /\ cached = Undefined
  /\ settings \in SettingsChoices
  /\ lastId = Empty /\ nextId = 1 + Cardinality(table)
  /\ want \in [Calls -> Wants]
  /\ pc = [r \in Calls |-> "unsent"]
  /\ query = [r \in Calls |-> NoQuery]
  /\ counted = [r \in Calls |-> Undefined]
  /\ answer = [r \in Calls |-> NoAnswer]
  /\ added = [r \in Calls |-> Undefined]
  /\ reply = [r \in Calls |-> "none"]
  /\ stale = {} /\ changed = {} /\ events = 0

\* getTableStructure: what the cache has, or what the database says.
Structure ==
  IF cached # Undefined THEN cached ELSE Without(Columns, Names \ present)

Send(r) ==
  /\ pc[r] = "unsent"
  /\ Goto(r, "read")
  /\ UNCHANGED <<database, cached, want, query, counted, answer, reply, history>>

\* The part of the use case before the first statement on the rows.
ReadStructure(r) ==
  LET w == want[r] structure == Structure IN
  /\ pc[r] = "read"
  /\ cached' = structure /\ Notice(r, structure)
  /\ IF w.op = "add" THEN Goto(r, "insert") /\ UNCHANGED <<query, reply>>
     ELSE IF \/ OrderingRefused(w, structure, settings)
             \/ AutocompleteRefused(w, structure, settings)
     THEN Goto(r, "done") /\ Reply(r, "refused") /\ UNCHANGED query
     ELSE /\ query' = [query EXCEPT ![r] =
               [using |-> settings, filters |-> FilteringFields(w, structure),
                search |-> w.search,
                order |-> IF w.sort # Undefined THEN w.sort ELSE settings.ordering_field,
                autocomplete |-> IF w.referenced = Undefined THEN <<>>
                                 ELSE AutocompleteFields(w, structure, settings),
                available |-> <<>>,
                page |-> Page(w), perPage |-> PerPage(w, settings)]]
          /\ Goto(r, IF dialect = "oracle" THEN "rows" ELSE "count")
          /\ UNCHANGED reply
  /\ UNCHANGED <<database, want, counted, answer, added, changed, events>>
-----------------------------------------------------------------------------
(***************************************************************************)
(* Counting.  countWithTimeout gives up after two seconds and takes a      *)
(* count of 0 for none; both lead to what the database estimates.          *)
(***************************************************************************)
Count(r, n)  == counted' = [counted EXCEPT ![r] = n]
AfterCount(r) == Goto(r, IF dialect = "oracle" THEN "refs" ELSE "rows")

CountWithTimeout(r, n, Estimates) ==
  \/ n # 0 /\ Count(r, n) /\ UNCHANGED events
  \/ n = 0 /\ UNCHANGED events /\ \E e \in Estimates : Count(r, e)
  \/ n # 0 /\ Happens /\ \E e \in Estimates : Count(r, e)

Rough == {0, Cardinality(table) + 1}

\* The columns to select are found out at the same time.
FindAvailable(r) ==
  /\ query' = [query EXCEPT ![r].available = AvailableFields(query[r].using, Structure)]
  /\ cached' = Structure /\ Notice(r, Structure)

AtCount(r, d) ==
  /\ pc[r] = "count" /\ dialect = d
  /\ AfterCount(r)
  /\ UNCHANGED <<database, want, reply, added, changed>>

\* reltuples of pg_class: the result of the query is returned as it is.
PostgresCount(r) ==
  /\ AtCount(r, "postgres") /\ FindAvailable(r) /\ UNCHANGED answer
  /\ CountWithTimeout(r, Cardinality(table), {0, NaN})

MysqlCount(r) ==
  /\ AtCount(r, "mysql") /\ FindAvailable(r) /\ UNCHANGED answer
  /\ CountWithTimeout(r, Cardinality(table), Rough)

\* The sum over the partitions of the table.
MssqlCount(r) ==
  /\ AtCount(r, "mssql") /\ FindAvailable(r) /\ UNCHANGED answer
  /\ Count(r, Cardinality(table)) /\ UNCHANGED events

MysqlSshCount(r) ==
  LET q == query[r]
      restricted == \/ q.filters # <<>>
                    \/ q.search # Undefined /\ q.using.search_fields # <<>>
  IN  /\ AtCount(r, "mysql_ssh") /\ FindAvailable(r) /\ UNCHANGED answer
      /\ IF restricted
         THEN Count(r, Cardinality(Matching(CountWhere(q)))) /\ UNCHANGED events
         ELSE CountWithTimeout(r, Cardinality(table), Rough)

\* After the rows, and of the whole table.
OracleCount(r) ==
  /\ AtCount(r, "oracle")
  /\ CountWithTimeout(r, Cardinality(table), Rough)
  /\ answer' = [answer EXCEPT ![r] = Numbered(@, Limited(query[r], counted'[r]))]
  /\ UNCHANGED <<cached, query, stale>>
-----------------------------------------------------------------------------
(***************************************************************************)
(* Selecting.  A column that is gone fails the statement.                  *)
(***************************************************************************)
Deliver(r, q, data, pagination) ==
  answer' = [answer EXCEPT ![r] = [Numbered(@, pagination) EXCEPT !.data = data,
                                                                  !.shown = Selected(q)]]

\* The rows whose cells begin with the text, and without a page.  A star
\* stands for all rows, but not in Oracle.
Autocomplete(r, q, starMeansAll) ==
  LET text  == want[r].autocomplete
      begin == FoldLeft(LAMBDA w, f : Or(w, Test(f, "startswith", text)), <<>>, q.autocomplete)
      where == IF text = Star /\ starMeansAll THEN <<>> ELSE begin
  IN  /\ \E seq \in Deliveries(Matching(where), Undefined) :
            Deliver(r, q, Slice(seq, 1, AutocompleteLimit), NoAnswer)
      /\ Goto(r, "refs") /\ UNCHANGED reply

\* q is the query with what this step adds to it.
Select(r, d, q, Rest) ==
  /\ pc[r] = "rows" /\ dialect = d
  /\ query' = [query EXCEPT ![r] = q]
  /\ IF Mentioned(q) \subseteq present THEN Rest ELSE Fail(r) /\ UNCHANGED answer
  /\ UNCHANGED <<database, want, counted, added, changed, events>>

\* paginate(): one page of the rows, and the count of all of them.
Paginate(r, q) ==
  LET rows == Matching(Where(q))
      pagination == Paginated(q, rows, counted[r])
  IN  /\ \E seq \in Deliveries(rows, q.order) :
            Deliver(r, q, Slice(seq, q.page, pagination.perPage), pagination)
      /\ Goto(r, "refs") /\ UNCHANGED reply

\* limit() and offset().
Limit(r, q, pagination, next) ==
  /\ \E seq \in Deliveries(Matching(Where(q)), q.order) :
        Deliver(r, q, IF q.perPage = Undefined THEN seq ELSE Slice(seq, q.page, q.perPage),
                pagination)
  /\ Goto(r, next) /\ UNCHANGED reply

PostgresRows(r) ==
  LET q == query[r] IN
  /\ Select(r, "postgres", q,
            IF q.autocomplete # <<>> THEN Autocomplete(r, q, TRUE) ELSE Paginate(r, q))
  /\ UNCHANGED <<cached, stale>>

MysqlRows(r) ==
  LET q == query[r] IN
  /\ Select(r, "mysql", q,
            IF q.autocomplete # <<>> THEN Autocomplete(r, q, TRUE) ELSE Paginate(r, q))
  /\ UNCHANGED <<cached, stale>>

\* Without an ordering field the first available one orders the rows.
MssqlRows(r) ==
  LET first == IF query[r].available = <<>> THEN Undefined ELSE Head(query[r].available)
      q == [query[r] EXCEPT !.order = IF @ = Undefined THEN first ELSE @]
  IN  /\ Select(r, "mssql", q,
                IF q.autocomplete # <<>> THEN Autocomplete(r, q, TRUE) ELSE Paginate(r, q))
      /\ UNCHANGED <<cached, stale>>

\* The total is what was counted before.
MysqlSshRows(r) ==
  LET q == query[r] IN
  /\ Select(r, "mysql_ssh", q,
            IF q.autocomplete # <<>> THEN Autocomplete(r, q, TRUE)
            ELSE Limit(r, q, Limited(q, counted[r]), "refs"))
  /\ UNCHANGED <<cached, stale>>

\* The total is counted afterwards.
OracleRows(r) ==
  LET q == [query[r] EXCEPT !.available = AvailableFields(query[r].using, Structure)] IN
  /\ Select(r, "oracle", q,
            IF q.autocomplete # <<>> THEN Autocomplete(r, q, FALSE)
            ELSE Limit(r, q, NoAnswer, "count"))
  /\ cached' = Structure /\ Notice(r, Structure)

Shows(r, column) == column \in answer[r].shown

CellsOf(r, column) ==
  IF Shows(r, column)
  THEN {answer[r].data[i][column] : i \in DOMAIN answer[r].data} \ {Null} ELSE {}

\* Mutant: the last key that refers to the table is taken.
LookUpReferencesLast(r) ==
  LET identities(k) == CellsOf(r, ForeignKeys[k].column) \cap Referenced[ForeignKeys[k].table]
      last(k) == CHOOSE j \in DOMAIN ForeignKeys :
                   /\ ForeignKeys[j].table = ForeignKeys[k].table
                   /\ \A i \in DOMAIN ForeignKeys :
                         ForeignKeys[i].table = ForeignKeys[k].table => j >= i
  IN  /\ pc[r] = "refs"
      /\ answer' = [answer EXCEPT ![r].refs =
           [k \in DOMAIN ForeignKeys |->
              CellsOf(r, ForeignKeys[k].column) \cap identities(last(k))]]
      /\ Goto(r, "done") /\ Reply(r, "ok")
      /\ UNCHANGED <<database, cached, want, query, counted, history>>

(***************************************************************************)
(* getIdentityColumns for every foreign key, and the loop that puts what   *)
(* was found in place of the cells.  identities.find takes the first key   *)
(* that refers to the same table: refs[k] are the cells of key k that find *)
(* their row.                                                              *)
(***************************************************************************)
LookUpReferences(r) ==
  LET identities(k) == CellsOf(r, ForeignKeys[k].column) \cap Referenced[ForeignKeys[k].table]
      first(k) == CHOOSE j \in DOMAIN ForeignKeys :
                    /\ ForeignKeys[j].table = ForeignKeys[k].table
                    /\ \A i \in DOMAIN ForeignKeys :
                          ForeignKeys[i].table = ForeignKeys[k].table => j <= i
  IN  /\ pc[r] = "refs"
      /\ answer' = [answer EXCEPT ![r].refs =
           [k \in DOMAIN ForeignKeys |->
              CellsOf(r, ForeignKeys[k].column) \cap identities(first(k))]]
      /\ Goto(r, "done") /\ Reply(r, "ok")
      /\ UNCHANGED <<database, cached, want, query, counted, history>>
-----------------------------------------------------------------------------
(***************************************************************************)
(* Adding a row.  The cells come with the request, the key is generated.   *)
(***************************************************************************)

Insert(r, s) ==
  /\ pc[r] = "insert"
  /\ table' = table \union {[want[r].row EXCEPT ![Key] = nextId]}
  /\ nextId' = nextId + 1
  /\ lastId' = [lastId EXCEPT ![s] = nextId]
  /\ added' = [added EXCEPT ![r] = nextId]
  /\ Touches(r)
  /\ UNCHANGED <<dialect, present, settings, cached, want, query, counted, stale, events>>

AnswerKey(r, key) ==
  /\ answer' = [answer EXCEPT ![r].key = key]
  /\ Goto(r, "done") /\ Reply(r, "ok")

Returning(r) == AnswerKey(r, nextId)
Asking(r)    == Goto(r, "lastId") /\ UNCHANGED <<answer, reply>>

\* The only session of the SSH driver.
Driver == CHOOSE s \in Sessions : TRUE

\* INSERT ... RETURNING, and OUTPUT INSERTED.
PostgresAdd(r) == dialect = "postgres" /\ \E s \in Sessions : Insert(r, s) /\ Returning(r)
MssqlAdd(r)    == dialect = "mssql" /\ \E s \in Sessions : Insert(r, s) /\ Returning(r)

\* The key is asked for by a second statement.
MysqlAdd(r)    == dialect = "mysql" /\ \E s \in Sessions : Insert(r, s) /\ Asking(r)
OracleAdd(r)   == dialect = "oracle" /\ \E s \in Sessions : Insert(r, s) /\ Asking(r)
\* Mutant: the SSH driver has a pool as well.
MysqlSshAddPool(r) ==
  dialect = "mysql_ssh" /\ \E s \in Sessions : Insert(r, s) /\ Asking(r)
MysqlSshAdd(r) == dialect = "mysql_ssh" /\ Insert(r, Driver) /\ Asking(r)

AskKey(r, d, Pool) ==
  /\ pc[r] = "lastId" /\ dialect = d
  /\ \E s \in Pool :
       IF table = {} \/ (d = "oracle" /\ lastId[s] = Undefined) THEN Fail(r) /\ UNCHANGED answer
       ELSE AnswerKey(r, lastId[s])
  /\ UNCHANGED <<database, cached, want, query, counted, history>>

\* SELECT LAST_INSERT_ID() FROM the table, whose first row is read: it is that
\* of the session that runs it.  currval is not defined in a session that
\* generated nothing.
MysqlLastId(r)    == AskKey(r, "mysql", Sessions)
OracleCurrval(r)  == AskKey(r, "oracle", Sessions)
MysqlSshLastId(r) == AskKey(r, "mysql_ssh", {Driver})
-----------------------------------------------------------------------------
(***************************************************************************)
(* Around the requests: the customer deletes a row or changes the columns  *)
(* of the table, and the cache forgets (after a minute).                   *)
(***************************************************************************)
DeleteRow ==
  /\ Happens
  /\ \E row \in table : table' = table \ {row}
  /\ changed' = changed \union {q \in Calls : Active(q)}
  /\ UNCHANGED <<dialect, present, settings, lastId, nextId, cached, pc, want, query,
                 counted, answer, reply, added, stale>>

AlterTable ==
  /\ Happens
  /\ \E c \in Names \ {Key} :
        present' = IF c \in present THEN present \ {c} ELSE present \union {c}
  /\ changed' = changed \union {q \in Calls : pc[q] # "unsent"}
  /\ UNCHANGED <<dialect, table, settings, lastId, nextId, cached, pc, want, query,
                 counted, answer, reply, added, stale>>

Forget ==
  /\ cached # Undefined /\ Happens
  /\ cached' = Undefined
  /\ UNCHANGED <<database, pc, want, query, counted, answer, reply, added, stale, changed>>

CountRows(r) == PostgresCount(r) \/ MysqlCount(r) \/ MssqlCount(r) \/ MysqlSshCount(r) \/ OracleCount(r)
GetRows(r)   == PostgresRows(r) \/ MysqlRows(r) \/ MssqlRows(r) \/ MysqlSshRows(r) \/ OracleRows(r)
AddRow(r)    == PostgresAdd(r) \/ MysqlAdd(r) \/ MssqlAdd(r) \/ MysqlSshAdd(r) \/ OracleAdd(r)
GetKey(r)    == MysqlLastId(r) \/ OracleCurrval(r) \/ MysqlSshLastId(r)

QueriesNext ==
  \/ \E r \in Calls :
       \/ Send(r) \/ ReadStructure(r) \/ CountRows(r) \/ GetRows(r)
       \/ LookUpReferences(r) \/ AddRow(r) \/ GetKey(r)
  \/ DeleteRow \/ AlterTable \/ Forget

QueriesSpec == QueriesInit /\ [][QueriesNext]_queryVars
-----------------------------------------------------------------------------
Listed(r) == want[r].op = "list" /\ reply[r] = "ok"
\* A listing of rows, during which nothing changed.
Settled(r) == Listed(r) /\ want[r].referenced = Undefined /\ r \notin changed \union stale

\* The table is what it was at first.
Still == events = 0 /\ \A r \in Calls : added[r] = Undefined

(***************************************************************************)
(* A listing that asks for filters shows only rows that pass all of them.  *)
(* It holds for a query that neither searches nor asks for empty fields    *)
(* (their conditions are OR-ed without brackets) and whose structure was   *)
(* not out of date (a filter on a column that the structure lacks is       *)
(* dropped): findFilteringFieldsUtil and the filter switch of the DAOs.    *)
(***************************************************************************)
FiltersHold ==
  \A r \in Calls :
    (Settled(r) /\ want[r].search = Undefined /\ \A f \in want[r].filters : f.criterion # "empty")
      => \A f \in want[r].filters : \A row \in ToSet(answer[r].data) :
            f.field \in present => Passes(row, f)

(***************************************************************************)
(* The page fits the pagination that is answered with it, as long as the   *)
(* table does not change: it is full, or it is the last one.  It holds     *)
(* where the library counts the rows of the query and some row matches,    *)
(* and in oracle and mysql-ssh without search and filters.                 *)
(***************************************************************************)
PageFitsTotal ==
  \A r \in Calls :
    LET a == answer[r]
        rows == Matching(Where(query[r]))
        left == a.total - (query[r].page - 1) * a.perPage
    IN (/\ Settled(r) /\ Still /\ rows # {}
        /\ dialect \in {"oracle", "mysql_ssh"} =>
             /\ want[r].filters = {} /\ want[r].search = Undefined
             /\ want[r].page # Undefined /\ want[r].perPage # Undefined)
       => Len(a.data) = IF left <= 0 THEN 0 ELSE LeastOf(left, a.perPage)

(***************************************************************************)
(* Two pages of the same listing, ordered by the key, share no row when    *)
(* the table does not change between them: paging shows a row once.        *)
(***************************************************************************)
PagesShareNothing ==
  \A r, q \in Calls :
    (/\ Settled(r) /\ Settled(q) /\ Still
     /\ query[r].order = Key
     /\ [query[r] EXCEPT !.page = 1] = [query[q] EXCEPT !.page = 1]
     /\ query[r].page # query[q].page /\ query[r].perPage # Undefined)
    => ToSet(answer[r].data) \cap ToSet(answer[q].data) = {}

(***************************************************************************)
(* A column that the settings exclude is not shown in a listing, whatever  *)
(* the cache, unless they leave no column at all or list one twice: what   *)
(* findAvaliableFields cuts out of the list is one place of it.            *)
(***************************************************************************)
ExcludedIsNotShown ==
  \A r \in Calls :
    (/\ Listed(r) /\ want[r].referenced = Undefined /\ query[r].available # <<>>
     /\ ListedOnce(settings))
      => answer[r].shown \cap settings.excluded_fields = {}

\* Both: a listing shows the rows that were asked for, and the columns that may
\* be seen.
ListingIsAsAsked == FiltersHold /\ ExcludedIsNotShown

\* Both: the pages of a listing are as many and as long as is answered with
\* them, and no row is on two of them.
PagesAreRight == PageFitsTotal /\ PagesShareNothing

(***************************************************************************)
(* A cell of a foreign key whose row exists is answered with the identity  *)
(* of that row.  It holds for the first key that refers to a table.        *)
(***************************************************************************)
ReferencesResolve ==
  \A r \in Calls : \A k \in DOMAIN ForeignKeys :
    (Listed(r) /\ \A j \in DOMAIN ForeignKeys : ForeignKeys[j].table = ForeignKeys[k].table => k <= j)
      => answer[r].refs[k] =
           CellsOf(r, ForeignKeys[k].column) \cap Referenced[ForeignKeys[k].table]

(***************************************************************************)
(* The key answered to an INSERT is that of the row that it inserted: the  *)
(* statement returns it, or the one session of the SSH driver inserted     *)
(* nothing in between.  Where the pool has several sessions it may be that *)
(* of another row (mysql, oracle).                                         *)
(***************************************************************************)
AnsweredKeyIsAdded ==
  \A r \in Calls :
    (/\ want[r].op = "add" /\ reply[r] = "ok"
     /\ \/ dialect \in {"postgres", "mssql"}
        \/ dialect = "mysql_ssh" /\ r \notin changed)
    => answer[r].key = added[r]
=============================================================================
