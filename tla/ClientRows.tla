----------------------------- MODULE ClientRows ------------------------------
(***************************************************************************)
(* The pages of the Angular client on which rows are listed, added,        *)
(* changed and deleted, in one tab of a browser: the list of connections,  *)
(* the dashboard of a connection with and without a table, and the form of *)
(* one row.                                                                *)
(*                                                                         *)
(* The router keeps the component when only the parameters of its route    *)
(* change, and makes a new one otherwise.  A component takes connection    *)
(* and table from the services when it is made, the services take them     *)
(* from the address at the end of every navigation, and answers come in    *)
(* any order, to components that are gone as well.  What a request does in *)
(* the backend is in other modules: here it is answered, or it fails.      *)
(***************************************************************************)
EXTENDS FiniteSets, Naturals

CONSTANTS Conns,        \* connections
          Tables,       \* table names; each connection has all of them
          FirstTable,   \* the one that is listed first
          Keys,         \* primary keys of rows
          None,         \* no connection, table or key; the key of a row to be added
          MaxAsked      \* requests under way when the user starts another, at most

ASSUME FirstTableAssumption == FirstTable \in Tables
ASSUME NoneAssumption == None \notin Conns \union Tables \union Keys
ASSUME MaxAskedAssumption == MaxAsked \in Nat \ {0}

VARIABLES page,         \* the address; the services hold its connection and table
          neighbour,    \* the page next to it in the history of the browser
          view,         \* the component in the outlet of the router
          dialog,       \* the dialog that confirms the deletion of a row
          asked         \* requests that were sent and not answered

vars == <<page, neighbour, view, dialog, asked>>

Address(kind, c, t, k) == [kind |-> kind, conn |-> c, table |-> t, key |-> k]
Connections     == Address("list", None, None, None)
Dash(c)         == Address("dash", c, None, None)
TablePage(c, t) == Address("table", c, t, None)
Entry(c, t, k)  == Address("entry", c, t, k)

Pages == {Connections} \union {Dash(c) : c \in Conns}
           \union {TablePage(c, t) : c \in Conns, t \in Tables}
           \union {Entry(c, t, k) : c \in Conns, t \in Tables, k \in Keys \union {None}}

\* rows and form hold what the user sees, <<connection, table>> of the rows and
\* <<connection, table, key>> of the row.  doubt is history: what has happened
\* since, that may make it something else than the component takes it for.
Nothing  == <<>>
NoView   == [kind |-> "none"]
NoDialog == [open |-> FALSE]

NewDashboard(c) == [kind |-> "dashboard", conn |-> c, name |-> None, tables |-> "asked",
                    rows |-> Nothing, spinner |-> FALSE, doubt |-> {}]
NewEntry(p) == [kind |-> "row", conn |-> p.conn, name |-> p.table, key |-> p.key, form |-> Nothing,
                loading |-> TRUE, submitting |-> FALSE, doubt |-> {}]

\* to is the key of the row after an update, stay whether to continue editing,
\* live whether what sent the request is still there.
Request(kind, c, t, k) == [kind |-> kind, conn |-> c, table |-> t, key |-> k,
                           to |-> None, stay |-> FALSE, live |-> TRUE]

Loads(requests) == {a \in requests : a.kind \in {"row", "structure"}}
LoadOf(v, k)    == Request(IF k = None THEN "structure" ELSE "row", v.conn, v.name, k)
-----------------------------------------------------------------------------
(***************************************************************************)
(* The components, as functions of what they were and of the requests that *)
(* are still under way.                                                    *)
(***************************************************************************)
\* Mutant: nothing covers the rows of the old table while the new ones are read.
WithTableUncovered(v, t, rest) == [v EXCEPT !.name = t]

\* setTable and getRows.
WithTable(v, t, rest) ==
  LET others == {a \in rest : a.kind = "rows" /\ a.table # t}
  IN  [v EXCEPT !.name = t, !.spinner = TRUE,
                !.doubt = IF others = {} THEN @ ELSE @ \union {"overlap"}]
RowsOf(v, t) == Request("rows", v.conn, t, None)

\* Mutant: the key of the row is taken once.
WithKeyOnce(v, k, rest, own) ==
  [v EXCEPT !.key = IF @ = None /\ k # None THEN k ELSE @,
            !.doubt = @ \union (IF own THEN {} ELSE {"moved"})
                        \union (IF Loads(rest) = {} THEN {} ELSE {"overlap"})]

\* The subscription to the query: the key is taken only when there is one.
WithKey(v, k, rest, own) ==
  [v EXCEPT !.key = IF k = None THEN @ ELSE k,
            !.doubt = @ \union (IF own THEN {} ELSE {"moved"})
                        \union (IF Loads(rest) = {} THEN {} ELSE {"overlap"})]

\* A dashboard that is kept on a page of another connection.
Pulled(v, p) == IF v.kind = "dashboard" /\ p.conn # v.conn
                THEN [v EXCEPT !.doubt = @ \union {"pulled"}] ELSE v

\* A request outlives its component.  What it does then is done to a component
\* nobody sees, but for these: they change the address.
Orphans(requests) ==
  {[a EXCEPT !.live = FALSE] : a \in {b \in requests :
     b.kind \in {"add", "update"} \/ (b.kind = "tables" /\ (b.live => page.kind = "dash"))}}
    \union {a \in requests : a.kind = "delete"}

\* router.navigate, and what follows the end of the navigation.
Mount(p, rest) ==
  /\ view' = CASE p.kind = "list"            -> NoView
               [] p.kind \in {"dash", "table"} -> NewDashboard(p.conn)
               [] p.kind = "entry"           -> NewEntry(p)
  /\ asked' = Orphans(rest) \union
               CASE p.kind = "list"            -> {}
                 [] p.kind \in {"dash", "table"} -> {Request("tables", p.conn, None, None)}
                 [] p.kind = "entry"           -> {LoadOf(NewEntry(p), p.key)}
Reuse(p, v, rest, own) ==
  \/ /\ p.kind = "table" /\ v.tables = "got"
     /\ view' = WithTable(Pulled(v, p), p.table, rest)
     /\ asked' = rest \union {RowsOf(v, p.table)}
  \/ /\ p.kind = "entry" /\ p.key # page.key
     /\ view' = WithKey(v, p.key, rest, own)
     /\ asked' = rest \union {LoadOf(v, p.key)}
  \/ /\ \/ p.kind = "dash"
        \/ p.kind = "table" /\ v.tables # "got"
        \/ p.kind = "entry" /\ p.key = page.key
     /\ view' = Pulled(v, p)
     /\ asked' = rest
\* The address that is there already is not navigated to.
Navigate(p, v, rest, own) ==
  /\ page' = p
  /\ IF p = page THEN view' = v /\ asked' = rest
     ELSE IF p.kind = page.kind THEN Reuse(p, v, rest, own)
     ELSE Mount(p, rest)

Room == Cardinality(asked') <= MaxAsked
-----------------------------------------------------------------------------
(***************************************************************************)
(* What the user does.  An open dialog covers the links, not the buttons   *)
(* of the browser, which close it.                                         *)
(***************************************************************************)
Follow(p) ==
  /\ dialog = NoDialog /\ p # page
  /\ Navigate(p, view, asked, FALSE)
  /\ neighbour' = page
  /\ Room
  /\ UNCHANGED dialog

OpenConnection == \E c \in Conns : page.kind = "list" /\ Follow(Dash(c))
OpenList       == Follow(Connections)
\* The breadcrumbs take the connection and the table from the services.
OpenBreadcrumb ==
  \/ page.conn # None /\ Follow(Dash(page.conn))
  \/ page.table # None /\ Follow(TablePage(page.conn, page.table))
\* The links of a component take them from the component.
OpenTable == view.kind = "dashboard" /\ view.tables = "got"
               /\ \E t \in Tables : Follow(TablePage(view.conn, t))
\* A row that is listed, or that a foreign key of it refers to.
OpenRow == view.kind = "dashboard" /\ view.rows # Nothing /\ ~view.spinner
               /\ \E t \in Tables, k \in Keys : Follow(Entry(view.conn, t, k))
OpenNewRow == view.kind = "dashboard" /\ view.rows # Nothing
               /\ Follow(Entry(view.conn, view.name, None))
LeaveRow == view.kind = "row" /\ Follow(TablePage(view.conn, view.name))

GoBack ==
  /\ neighbour # page
  /\ Navigate(neighbour, view,
              {[a EXCEPT !.live = @ /\ a.kind # "delete"] : a \in asked}, FALSE)
  /\ neighbour' = page
  /\ dialog' = NoDialog
  /\ Room

\* Search and filters go to the address of the component, sorting and pages stay;
\* all read rows of its table again.  The spinner does not cover them.
Refine ==
  /\ dialog = NoDialog
  /\ view.kind = "dashboard" /\ view.tables = "got" /\ view.name # None
  /\ \E p \in {page, TablePage(view.conn, view.name)} :
       Navigate(p, WithTable(view, view.name, asked), asked \union {RowsOf(view, view.name)}, FALSE)
  /\ neighbour' = IF page' = page THEN neighbour ELSE page
  /\ Room
  /\ UNCHANGED dialog

\* confirmDeleteRow, and ngOnInit of the dialog.
ClickDelete ==
  /\ dialog = NoDialog
  /\ view.kind = "dashboard" /\ view.rows # Nothing /\ ~view.spinner
  /\ \E k \in Keys :
       dialog' = [open |-> TRUE, conn |-> page.conn, table |-> page.table, key |-> k,
                  submitting |-> FALSE, shown |-> view.rows, doubt |-> view.doubt]
  /\ UNCHANGED <<page, neighbour, view, asked>>
CancelDelete ==
  /\ dialog.open
  /\ dialog' = NoDialog
  /\ asked' = {[a EXCEPT !.live = @ /\ a.kind # "delete"] : a \in asked}
  /\ UNCHANGED <<page, neighbour, view>>
ConfirmDelete ==
  /\ dialog.open /\ ~dialog.submitting
  /\ dialog' = [dialog EXCEPT !.submitting = TRUE]
  /\ asked' = asked \union {Request("delete", dialog.conn, dialog.table, dialog.key)}
  /\ Room
  /\ UNCHANGED <<page, neighbour, view>>

\* The form updates when it has a key, and adds when it has none.
SubmitRow ==
  /\ dialog = NoDialog
  /\ view.kind = "row" /\ view.form # Nothing /\ ~view.submitting
  /\ view' = [view EXCEPT !.submitting = TRUE]
  /\ \E stay \in BOOLEAN, k \in Keys :
       LET a == Request(IF view.key = None THEN "add" ELSE "update", view.conn, view.name, view.key)
       IN  asked' = asked \union {[a EXCEPT !.stay = stay, !.to = k]}
  /\ Room
  /\ UNCHANGED <<page, neighbour, dialog>>
-----------------------------------------------------------------------------
(***************************************************************************)
(* The answers.                                                            *)
(***************************************************************************)
Stays == UNCHANGED <<page, neighbour, dialog>>

\* ngOnInit of the dashboard, after getTables: the first value of paramMap.  A
\* dashboard that is gone still goes to its first table.
TablesAnswered(a) ==
  /\ a.kind = "tables"
  /\ \/ /\ a.live /\ page.kind = "table"
        /\ view' = WithTable([view EXCEPT !.tables = "got"], page.table, asked \ {a})
        /\ asked' = (asked \ {a}) \union {RowsOf(view, page.table)}
        /\ Stays
     \/ /\ a.live => page.kind = "dash"
        /\ LET v == IF a.live THEN [view EXCEPT !.tables = "got"] ELSE view
           IN  Navigate(TablePage(a.conn, FirstTable), v, asked \ {a}, FALSE)
        /\ UNCHANGED <<neighbour, dialog>>
TablesFailed(a) ==
  /\ a.kind = "tables"
  /\ view' = IF a.live THEN [view EXCEPT !.tables = "failed"] ELSE view
  /\ asked' = asked \ {a}
  /\ Stays

\* fetchRows: the last answer is shown, whatever it answers, and each one stops
\* the spinner.
RowsAnswered(a) ==
  /\ a.kind = "rows"
  /\ LET settled == a.table = view.name /\ {b \in asked \ {a} : b.kind = "rows"} = {}
     IN  view' = [view EXCEPT !.rows = <<a.conn, a.table>>, !.spinner = FALSE,
                              !.doubt = IF settled THEN @ \ {"overlap", "failed"} ELSE @]
  /\ asked' = asked \ {a}
  /\ Stays
\* Mutant: only an answer stops the spinner.
RowsFailedSpinning(a) ==
  /\ a.kind = "rows"
  /\ view' = [view EXCEPT !.doubt = @ \union {"failed"}]
  /\ asked' = asked \ {a}
  /\ Stays

\* The rows that were there stay.
RowsFailed(a) ==
  /\ a.kind = "rows"
  /\ view' = [view EXCEPT !.spinner = FALSE, !.doubt = @ \union {"failed"}]
  /\ asked' = asked \ {a}
  /\ Stays

LoadAnswered(a) ==
  /\ a.kind \in {"row", "structure"}
  /\ view' = [view EXCEPT !.form = <<a.conn, a.table, a.key>>, !.loading = FALSE,
                          !.doubt = IF a.key = view.key /\ Loads(asked \ {a}) = {}
                                    THEN @ \ {"moved", "overlap"} ELSE @]
  /\ asked' = asked \ {a}
  /\ Stays
\* A row that cannot be read is reported; fetchTableStructure ends without a
\* word, and nobody stops the spinner.
LoadFailed(a) ==
  /\ a.kind \in {"row", "structure"}
  /\ view' = IF a.kind = "row" THEN [view EXCEPT !.loading = FALSE]
             ELSE [view EXCEPT !.doubt = @ \union {"no structure"}]
  /\ asked' = asked \ {a}
  /\ Stays

\* Where a change leads, and the row that the form shows then.
After(a) == IF a.stay THEN Entry(a.conn, a.table, a.to) ELSE TablePage(a.conn, a.table)
Own(a)   == a.live /\ view.key = a.key
Renamed(a) == IF view.form = <<a.conn, a.table, a.key>> THEN <<a.conn, a.table, a.to>> ELSE view.form

\* addRow: the key of the new row is the server's.
AddAnswered(a) ==
  /\ a.kind = "add"
  /\ LET v == IF a.live THEN [view EXCEPT !.key = a.to, !.form = Renamed(a), !.submitting = FALSE]
              ELSE view
     IN  Navigate(After(a), v, asked \ {a}, Own(a))
  /\ neighbour' = IF page' = page THEN neighbour ELSE page
  /\ UNCHANGED dialog
\* updateRow: an update that continues goes to the new key; where the key is as
\* it was, this depends on whether a field of the key was ever touched.
UpdateAnswered(a) ==
  /\ a.kind = "update"
  /\ LET v    == IF a.live THEN [view EXCEPT !.form = Renamed(a), !.submitting = FALSE] ELSE view
         same == a.stay /\ a.to = a.key
     IN  \E p \in {After(a)} \union (IF same THEN {page} ELSE {}) : Navigate(p, v, asked \ {a}, Own(a))
  /\ neighbour' = IF page' = page THEN neighbour ELSE page
  /\ UNCHANGED dialog
SubmitFailed(a) ==
  /\ a.kind \in {"add", "update"}
  /\ view' = IF a.live THEN [view EXCEPT !.submitting = FALSE] ELSE view
  /\ asked' = asked \ {a}
  /\ Stays

\* deleteTableRow tells every dashboard, which reads its rows again.
DeleteAnswered(a) ==
  /\ a.kind = "delete"
  /\ IF view.kind = "dashboard" /\ view.tables = "got" /\ view.name # None
     THEN /\ view' = WithTable(view, view.name, asked)
          /\ asked' = (asked \ {a}) \union {RowsOf(view, view.name)}
     ELSE view' = view /\ asked' = asked \ {a}
  /\ dialog' = IF a.live THEN NoDialog ELSE dialog
  /\ UNCHANGED <<page, neighbour>>
DeleteFailed(a) ==
  /\ a.kind = "delete"
  /\ asked' = asked \ {a}
  /\ dialog' = IF a.live THEN [dialog EXCEPT !.submitting = FALSE] ELSE dialog
  /\ UNCHANGED <<page, neighbour, view>>

Answer == \E a \in asked :
  \/ TablesAnswered(a) \/ TablesFailed(a) \/ RowsAnswered(a) \/ RowsFailed(a)
  \/ LoadAnswered(a) \/ LoadFailed(a)
  \/ AddAnswered(a) \/ UpdateAnswered(a) \/ SubmitFailed(a)
  \/ DeleteAnswered(a) \/ DeleteFailed(a)
-----------------------------------------------------------------------------
Init ==
  /\ page = Connections /\ neighbour = Connections
  /\ view = NoView /\ dialog = NoDialog
  /\ asked = {}

User == \/ OpenConnection \/ OpenList \/ OpenBreadcrumb \/ OpenTable \/ OpenRow \/ OpenNewRow \/ LeaveRow
        \/ GoBack \/ Refine \/ ClickDelete \/ CancelDelete \/ ConfirmDelete \/ SubmitRow
Next == User \/ Answer
\* The backend answers every request, with 408 if it must.
Spec == Init /\ [][Next]_vars /\ WF_vars(Answer)

\* A request to delete a row is about the row that was clicked on, of the
\* connection and the table it was listed from - unless rows of two tables were
\* under way at once, those of the new table failed, or the dashboard was kept
\* on a page of another connection.  The key comes from the rows shown and the
\* rest from the address (db-row-delete-dialog.component.ts:26-28).
DeletesTheRowShown ==
  [][\A a \in asked' \ asked : a.kind = "delete" /\ a.live =>
       dialog.shown = <<a.conn, a.table>> \/ dialog.doubt # {}]_vars

\* A row is saved under its own key: what the form shows is the row that the
\* update names, also after adding with "continue" and after its key was
\* changed - unless the user moved between two rows without leaving the form,
\* and the one moved to has not been shown since.  Values and key arrive at
\* different times (db-table-row-edit.component.ts:82 and :89).
SavesTheRowShown ==
  [][\A a \in asked' \ asked : a.kind = "update" /\ a.live =>
       view.form = <<a.conn, a.table, a.key>> \/ view.doubt \intersect {"moved", "overlap"} # {}]_vars

Loading == \/ view.kind = "dashboard" /\ (view.tables = "asked" \/ view.spinner)
           \/ view.kind = "row" /\ view.loading
\* When the user waits, every page stops loading, whatever fails and whichever
\* answer comes last - but the form of a new row whose structure cannot be read
\* (tables.service.ts:150, db-table-row-edit.component.ts:63).
PagesSettle == <>[][Answer]_vars => <>[](~Loading \/ "no structure" \in view.doubt)
=============================================================================
