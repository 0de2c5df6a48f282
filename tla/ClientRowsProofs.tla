-------------------------- MODULE ClientRowsProofs --------------------------
(***************************************************************************)
(* What the client deletes and saves is the row it shows, for any number   *)
(* of connections, tables, rows and requests under way; and, at the end,   *)
(* what the data access objects answer when rows are listed and added.     *)
(*                                                                         *)
(* The parts of the invariant are operators of an address, a component and *)
(* a set of requests, so that what Navigate does to them is said once, for *)
(* every component and every set of requests it is called with.            *)
(***************************************************************************)
EXTENDS ClientRows, RowQueries, SequenceTheorems, FiniteSetTheorems, WellFoundedInduction, TLAPS

Dashboards ==
  [kind : {"dashboard"}, conn : Conns, name : Tables \union {None},
   tables : {"asked", "got", "failed"}, rows : {Nothing} \union (Conns \X Tables),
   spinner : BOOLEAN, doubt : SUBSET {"overlap", "failed", "pulled"}]
Forms ==
  [kind : {"row"}, conn : Conns, name : Tables, key : Keys \union {None},
   form : {Nothing} \union (Conns \X Tables \X (Keys \union {None})),
   loading : BOOLEAN, submitting : BOOLEAN, doubt : SUBSET {"moved", "overlap", "no structure"}]
Views == {NoView} \union Dashboards \union Forms

Requests == [kind : {"tables", "rows", "row", "structure", "add", "update", "delete"},
             conn : Conns, table : Tables \union {None}, key : Keys \union {None},
             to : Keys \union {None}, stay : BOOLEAN, live : BOOLEAN]

Dialogs == {NoDialog}
  \union [open : {TRUE}, conn : Conns, table : Tables, key : Keys, submitting : BOOLEAN,
          shown : Conns \X Tables, doubt : SUBSET {"overlap", "failed", "pulled"}]

\* The component in the outlet is the one of the page.
KindsAgree(p, v) ==
  /\ p.kind = "list" <=> v.kind = "none"
  /\ p.kind \in {"dash", "table"} <=> v.kind = "dashboard"
  /\ p.kind = "entry" <=> v.kind = "row"

\* The requests of the component are about what it is about.
Belong(v, r) == \A a \in r :
  /\ a.kind = "rows" => v.kind = "dashboard" /\ a.conn = v.conn /\ v.name \in Tables /\ a.table \in Tables
  /\ a.kind \in {"row", "structure"} => v.kind = "row" /\ a.conn = v.conn /\ a.table = v.name
  /\ a.kind \in {"add", "update"} => a.table \in Tables /\ a.to \in Keys
  /\ a.kind \in {"add", "update"} /\ a.live => v.kind = "row" /\ a.conn = v.conn /\ a.table = v.name
  /\ a.kind = "tables" /\ a.live =>
       v.kind = "dashboard" /\ v.tables = "asked" /\ a = Request("tables", v.conn, None, None)

Typed(p, v, r) == p \in Pages /\ v \in Views /\ r \subseteq Requests
Base(p, v, r)  == Typed(p, v, r) /\ KindsAgree(p, v) /\ Belong(v, r)

\* The dashboard takes its table from the address, and its connection as long
\* as it was not kept on a page of another one.
DashboardAt(p, v) == v.kind = "dashboard" =>
  /\ v.name # None => v.tables = "got" /\ p.kind = "table" /\ p.table = v.name
  /\ "pulled" \notin v.doubt => p.conn = v.conn
\* The rows it shows, and those it will show, are those of its table.
RowsFit(v, r) == v.kind = "dashboard" =>
  /\ v.rows # Nothing => v.name # None
  /\ "overlap" \notin v.doubt => \A a \in r : a.kind = "rows" => a.table = v.name
  /\ v.rows # Nothing /\ ~v.spinner /\ v.doubt \intersect {"overlap", "failed"} = {} =>
       v.rows = <<v.conn, v.name>>
DashboardOK(p, v, r) == DashboardAt(p, v) /\ RowsFit(v, r)

\* So for the form and the row it shows.
FormOK(p, v, r) == v.kind = "row" =>
  /\ p.key # None => v.key = p.key
  /\ v.doubt \intersect {"moved", "overlap"} = {} =>
       /\ v.form # Nothing => v.form = <<v.conn, v.name, v.key>>
       /\ \A a \in Loads(r) : a.key = v.key

DialogOK == dialog.open =>
  (dialog.doubt = {} => dialog.shown = <<dialog.conn, dialog.table>>)

TypeOK == Typed(page, view, asked) /\ neighbour \in Pages /\ dialog \in Dialogs
ViewOK == Base(page, view, asked) /\ DashboardOK(page, view, asked) /\ FormOK(page, view, asked)
IInv   == TypeOK /\ ViewOK /\ DialogOK

\* What a step may send.
DeleteIsShown(a) == dialog.shown = <<a.conn, a.table>> \/ dialog.doubt # {}
SaveIsShown(a) ==
  view.form = <<a.conn, a.table, a.key>> \/ view.doubt \intersect {"moved", "overlap"} # {}
StepOK == \A a \in asked' \ asked :
  /\ a.kind = "delete" /\ a.live => DeleteIsShown(a)
  /\ a.kind = "update" /\ a.live => SaveIsShown(a)
-----------------------------------------------------------------------------
(***************************************************************************)
(* Addresses, components and requests are what they are made of.           *)
(***************************************************************************)
LEMMA PageMade ==
  /\ Connections \in Pages
  /\ \A c \in Conns : Dash(c) \in Pages
  /\ \A c \in Conns, t \in Tables : TablePage(c, t) \in Pages
  /\ \A c \in Conns, t \in Tables, k \in Keys \union {None} : Entry(c, t, k) \in Pages
BY DEF Pages

LEMMA PageFields ==
  ASSUME NEW p \in Pages
  PROVE  /\ p.kind \in {"list", "dash", "table", "entry"}
         /\ p.kind = "list" => p.conn = None /\ p.table = None /\ p.key = None
         /\ p.kind = "dash" => p.conn \in Conns /\ p.table = None /\ p.key = None
         /\ p.kind = "table" => p.conn \in Conns /\ p.table \in Tables /\ p.key = None
         /\ p.kind = "entry" => p.conn \in Conns /\ p.table \in Tables /\ p.key \in Keys \union {None}
BY DEF Pages, Connections, Dash, TablePage, Entry, Address

LEMMA ViewFields ==
  ASSUME NEW v \in Views
  PROVE  /\ v.kind = "none" => v = NoView
         /\ v.kind = "dashboard" => v \in Dashboards
         /\ v.kind = "row" => v \in Forms
<1>1. CASE v = NoView
  BY <1>1 DEF NoView
<1>2. CASE v \in Dashboards
  <2>1. v.kind = "dashboard"
    BY <1>2 DEF Dashboards
  <2>2. QED
    BY <1>2, <2>1
<1>3. CASE v \in Forms
  <2>1. v.kind = "row"
    BY <1>3 DEF Forms
  <2>2. QED
    BY <1>3, <2>1
<1>4. QED
  BY <1>1, <1>2, <1>3 DEF Views

LEMMA RequestMade ==
  ASSUME NEW k \in {"tables", "rows", "row", "structure", "add", "update", "delete"},
         NEW c \in Conns, NEW t \in Tables \union {None}, NEW x \in Keys \union {None}
  PROVE  Request(k, c, t, x) \in Requests
BY DEF Request, Requests

LEMMA WithTableMade ==
  ASSUME NEW v \in Dashboards, NEW t \in Tables, NEW rest
  PROVE  LET w == WithTable(v, t, rest)
         IN  /\ w \in Dashboards
             /\ w.kind = v.kind /\ w.conn = v.conn /\ w.name = t /\ w.tables = v.tables
             /\ w.rows = v.rows /\ w.spinner
             /\ v.doubt \subseteq w.doubt
             /\ "pulled" \in w.doubt <=> "pulled" \in v.doubt
             /\ "overlap" \notin w.doubt => \A a \in rest : a.kind = "rows" => a.table = t
BY DEF WithTable, Dashboards

LEMMA PulledMade ==
  ASSUME NEW v \in Views, NEW p
  PROVE  LET w == Pulled(v, p)
         IN  /\ w \in Views /\ w.kind = v.kind
             /\ v.kind # "dashboard" => w = v
             /\ v.kind = "dashboard" =>
                  /\ w.conn = v.conn /\ w.name = v.name /\ w.tables = v.tables
                  /\ w.rows = v.rows /\ w.spinner = v.spinner
                  /\ v.doubt \subseteq w.doubt
                  /\ "overlap" \in w.doubt <=> "overlap" \in v.doubt
                  /\ "failed" \in w.doubt <=> "failed" \in v.doubt
                  /\ "pulled" \notin w.doubt => p.conn = v.conn
<1>1. CASE v.kind = "dashboard" /\ p.conn # v.conn
  BY <1>1, ViewFields DEF Pulled, Views, Dashboards
<1>2. CASE ~(v.kind = "dashboard" /\ p.conn # v.conn)
  BY <1>2 DEF Pulled
<1>3. QED
  BY <1>1, <1>2

LEMMA OrphansMade ==
  ASSUME NEW rest \in SUBSET Requests, NEW v, Belong(v, rest), NEW o \in Orphans(rest)
  PROVE  /\ o \in Requests
         /\ o.kind \in {"tables", "add", "update", "delete"}
         /\ o.kind = "delete" => o \in rest
         /\ o.kind # "delete" => ~o.live
         /\ o.kind \in {"add", "update"} => o.table \in Tables /\ o.to \in Keys
<1>1. CASE o \in rest /\ o.kind = "delete"
  BY <1>1
<1>2. ASSUME NEW b \in rest, b.kind \in {"add", "update", "tables"}, o = [b EXCEPT !.live = FALSE]
      PROVE  /\ o \in Requests /\ o.kind = b.kind /\ ~o.live
             /\ o.kind \in {"add", "update"} => o.table \in Tables /\ o.to \in Keys
  BY <1>2 DEF Requests, Belong
<1>3. QED
  BY <1>1, <1>2 DEF Orphans

\* Requests that are left behind are nobody's.
LEMMA OrphansBelong ==
  ASSUME NEW rest \in SUBSET Requests, NEW v, Belong(v, rest), NEW w
  PROVE  Belong(w, Orphans(rest))
BY OrphansMade DEF Belong

(***************************************************************************)
(* What a navigation does to the component v and the requests rest it      *)
(* finds: own is said only of one that follows the row the form shows.     *)
(***************************************************************************)
NoNewDelete(r, s) == \A a \in s \ r : a.live => a.kind \notin {"delete", "update"}

LEMMA MountKeeps ==
  ASSUME NEW p \in Pages, NEW v, NEW rest \in SUBSET Requests, Belong(v, rest),
         page' = p, Mount(p, rest)
  PROVE  /\ Base(page', view', asked') /\ DashboardOK(page', view', asked')
         /\ FormOK(page', view', asked')
         /\ NoNewDelete(rest, asked')
<1> DEFINE O == Orphans(rest)
<1>o. /\ O \subseteq Requests
      /\ \A o \in O : o.kind \notin {"rows", "row", "structure"}
      /\ NoNewDelete(rest, O)
  BY OrphansMade DEF NoNewDelete
<1>b. \A w : Belong(w, O)
  BY OrphansBelong
<1> HIDE DEF O
<1>1. CASE p.kind = "list"
  <2>1. view' = NoView /\ asked' = O
    BY <1>1 DEF Mount, O
  <2>2. view'.kind = "none"
    BY <2>1 DEF NoView
  <2>3. QED
    BY <1>1, <1>o, <1>b, <2>1, <2>2
    DEF Base, Typed, KindsAgree, Views, DashboardOK, DashboardAt, RowsFit, FormOK
<1>2. CASE p.kind \in {"dash", "table"}
  <2> DEFINE q == Request("tables", p.conn, None, None)
             d == NewDashboard(p.conn)
  <2>1. view' = d /\ asked' = O \union {q}
    BY <1>2 DEF Mount, O
  <2>2. q \in Requests /\ q.kind = "tables" /\ q.live
    BY <1>2, PageFields, RequestMade DEF Request
  <2>3. /\ d \in Dashboards /\ d.kind = "dashboard" /\ d.conn = p.conn /\ d.name = None
        /\ d.tables = "asked" /\ d.rows = Nothing
    BY <1>2, PageFields DEF NewDashboard, Dashboards
  <2> HIDE DEF d
  <2>4. Belong(d, {q})
    BY <2>2, <2>3 DEF Belong
  <2>q. NoNewDelete(rest, O \union {q})
    BY <1>o, <2>2 DEF NoNewDelete
  <2> HIDE DEF q
  <2>5. Base(page', view', asked')
    BY <1>2, <1>o, <1>b, <2>1, <2>2, <2>3, <2>4 DEF Base, Typed, KindsAgree, Views, Belong
  <2>6. DashboardOK(page', view', asked') /\ FormOK(page', view', asked')
    BY <1>2, <1>o, <2>1, <2>2, <2>3 DEF DashboardOK, DashboardAt, RowsFit, FormOK
  <2>7. QED
    BY <2>1, <2>q, <2>5, <2>6
<1>3. CASE p.kind = "entry"
  <2> DEFINE e == NewEntry(p)
             q == LoadOf(e, p.key)
  <2>1. view' = e /\ asked' = O \union {q}
    BY <1>3 DEF Mount, O
  <2>2. /\ e \in Forms /\ e.kind = "row" /\ e.conn = p.conn /\ e.name = p.table /\ e.key = p.key
        /\ e.form = Nothing
    BY <1>3, PageFields DEF NewEntry, Forms
  <2> HIDE DEF e
  <2>3. /\ q \in Requests /\ q.kind \in {"row", "structure"} /\ q.conn = p.conn
        /\ q.table = p.table /\ q.key = p.key
    BY <1>3, <2>2, PageFields, RequestMade DEF LoadOf, Request
  <2> HIDE DEF q
  <2>4. Belong(e, {q})
    BY <2>2, <2>3 DEF Belong
  <2>q. NoNewDelete(rest, O \union {q})
    BY <1>o, <2>3 DEF NoNewDelete
  <2>5. Base(page', view', asked')
    BY <1>3, <1>o, <1>b, <2>1, <2>2, <2>3, <2>4 DEF Base, Typed, KindsAgree, Views, Belong
  <2>6. DashboardOK(page', view', asked') /\ FormOK(page', view', asked')
    BY <1>3, <1>o, <2>1, <2>2, <2>3 DEF DashboardOK, DashboardAt, RowsFit, FormOK, Loads
  <2>7. QED
    BY <2>1, <2>q, <2>5, <2>6
<1>4. QED
  BY <1>1, <1>2, <1>3, PageFields

\* Rows are read again, of the table of the address.
LEMMA ReadKeeps ==
  ASSUME NEW p \in Pages, NEW v \in Views, NEW rest \in SUBSET Requests, NEW t \in Tables, NEW r,
         p.kind = "table" /\ p.table = t, v.kind = "dashboard", v.tables = "got",
         Belong(v, r), r \subseteq Requests,
         \A a \in r \ rest : a.kind = "rows" => a.table = t,
         v.rows # Nothing => v.name # None,
         "pulled" \notin v.doubt => p.conn = v.conn
  PROVE  LET w == WithTable(v, t, rest)
             s == r \union {RowsOf(v, t)}
         IN  Base(p, w, s) /\ DashboardOK(p, w, s) /\ FormOK(p, w, s) /\ NoNewDelete(r, s)
<1> DEFINE w == WithTable(v, t, rest)
           q == RowsOf(v, t)
<1>1. v \in Dashboards
  BY ViewFields
<1>2. /\ w \in Dashboards /\ w.kind = "dashboard" /\ w.conn = v.conn /\ w.name = t
      /\ w.tables = "got" /\ w.spinner
      /\ "pulled" \in w.doubt <=> "pulled" \in v.doubt
      /\ "overlap" \notin w.doubt => \A a \in rest : a.kind = "rows" => a.table = t
  BY <1>1, WithTableMade
<1>3. q \in Requests /\ q.kind = "rows" /\ q.conn = v.conn /\ q.table = t
  BY <1>1, RequestMade DEF RowsOf, Request, Dashboards
<1> HIDE DEF w, q
<1>4. Belong(w, r \union {q})
  BY <1>2, <1>3 DEF Belong
<1>5. Base(p, w, r \union {q})
  BY <1>2, <1>3, <1>4 DEF Base, Typed, KindsAgree, Views
<1>6. DashboardOK(p, w, r \union {q}) /\ FormOK(p, w, r \union {q})
  BY <1>2, <1>3, NoneAssumption DEF DashboardOK, DashboardAt, RowsFit, FormOK
<1>7. NoNewDelete(r, r \union {q})
  BY <1>3 DEF NoNewDelete
<1>8. QED
  BY <1>5, <1>6, <1>7 DEF w, q

LEMMA ReuseKeeps ==
  ASSUME NEW p \in Pages, NEW v \in Views, NEW rest \in SUBSET Requests, NEW own \in BOOLEAN,
         Base(page, v, rest), DashboardOK(page, v, rest),
         p.kind = page.kind,
         p.key = page.key => FormOK(page, v, rest),
         own /\ p.key # page.key =>
           /\ p.key # None
           /\ v.kind = "row" /\ v.doubt \intersect {"moved", "overlap"} = {} /\ v.form # Nothing
                => v.form = <<v.conn, v.name, p.key>>,
         page' = p, Reuse(p, v, rest, own)
  PROVE  /\ Base(page', view', asked') /\ DashboardOK(page', view', asked')
         /\ FormOK(page', view', asked')
         /\ NoNewDelete(rest, asked')
<1> DEFINE w == Pulled(v, p)
<1>w. /\ w \in Views /\ w.kind = v.kind
      /\ v.kind # "dashboard" => w = v
      /\ v.kind = "dashboard" =>
           /\ w.conn = v.conn /\ w.name = v.name /\ w.tables = v.tables
           /\ w.rows = v.rows /\ w.spinner = v.spinner
           /\ v.doubt \subseteq w.doubt
           /\ "overlap" \in w.doubt <=> "overlap" \in v.doubt
           /\ "failed" \in w.doubt <=> "failed" \in v.doubt
           /\ "pulled" \notin w.doubt => p.conn = v.conn
  BY PulledMade
<1>k. Typed(page, v, rest) /\ KindsAgree(page, v) /\ Belong(v, rest)
  BY DEF Base
<1> HIDE DEF w
<1>1. CASE p.kind = "table" /\ v.tables = "got" /\ view' = WithTable(w, p.table, rest)
           /\ asked' = rest \union {RowsOf(v, p.table)}
  <2>1. v.kind = "dashboard"
    BY <1>1, <1>k DEF KindsAgree
  <2>2. RowsOf(v, p.table) = RowsOf(w, p.table)
    BY <1>w, <2>1 DEF RowsOf
  <2>3. Belong(w, rest)
    BY <1>w, <1>k, <2>1 DEF Belong
  <2>4. w.rows # Nothing => w.name # None
    BY <1>w, <2>1 DEF DashboardOK, RowsFit
  <2>5. p.table \in Tables
    BY <1>1, PageFields
  <2>6. QED
    BY <1>1, <1>w, <2>1, <2>2, <2>3, <2>4, <2>5, ReadKeeps
<1>2. CASE p.kind = "entry" /\ p.key # page.key /\ view' = WithKey(v, p.key, rest, own)
           /\ asked' = rest \union {LoadOf(v, p.key)}
  <2> DEFINE x == WithKey(v, p.key, rest, own)
             q == LoadOf(v, p.key)
  <2>1. v \in Forms /\ v.kind = "row" /\ p.key \in Keys \union {None}
    BY <1>2, <1>k, ViewFields, PageFields DEF KindsAgree
  <2>2. /\ x \in Forms
        /\ x.kind = "row" /\ x.conn = v.conn /\ x.name = v.name /\ x.form = v.form
        /\ p.key # None => x.key = p.key
        /\ v.doubt \subseteq x.doubt
        /\ "moved" \notin x.doubt => own
        /\ "overlap" \notin x.doubt => Loads(rest) = {}
    BY <2>1 DEF WithKey, Forms
  <2> HIDE DEF x
  <2>3. /\ q \in Requests /\ q.kind \in {"row", "structure"} /\ q.conn = v.conn
        /\ q.table = v.name /\ q.key = p.key
    BY <2>1, RequestMade DEF LoadOf, Request, Forms
  <2> HIDE DEF q
  <2>4. Base(p, x, rest \union {q})
    BY <1>2, <1>k, <2>1, <2>2, <2>3 DEF Base, Typed, KindsAgree, Views, Belong
  <2>5. DashboardOK(p, x, rest \union {q})
    BY <2>2 DEF DashboardOK, DashboardAt, RowsFit
  <2>6. FormOK(p, x, rest \union {q})
    <3>1. p.key # None => x.key = p.key
      BY <2>2
    <3>2. ASSUME x.doubt \intersect {"moved", "overlap"} = {}
          PROVE  /\ x.form # Nothing => x.form = <<x.conn, x.name, x.key>>
                 /\ \A a \in Loads(rest \union {q}) : a.key = x.key
      <4>1. own /\ Loads(rest) = {} /\ v.doubt \intersect {"moved", "overlap"} = {}
        BY <3>2, <2>2
      <4>2. p.key # None /\ x.key = p.key
        BY <1>2, <2>2, <4>1
      <4>3. x.form # Nothing => x.form = <<x.conn, x.name, x.key>>
        BY <1>2, <2>1, <2>2, <4>1, <4>2
      <4>4. \A a \in Loads(rest \union {q}) : a.key = x.key
        BY <2>3, <4>1, <4>2 DEF Loads
      <4>5. QED
        BY <4>3, <4>4
    <3>3. QED
      BY <3>1, <3>2 DEF FormOK
  <2>7. NoNewDelete(rest, rest \union {q})
    BY <2>3 DEF NoNewDelete
  <2>8. QED
    BY <1>2, <2>4, <2>5, <2>6, <2>7 DEF x, q
<1>3. CASE /\ \/ p.kind = "dash"
              \/ p.kind = "table" /\ v.tables # "got"
              \/ p.kind = "entry" /\ p.key = page.key
           /\ view' = w /\ asked' = rest
  <2>1. Belong(w, rest)
    BY <1>w, <1>k DEF Belong
  <2>2. Base(p, w, rest)
    BY <1>w, <1>k, <2>1 DEF Base, Typed, KindsAgree
  <2>3. DashboardOK(p, w, rest)
    BY <1>3, <1>w, PageFields DEF DashboardOK, DashboardAt, RowsFit
  <2>4. FormOK(p, w, rest)
    BY <1>3, <1>w, <1>k DEF FormOK, KindsAgree
  <2>5. NoNewDelete(rest, rest)
    BY DEF NoNewDelete
  <2>6. QED
    BY <1>3, <2>2, <2>3, <2>4, <2>5
<1>4. QED
  BY <1>1, <1>2, <1>3 DEF Reuse, w

LEMMA NavigateKeeps ==
  ASSUME NEW p \in Pages, NEW v \in Views, NEW rest \in SUBSET Requests, NEW own \in BOOLEAN,
         Base(page, v, rest), DashboardOK(page, v, rest),
         p.kind = page.kind /\ p.key = page.key => FormOK(page, v, rest),
         own /\ p.kind = page.kind /\ p.key # page.key =>
           /\ p.key # None
           /\ v.kind = "row" /\ v.doubt \intersect {"moved", "overlap"} = {} /\ v.form # Nothing
                => v.form = <<v.conn, v.name, p.key>>,
         Navigate(p, v, rest, own)
  PROVE  /\ page' \in Pages
         /\ Base(page', view', asked') /\ DashboardOK(page', view', asked')
         /\ FormOK(page', view', asked')
         /\ NoNewDelete(rest, asked')
<1>0. page' = p
  BY DEF Navigate
<1>1. CASE p = page
  BY <1>0, <1>1 DEF Navigate, NoNewDelete
<1>2. CASE p # page /\ p.kind = page.kind
  <2>1. Reuse(p, v, rest, own)
    BY <1>2 DEF Navigate
  <2>2. QED
    BY <1>0, <1>2, <2>1, ReuseKeeps
<1>3. CASE p # page /\ p.kind # page.kind
  <2>1. Mount(p, rest)
    BY <1>3 DEF Navigate
  <2>2. Belong(v, rest)
    BY DEF Base
  <2>3. QED
    BY <1>0, <2>1, <2>2, MountKeeps
<1>4. QED
  BY <1>1, <1>2, <1>3
-----------------------------------------------------------------------------
(***************************************************************************)
(* The user.                                                               *)
(***************************************************************************)
LEMMA FollowStep ==
  ASSUME IInv, NEW p \in Pages, Follow(p)
  PROVE  IInv' /\ StepOK
<1>1. /\ page \in Pages /\ view \in Views /\ asked \in SUBSET Requests
      /\ Base(page, view, asked) /\ DashboardOK(page, view, asked) /\ FormOK(page, view, asked)
      /\ DialogOK /\ dialog \in Dialogs
  BY DEF IInv, TypeOK, Typed, ViewOK
<1>2. Navigate(p, view, asked, FALSE) /\ neighbour' = page /\ dialog' = dialog
  BY DEF Follow
<1>3. /\ page' \in Pages
      /\ Base(page', view', asked') /\ DashboardOK(page', view', asked')
      /\ FormOK(page', view', asked')
      /\ NoNewDelete(asked, asked')
  BY <1>1, <1>2, NavigateKeeps
<1>4. QED
  BY <1>1, <1>2, <1>3 DEF IInv, TypeOK, ViewOK, DialogOK, Base, StepOK, NoNewDelete

LEMMA LinkSteps ==
  ASSUME IInv,
         OpenConnection \/ OpenList \/ OpenBreadcrumb \/ OpenTable \/ OpenRow \/ OpenNewRow \/ LeaveRow
  PROVE  IInv' /\ StepOK
<1>1. page \in Pages /\ view \in Views /\ DashboardOK(page, view, asked)
  BY DEF IInv, TypeOK, Typed, ViewOK
<1>2. CASE OpenConnection \/ OpenList
  BY <1>2, PageMade, FollowStep DEF OpenConnection, OpenList
<1>3. CASE OpenBreadcrumb
  <2>1. page.conn # None => page.conn \in Conns
    BY <1>1, PageFields
  <2>2. page.table # None => page.conn \in Conns /\ page.table \in Tables
    BY <1>1, PageFields
  <2>3. QED
    BY <1>3, <2>1, <2>2, PageMade, FollowStep DEF OpenBreadcrumb
<1>4. CASE OpenTable \/ OpenRow \/ OpenNewRow
  <2>1. view.kind = "dashboard"
    BY <1>4 DEF OpenTable, OpenRow, OpenNewRow
  <2>2. view.conn \in Conns /\ (view.rows # Nothing => view.name \in Tables)
    BY <1>1, <2>1, ViewFields DEF Dashboards, DashboardOK, RowsFit
  <2>3. QED
    BY <1>4, <2>2, PageMade, FollowStep DEF OpenTable, OpenRow, OpenNewRow
<1>5. CASE LeaveRow
  <2>1. view.conn \in Conns /\ view.name \in Tables
    BY <1>1, <1>5, ViewFields DEF LeaveRow, Forms
  <2>2. QED
    BY <1>5, <2>1, PageMade, FollowStep DEF LeaveRow
<1>6. QED
  BY <1>2, <1>3, <1>4, <1>5

\* A dialog that is closed leaves its request without anybody who waits for it.
Abandon(r) == {[a EXCEPT !.live = @ /\ a.kind # "delete"] : a \in r}

LEMMA AbandonMade ==
  ASSUME NEW p, NEW v, NEW r \in SUBSET Requests, Base(p, v, r), DashboardOK(p, v, r), FormOK(p, v, r)
  PROVE  /\ Abandon(r) \in SUBSET Requests
         /\ Base(p, v, Abandon(r)) /\ DashboardOK(p, v, Abandon(r)) /\ FormOK(p, v, Abandon(r))
         /\ \A a \in Abandon(r) : a \in r \/ (a.kind = "delete" /\ ~a.live)
<1>1. ASSUME NEW a \in r
      PROVE  LET b == [a EXCEPT !.live = @ /\ a.kind # "delete"]
             IN  b \in Requests /\ (b = a \/ (b.kind = "delete" /\ ~b.live))
  <2>1. a \in Requests
    OBVIOUS
  <2>2. CASE a.kind = "delete"
    BY <2>1, <2>2 DEF Requests
  <2>3. CASE a.kind # "delete"
    <3>1. a.live = (a.live /\ a.kind # "delete")
      BY <2>1, <2>3 DEF Requests
    <3>2. [a EXCEPT !.live = @ /\ a.kind # "delete"] = a
      BY <2>1, <2>3, <3>1 DEF Requests
    <3>3. QED
      BY <2>1, <3>2
  <2>4. QED
    BY <2>2, <2>3
<1>2. /\ Abandon(r) \in SUBSET Requests
      /\ \A a \in Abandon(r) : a \in r \/ (a.kind = "delete" /\ ~a.live)
  BY <1>1 DEF Abandon
<1>3. Base(p, v, Abandon(r)) /\ DashboardOK(p, v, Abandon(r)) /\ FormOK(p, v, Abandon(r))
  BY <1>2 DEF Base, Typed, Belong, DashboardOK, RowsFit, FormOK, Loads
<1>4. QED
  BY <1>2, <1>3

LEMMA BackStep ==
  ASSUME IInv, GoBack
  PROVE  IInv' /\ StepOK
<1> DEFINE r == Abandon(asked)
<1>1. /\ page \in Pages /\ view \in Views /\ asked \in SUBSET Requests /\ neighbour \in Pages
      /\ Base(page, view, asked) /\ DashboardOK(page, view, asked) /\ FormOK(page, view, asked)
  BY DEF IInv, TypeOK, Typed, ViewOK
<1>2. Navigate(neighbour, view, r, FALSE) /\ neighbour' = page /\ dialog' = NoDialog
  BY DEF GoBack, Abandon
<1>3. /\ r \in SUBSET Requests
      /\ Base(page, view, r) /\ DashboardOK(page, view, r) /\ FormOK(page, view, r)
      /\ \A a \in r : a \in asked \/ (a.kind = "delete" /\ ~a.live)
  BY <1>1, AbandonMade
<1> HIDE DEF r
<1>4. /\ page' \in Pages
      /\ Base(page', view', asked') /\ DashboardOK(page', view', asked')
      /\ FormOK(page', view', asked')
      /\ NoNewDelete(r, asked')
  BY <1>1, <1>2, <1>3, NavigateKeeps
<1>5. dialog' \in Dialogs /\ ~dialog'.open
  BY <1>2 DEF Dialogs, NoDialog
<1>6. StepOK
  BY <1>3, <1>4 DEF StepOK, NoNewDelete
<1>7. QED
  BY <1>1, <1>2, <1>4, <1>5, <1>6 DEF IInv, TypeOK, ViewOK, DialogOK, Base

LEMMA RefineStep ==
  ASSUME IInv, Refine
  PROVE  IInv' /\ StepOK
<1> DEFINE w == WithTable(view, view.name, asked)
           r == asked \union {RowsOf(view, view.name)}
<1>1. /\ page \in Pages /\ view \in Views /\ asked \in SUBSET Requests /\ neighbour \in Pages
      /\ Base(page, view, asked) /\ DashboardOK(page, view, asked) /\ FormOK(page, view, asked)
      /\ Belong(view, asked)
      /\ DialogOK /\ dialog \in Dialogs
  BY DEF IInv, TypeOK, Typed, ViewOK, Base
<1>2. view.kind = "dashboard" /\ view.tables = "got" /\ view.name # None /\ dialog' = dialog
  BY DEF Refine
<1>3. view \in Dashboards /\ view.conn \in Conns /\ view.name \in Tables
  BY <1>1, <1>2, ViewFields DEF Dashboards
<1>4. /\ page.kind = "table" /\ page.table = view.name
      /\ "pulled" \notin view.doubt => page.conn = view.conn
  BY <1>1, <1>2 DEF DashboardOK, DashboardAt
<1>5. Base(page, w, r) /\ DashboardOK(page, w, r) /\ FormOK(page, w, r) /\ NoNewDelete(asked, r)
  BY <1>1, <1>2, <1>3, <1>4, ReadKeeps
<1> HIDE DEF w, r
<1>6. PICK p \in {page, TablePage(view.conn, view.name)} : Navigate(p, w, r, FALSE)
  BY DEF Refine, w, r
<1>7. p \in Pages /\ w \in Views /\ r \in SUBSET Requests
  BY <1>1, <1>3, <1>5, PageMade DEF Base, Typed
<1>8. /\ page' \in Pages
      /\ Base(page', view', asked') /\ DashboardOK(page', view', asked')
      /\ FormOK(page', view', asked')
      /\ NoNewDelete(r, asked')
  BY <1>5, <1>6, <1>7, NavigateKeeps
<1>9. neighbour' \in Pages
  BY <1>1 DEF Refine
<1>10. StepOK
  BY <1>5, <1>8 DEF StepOK, NoNewDelete
<1>11. QED
  BY <1>1, <1>2, <1>8, <1>9, <1>10 DEF IInv, TypeOK, ViewOK, DialogOK, Base

LEMMA ClickStep ==
  ASSUME IInv, ClickDelete
  PROVE  IInv' /\ StepOK
<1>1. /\ page \in Pages /\ view \in Views /\ DashboardOK(page, view, asked)
      /\ view.kind = "dashboard" /\ view.rows # Nothing /\ ~view.spinner
      /\ page' = page /\ view' = view /\ neighbour' = neighbour /\ asked' = asked
  BY DEF IInv, TypeOK, Typed, ViewOK, ClickDelete
<1>2. PICK k \in Keys :
       dialog' = [open |-> TRUE, conn |-> page.conn, table |-> page.table, key |-> k,
                  submitting |-> FALSE, shown |-> view.rows, doubt |-> view.doubt]
  BY DEF ClickDelete
<1>3. view \in Dashboards /\ view.rows \in Conns \X Tables
  BY <1>1, ViewFields DEF Dashboards
<1>4. page.conn \in Conns /\ page.table \in Tables /\ page.table = view.name
  BY <1>1, PageFields DEF DashboardOK, DashboardAt, RowsFit
<1>5. dialog' \in Dialogs
  BY <1>2, <1>3, <1>4 DEF Dashboards, Dialogs
<1>6. dialog'.doubt = {} => dialog'.shown = <<dialog'.conn, dialog'.table>>
  BY <1>1, <1>2, <1>4 DEF DashboardOK, DashboardAt, RowsFit
<1>7. QED
  BY <1>1, <1>5, <1>6 DEF IInv, TypeOK, ViewOK, DialogOK, StepOK

LEMMA CancelStep ==
  ASSUME IInv, CancelDelete
  PROVE  IInv' /\ StepOK
<1> DEFINE r == Abandon(asked)
<1>1. /\ page \in Pages /\ view \in Views /\ asked \in SUBSET Requests
      /\ Base(page, view, asked) /\ DashboardOK(page, view, asked) /\ FormOK(page, view, asked)
  BY DEF IInv, TypeOK, Typed, ViewOK
<1>2. /\ page' = page /\ view' = view /\ neighbour' = neighbour /\ asked' = r
      /\ dialog' = NoDialog
  BY DEF CancelDelete, Abandon
<1>3. /\ r \in SUBSET Requests
      /\ Base(page, view, r) /\ DashboardOK(page, view, r) /\ FormOK(page, view, r)
      /\ \A a \in r : a \in asked \/ (a.kind = "delete" /\ ~a.live)
  BY <1>1, AbandonMade
<1> HIDE DEF r
<1>4. dialog' \in Dialogs /\ ~dialog'.open
  BY <1>2 DEF Dialogs, NoDialog
<1>5. StepOK
  BY <1>2, <1>3 DEF StepOK
<1>6. QED
  BY <1>1, <1>2, <1>3, <1>4, <1>5 DEF IInv, TypeOK, Typed, ViewOK, DialogOK

\* A request of another kind changes nothing for what is shown.
LEMMA MoreRequests ==
  ASSUME NEW p, NEW v, NEW r, Base(p, v, r), DashboardOK(p, v, r), FormOK(p, v, r),
         NEW a \in Requests, Belong(v, {a}), a.kind \in {"add", "update", "delete"}
  PROVE  LET s == r \union {a}
         IN  Base(p, v, s) /\ DashboardOK(p, v, s) /\ FormOK(p, v, s)
BY DEF Base, Typed, Belong, DashboardOK, RowsFit, FormOK, Loads

LEMMA ConfirmStep ==
  ASSUME IInv, ConfirmDelete
  PROVE  IInv' /\ StepOK
<1> DEFINE a == Request("delete", dialog.conn, dialog.table, dialog.key)
<1>1. /\ page' = page /\ view' = view /\ neighbour' = neighbour /\ asked' = asked \union {a}
      /\ dialog.open /\ dialog' = [dialog EXCEPT !.submitting = TRUE]
      /\ dialog \in Dialogs
      /\ Base(page, view, asked) /\ DashboardOK(page, view, asked) /\ FormOK(page, view, asked)
  BY DEF ConfirmDelete, IInv, TypeOK, ViewOK
<1>2. /\ dialog.conn \in Conns /\ dialog.table \in Tables /\ dialog.key \in Keys
      /\ dialog' \in Dialogs
      /\ dialog'.doubt = dialog.doubt /\ dialog'.shown = dialog.shown
      /\ dialog'.conn = dialog.conn /\ dialog'.table = dialog.table
  <2>1. dialog # NoDialog
    BY <1>1 DEF NoDialog
  <2>2. QED
    BY <1>1, <2>1 DEF Dialogs
<1>3. a \in Requests /\ a.kind = "delete" /\ a.conn = dialog.conn /\ a.table = dialog.table
  BY <1>2, RequestMade DEF Request
<1> HIDE DEF a
<1>4. Belong(view, {a})
  BY <1>3 DEF Belong
<1>5. Base(page, view, asked') /\ DashboardOK(page, view, asked') /\ FormOK(page, view, asked')
  BY <1>1, <1>3, <1>4, MoreRequests
<1>6. dialog.doubt = {} => dialog.shown = <<dialog.conn, dialog.table>>
  BY <1>1 DEF IInv, DialogOK
<1>7. StepOK
  BY <1>1, <1>3, <1>6 DEF StepOK, DeleteIsShown
<1>8. DialogOK'
  BY <1>2, <1>6 DEF DialogOK
<1>9. QED
  BY <1>1, <1>2, <1>5, <1>7, <1>8 DEF IInv, TypeOK, Typed, ViewOK, Base

LEMMA SubmitStep ==
  ASSUME IInv, SubmitRow
  PROVE  IInv' /\ StepOK
<1>1. /\ page' = page /\ neighbour' = neighbour /\ dialog' = dialog
      /\ view.kind = "row" /\ view.form # Nothing /\ view' = [view EXCEPT !.submitting = TRUE]
      /\ view \in Views
      /\ Base(page, view, asked) /\ DashboardOK(page, view, asked) /\ FormOK(page, view, asked)
  BY DEF SubmitRow, IInv, TypeOK, Typed, ViewOK
<1>2. view \in Forms
  BY <1>1, ViewFields
<1>3. /\ view' \in Views /\ view'.kind = view.kind /\ view'.conn = view.conn
      /\ view'.name = view.name /\ view'.key = view.key /\ view'.form = view.form
      /\ view'.doubt = view.doubt
  BY <1>1, <1>2 DEF Forms, Views
<1>4. PICK stay \in BOOLEAN, k \in Keys :
        asked' = asked \union
          {[Request(IF view.key = None THEN "add" ELSE "update", view.conn, view.name, view.key)
              EXCEPT !.stay = stay, !.to = k]}
  BY DEF SubmitRow
<1> DEFINE a == [Request(IF view.key = None THEN "add" ELSE "update", view.conn, view.name, view.key)
                   EXCEPT !.stay = stay, !.to = k]
<1>5. /\ a \in Requests /\ a.kind \in {"add", "update"} /\ a.conn = view.conn
      /\ a.table = view.name /\ a.key = view.key /\ a.to \in Keys
      /\ asked' = asked \union {a}
  BY <1>2, <1>4 DEF Request, Requests, Forms
<1> HIDE DEF a
<1>6. Base(page, view', asked) /\ DashboardOK(page, view', asked) /\ FormOK(page, view', asked)
  BY <1>1, <1>3 DEF Base, Typed, KindsAgree, Belong, DashboardOK, DashboardAt, RowsFit, FormOK
<1>7. Belong(view', {a})
  BY <1>1, <1>2, <1>3, <1>5 DEF Belong, Forms
<1>8. Base(page, view', asked') /\ DashboardOK(page, view', asked') /\ FormOK(page, view', asked')
  BY <1>5, <1>6, <1>7, MoreRequests
<1>9. SaveIsShown(a)
  BY <1>1, <1>5 DEF SaveIsShown, FormOK
<1>10. StepOK
  BY <1>5, <1>9 DEF StepOK
<1>11. QED
  BY <1>1, <1>8, <1>10 DEF IInv, TypeOK, ViewOK, DialogOK, Base

LEMMA UserStep == ASSUME IInv, User PROVE IInv' /\ StepOK
BY LinkSteps, BackStep, RefineStep, ClickStep, CancelStep, ConfirmStep, SubmitStep DEF User
-----------------------------------------------------------------------------
(***************************************************************************)
(* The answers.                                                            *)
(***************************************************************************)
LEMMA LessRequests ==
  ASSUME NEW p, NEW v, NEW r, Base(p, v, r), DashboardOK(p, v, r), FormOK(p, v, r), NEW s \in SUBSET r
  PROVE  Base(p, v, s) /\ DashboardOK(p, v, s) /\ FormOK(p, v, s)
BY DEF Base, Typed, Belong, DashboardOK, RowsFit, FormOK, Loads

LEMMA GotTables ==
  ASSUME NEW a \in asked, a.kind = "tables", a.live, ViewOK
  PROVE  LET v == [view EXCEPT !.tables = "got"]
         IN  /\ v \in Views /\ v.kind = "dashboard" /\ v.conn = view.conn /\ v.tables = "got"
             /\ v.rows # Nothing => v.name # None
             /\ v.doubt = view.doubt
             /\ Base(page, v, asked \ {a}) /\ DashboardOK(page, v, asked \ {a})
             /\ FormOK(page, v, asked \ {a})
<1> DEFINE v == [view EXCEPT !.tables = "got"]
<1>1. view \in Views /\ Belong(view, asked) /\ DashboardOK(page, view, asked) /\ KindsAgree(page, view)
  BY DEF ViewOK, Base, Typed
<1>2. /\ view.kind = "dashboard" /\ view.tables = "asked"
      /\ a = Request("tables", view.conn, None, None)
  BY <1>1 DEF Belong
<1>3. view \in Dashboards
  BY <1>1, <1>2, ViewFields
<1>4. /\ v \in Dashboards /\ v.kind = "dashboard" /\ v.conn = view.conn /\ v.name = view.name
      /\ v.tables = "got" /\ v.rows = view.rows /\ v.spinner = view.spinner /\ v.doubt = view.doubt
  BY <1>3 DEF Dashboards
<1> HIDE DEF v
<1>5. Belong(v, asked \ {a})
  BY <1>1, <1>2, <1>4 DEF Belong
<1>6. Base(page, v, asked \ {a})
  BY <1>1, <1>2, <1>4, <1>5 DEF Base, Typed, KindsAgree, Views, ViewOK
<1>7. DashboardOK(page, v, asked \ {a}) /\ FormOK(page, v, asked \ {a})
  BY <1>1, <1>2, <1>4 DEF DashboardOK, DashboardAt, RowsFit, FormOK
<1>8. v.rows # Nothing => v.name # None
  BY <1>1, <1>2, <1>4 DEF DashboardOK, RowsFit
<1>9. v \in Views
  BY <1>4 DEF Views
<1>10. QED
  BY <1>4, <1>6, <1>7, <1>8, <1>9 DEF v

LEMMA TablesAnsweredStep ==
  ASSUME IInv, NEW a \in asked, TablesAnswered(a)
  PROVE  IInv' /\ StepOK
<1> DEFINE rest == asked \ {a}
           v == IF a.live THEN [view EXCEPT !.tables = "got"] ELSE view
<1>1. /\ page \in Pages /\ view \in Views /\ a \in Requests /\ rest \in SUBSET Requests
      /\ neighbour \in Pages /\ DialogOK /\ dialog \in Dialogs /\ ViewOK
      /\ Base(page, view, rest) /\ DashboardOK(page, view, rest) /\ FormOK(page, view, rest)
  BY LessRequests DEF IInv, TypeOK, Typed, ViewOK
<1>2. neighbour' = neighbour /\ dialog' = dialog
  BY DEF TablesAnswered, Stays
<1>3. a.kind = "tables" /\ a.conn \in Conns
  BY <1>1 DEF TablesAnswered, Requests
<1>4. a.live => v.conn = view.conn
  BY <1>1, <1>3, GotTables
<1>5. v \in Views /\ Base(page, v, rest) /\ DashboardOK(page, v, rest) /\ FormOK(page, v, rest)
  BY <1>1, <1>3, GotTables
<1>6. CASE /\ a.live /\ page.kind = "table"
           /\ view' = WithTable(v, page.table, rest)
           /\ asked' = rest \union {RowsOf(view, page.table)}
           /\ page' = page
  <2>1. /\ v.kind = "dashboard" /\ v.tables = "got" /\ (v.rows # Nothing => v.name # None)
        /\ "pulled" \notin v.doubt => page.conn = v.conn
    BY <1>1, <1>3, <1>6, GotTables DEF DashboardOK, DashboardAt
  <2>2. page.table \in Tables
    BY <1>1, <1>6, PageFields
  <2>3. RowsOf(view, page.table) = RowsOf(v, page.table)
    BY <1>4, <1>6 DEF RowsOf
  <2>4. Belong(v, rest)
    BY <1>5 DEF Base
  <2> HIDE DEF v, rest
  <2>5. /\ Base(page', view', asked') /\ DashboardOK(page', view', asked')
        /\ FormOK(page', view', asked') /\ NoNewDelete(rest, asked')
    BY <1>1, <1>5, <1>6, <2>1, <2>2, <2>3, <2>4, ReadKeeps
  <2>6. StepOK
    BY <2>5 DEF StepOK, NoNewDelete, rest
  <2>7. QED
    BY <1>1, <1>2, <2>5, <2>6 DEF IInv, TypeOK, ViewOK, DialogOK, Base
<1>7. CASE Navigate(TablePage(a.conn, FirstTable), v, rest, FALSE)
  <2>1. TablePage(a.conn, FirstTable) \in Pages
    BY <1>3, FirstTableAssumption, PageMade
  <2> HIDE DEF v, rest
  <2>2. /\ page' \in Pages
        /\ Base(page', view', asked') /\ DashboardOK(page', view', asked')
        /\ FormOK(page', view', asked') /\ NoNewDelete(rest, asked')
    BY <1>1, <1>5, <1>7, <2>1, NavigateKeeps
  <2>3. StepOK
    BY <2>2 DEF StepOK, NoNewDelete, rest
  <2>4. QED
    BY <1>1, <1>2, <2>2, <2>3 DEF IInv, TypeOK, ViewOK, DialogOK, Base
<1>8. QED
  BY <1>6, <1>7 DEF TablesAnswered, Stays

LEMMA ListingSteps ==
  ASSUME IInv, NEW a \in asked, TablesFailed(a) \/ RowsAnswered(a) \/ RowsFailed(a)
  PROVE  IInv' /\ StepOK
<1> DEFINE rest == asked \ {a}
<1>1. /\ view \in Views /\ a \in Requests /\ asked' = rest
      /\ page' = page /\ neighbour' = neighbour /\ dialog' = dialog
      /\ Base(page, view, rest) /\ DashboardOK(page, view, rest) /\ FormOK(page, view, rest)
      /\ Belong(view, asked) /\ DashboardOK(page, view, asked)
  BY LessRequests
  DEF IInv, TypeOK, Typed, ViewOK, Base, TablesFailed, RowsAnswered, RowsFailed, Stays
<1>2. StepOK
  BY <1>1 DEF StepOK
<1>3. SUFFICES Base(page, view', rest) /\ DashboardOK(page, view', rest) /\ FormOK(page, view', rest)
  BY <1>1, <1>2 DEF IInv, TypeOK, ViewOK, DialogOK, Base
<1>4. CASE TablesFailed(a) /\ ~a.live
  BY <1>1, <1>4 DEF TablesFailed
<1>5. CASE TablesFailed(a) /\ a.live
  <2>1. /\ view.kind = "dashboard" /\ view.tables = "asked" /\ view' = [view EXCEPT !.tables = "failed"]
        /\ a = Request("tables", view.conn, None, None)
    BY <1>1, <1>5 DEF TablesFailed, Belong
  <2>2. view \in Dashboards
    BY <1>1, <2>1, ViewFields
  <2>3. /\ view' \in Dashboards /\ view'.kind = "dashboard" /\ view'.conn = view.conn
        /\ view'.name = view.name /\ view'.rows = view.rows /\ view'.spinner = view.spinner
        /\ view'.doubt = view.doubt
    BY <2>1, <2>2 DEF Dashboards
  <2>4. Belong(view', rest)
    BY <1>1, <2>1, <2>3 DEF Belong
  <2>5. Base(page, view', rest)
    BY <1>1, <2>1, <2>3, <2>4 DEF Base, Typed, KindsAgree, Views
  <2>6. DashboardOK(page, view', rest) /\ FormOK(page, view', rest)
    BY <1>1, <2>1, <2>3 DEF DashboardOK, DashboardAt, RowsFit, FormOK
  <2>7. QED
    BY <2>5, <2>6
<1>6. CASE RowsAnswered(a)
  <2> DEFINE settled == a.table = view.name /\ {b \in rest : b.kind = "rows"} = {}
  <2>1. /\ view' = [view EXCEPT !.rows = <<a.conn, a.table>>, !.spinner = FALSE,
                      !.doubt = IF settled THEN @ \ {"overlap", "failed"} ELSE @]
        /\ a.kind = "rows"
    BY <1>6 DEF RowsAnswered
  <2>2. view.kind = "dashboard" /\ a.conn = view.conn /\ a.table \in Tables /\ view.name \in Tables
    BY <1>1, <2>1 DEF Belong
  <2>3. view \in Dashboards
    BY <1>1, <2>2, ViewFields
  <2>4. /\ view' \in Dashboards /\ view'.kind = "dashboard" /\ view'.conn = view.conn
        /\ view'.name = view.name /\ view'.tables = view.tables
        /\ view'.rows = <<a.conn, a.table>>
        /\ view'.doubt = IF settled THEN view.doubt \ {"overlap", "failed"} ELSE view.doubt
    BY <2>1, <2>2, <2>3 DEF Dashboards
  <2>5. Belong(view', rest)
    BY <1>1, <2>2, <2>4 DEF Belong
  <2>6. Base(page, view', rest) /\ FormOK(page, view', rest)
    BY <1>1, <2>2, <2>4, <2>5 DEF Base, Typed, KindsAgree, Views, FormOK
  <2>7. DashboardAt(page, view')
    BY <1>1, <2>2, <2>4 DEF DashboardOK, DashboardAt
  <2>8. RowsFit(view', rest)
    <3>1. CASE settled
      BY <2>2, <2>4, <3>1, NoneAssumption DEF RowsFit
    <3>2. CASE ~settled
      BY <1>1, <2>1, <2>2, <2>4, <3>2, NoneAssumption DEF RowsFit, DashboardOK
    <3>3. QED
      BY <3>1, <3>2
  <2>9. QED
    BY <2>6, <2>7, <2>8 DEF DashboardOK
<1>7. CASE RowsFailed(a)
  <2>1. /\ view' = [view EXCEPT !.spinner = FALSE, !.doubt = @ \union {"failed"}]
        /\ view.kind = "dashboard"
    BY <1>1, <1>7 DEF RowsFailed, Belong
  <2>2. view \in Dashboards
    BY <1>1, <2>1, ViewFields
  <2>3. /\ view' \in Dashboards /\ view'.kind = "dashboard" /\ view'.conn = view.conn
        /\ view'.name = view.name /\ view'.rows = view.rows /\ view'.tables = view.tables
        /\ view'.doubt = view.doubt \union {"failed"}
    BY <2>1, <2>2 DEF Dashboards
  <2>4. Belong(view', rest)
    BY <1>1, <2>1, <2>3 DEF Belong
  <2>5. Base(page, view', rest)
    BY <1>1, <2>1, <2>3, <2>4 DEF Base, Typed, KindsAgree, Views
  <2>6. DashboardOK(page, view', rest) /\ FormOK(page, view', rest)
    BY <1>1, <2>1, <2>3 DEF DashboardOK, DashboardAt, RowsFit, FormOK
  <2>7. QED
    BY <2>5, <2>6
<1>8. QED
  BY <1>4, <1>5, <1>6, <1>7

LEMMA LoadSteps ==
  ASSUME IInv, NEW a \in asked, LoadAnswered(a) \/ LoadFailed(a)
  PROVE  IInv' /\ StepOK
<1> DEFINE rest == asked \ {a}
<1>1. /\ view \in Views /\ a \in Requests /\ asked' = rest /\ a.kind \in {"row", "structure"}
      /\ page' = page /\ neighbour' = neighbour /\ dialog' = dialog
      /\ Base(page, view, rest) /\ DashboardOK(page, view, rest) /\ FormOK(page, view, rest)
      /\ Belong(view, asked) /\ FormOK(page, view, asked)
  BY LessRequests DEF IInv, TypeOK, Typed, ViewOK, Base, LoadAnswered, LoadFailed, Stays
<1>2. StepOK
  BY <1>1 DEF StepOK
<1>3. SUFFICES Base(page, view', rest) /\ DashboardOK(page, view', rest) /\ FormOK(page, view', rest)
  BY <1>1, <1>2 DEF IInv, TypeOK, ViewOK, DialogOK, Base
<1>4. view.kind = "row" /\ a.conn = view.conn /\ a.table = view.name
  BY <1>1 DEF Belong
<1>5. view \in Forms
  BY <1>1, <1>4, ViewFields
<1>6. ASSUME view' \in Forms, view'.kind = "row", view'.conn = view.conn, view'.name = view.name
      PROVE  Base(page, view', rest) /\ DashboardOK(page, view', rest)
  BY <1>1, <1>4, <1>6
  DEF Base, Typed, KindsAgree, Views, Belong, DashboardOK, DashboardAt, RowsFit
<1>7. CASE LoadAnswered(a)
  <2> DEFINE settled == a.key = view.key /\ Loads(rest) = {}
  <2>1. view' = [view EXCEPT !.form = <<a.conn, a.table, a.key>>, !.loading = FALSE,
                             !.doubt = IF settled THEN @ \ {"moved", "overlap"} ELSE @]
    BY <1>7 DEF LoadAnswered
  <2>2. /\ view' \in Forms /\ view'.kind = "row" /\ view'.conn = view.conn
        /\ view'.name = view.name /\ view'.key = view.key
        /\ view'.form = <<view.conn, view.name, a.key>>
        /\ view'.doubt = IF settled THEN view.doubt \ {"moved", "overlap"} ELSE view.doubt
    BY <1>1, <1>4, <1>5, <2>1 DEF Forms, Requests
  <2>3. page.key # None => view.key = page.key
    BY <1>1, <1>4 DEF FormOK
  <2>4. CASE settled
    BY <1>6, <2>2, <2>3, <2>4 DEF FormOK
  <2>5. CASE ~settled
    <3>1. a \in Loads(asked) /\ Loads(rest) \subseteq Loads(asked)
      BY <1>1 DEF Loads
    <3>2. FormOK(page, view', rest)
      BY <1>1, <1>4, <2>2, <2>3, <2>5, <3>1 DEF FormOK
    <3>3. QED
      BY <1>6, <2>2, <3>2
  <2>6. QED
    BY <2>4, <2>5
<1>8. CASE LoadFailed(a)
  <2>1. view' = IF a.kind = "row" THEN [view EXCEPT !.loading = FALSE]
                ELSE [view EXCEPT !.doubt = @ \union {"no structure"}]
    BY <1>8 DEF LoadFailed
  <2>2. /\ view' \in Forms /\ view'.kind = "row" /\ view'.conn = view.conn
        /\ view'.name = view.name /\ view'.key = view.key /\ view'.form = view.form
        /\ view'.doubt \subseteq view.doubt \union {"no structure"} /\ view.doubt \subseteq view'.doubt
    BY <1>5, <2>1 DEF Forms
  <2>3. FormOK(page, view', rest)
    BY <1>1, <1>4, <2>2 DEF FormOK
  <2>4. QED
    BY <1>6, <2>2, <2>3
<1>9. QED
  BY <1>7, <1>8

\* The form that waits for a change of its row.
LEMMA Changed ==
  ASSUME IInv, NEW a \in asked, a.kind \in {"add", "update"}, a.live,
         NEW v \in Forms, v.conn = view.conn, v.name = view.name
  PROVE  /\ view \in Forms /\ view.kind = "row" /\ page.kind = "entry"
         /\ a.conn = view.conn /\ a.table = view.name
         /\ Base(page, v, asked \ {a}) /\ DashboardOK(page, v, asked \ {a})
<1>1. Belong(view, asked) /\ view \in Views /\ KindsAgree(page, view) /\ Typed(page, view, asked)
  BY DEF IInv, ViewOK, Base, Typed
<1>2. view.kind = "row" /\ page.kind = "entry" /\ a.conn = view.conn /\ a.table = view.name
  BY <1>1 DEF Belong, KindsAgree
<1>3. view \in Forms
  BY <1>1, <1>2, ViewFields
<1>4. v.kind = "row"
  BY DEF Forms
<1>5. QED
  BY <1>1, <1>2, <1>3, <1>4
  DEF Base, Typed, KindsAgree, Views, Belong, DashboardOK, DashboardAt, RowsFit

\* What the change of its own row leaves in the form, and that of another one.
LEMMA ChangedRow ==
  ASSUME IInv, NEW a \in asked, a.kind \in {"add", "update"}, a.live,
         NEW v \in Forms, v.conn = view.conn, v.name = view.name, v.doubt = view.doubt,
         v.form = Renamed(a)
  PROVE  /\ v.key \in {view.key, a.to} /\ page.key = a.to => FormOK(page, v, asked \ {a})
         /\ Own(a) /\ v.doubt \intersect {"moved", "overlap"} = {} /\ v.form # Nothing
              => v.form = <<v.conn, v.name, a.to>>
<1>1. /\ view \in Forms /\ view.kind = "row" /\ v.kind = "row"
      /\ a.conn = view.conn /\ a.table = view.name /\ a.to \in Keys
      /\ FormOK(page, view, asked)
  BY Changed DEF IInv, ViewOK, Base, Belong, Forms
<1>2. a.to # None /\ Loads(asked \ {a}) \subseteq Loads(asked)
  BY <1>1, NoneAssumption DEF Loads
<1>3. ASSUME v.key \in {view.key, a.to}, page.key = a.to PROVE FormOK(page, v, asked \ {a})
  <2>1. view.key = a.to /\ v.key = a.to
    BY <1>1, <1>2, <1>3 DEF FormOK
  <2>2. QED
    BY <1>1, <1>2, <1>3, <2>1 DEF FormOK, Renamed
<1>4. ASSUME Own(a), v.doubt \intersect {"moved", "overlap"} = {}, v.form # Nothing
      PROVE  v.form = <<v.conn, v.name, a.to>>
  <2>1. view.key = a.key
    BY <1>4 DEF Own
  <2>2. CASE view.form # Nothing
    BY <1>1, <1>4, <2>1, <2>2 DEF FormOK, Renamed
  <2>3. CASE view.form = Nothing
    BY <1>1, <1>4, <2>3 DEF Renamed
  <2>4. QED
    BY <2>2, <2>3
<1>5. QED
  BY <1>3, <1>4

\* Where a change leads, for a form that is still there and one that is not.
LEMMA ChangeLeads ==
  ASSUME IInv, NEW a \in asked, a.kind \in {"add", "update"}, NEW v,
         a.live => /\ v \in Forms /\ v.conn = view.conn /\ v.name = view.name
                   /\ v.doubt = view.doubt /\ v.form = Renamed(a) /\ v.key \in {view.key, a.to},
         ~a.live => v = view,
         Navigate(After(a), v, asked \ {a}, Own(a)),
         neighbour' \in {neighbour, page}, dialog' = dialog
  PROVE  IInv' /\ StepOK
<1> DEFINE rest == asked \ {a}
           p == After(a)
<1>1. /\ page \in Pages /\ neighbour \in Pages /\ view \in Views /\ a \in Requests
      /\ rest \in SUBSET Requests /\ DialogOK /\ dialog \in Dialogs
      /\ Base(page, view, rest) /\ DashboardOK(page, view, rest) /\ FormOK(page, view, rest)
      /\ Belong(view, asked)
  BY LessRequests DEF IInv, TypeOK, Typed, ViewOK, Base
<1>2. a.conn \in Conns /\ a.table \in Tables /\ a.to \in Keys /\ a.to # None
  BY <1>1, NoneAssumption DEF Requests, Belong
<1>3. p \in Pages
  BY <1>2, PageMade DEF After
<1>4. p.kind = "entry" => p.key = a.to
  BY DEF After, Entry, TablePage, Address
<1> HIDE DEF p
<1>5. /\ v \in Views /\ Base(page, v, rest) /\ DashboardOK(page, v, rest)
      /\ a.live => page.kind = "entry"
  <2>1. CASE a.live
    BY <2>1, Changed DEF Views
  <2>2. CASE ~a.live
    BY <1>1, <2>2
  <2>3. QED
    BY <2>1, <2>2
<1>6. Own(a) \in BOOLEAN /\ (Own(a) => a.live)
  BY <1>1 DEF Own, Requests
<1>7. p.kind = page.kind /\ p.key = page.key => FormOK(page, v, rest)
  <2>1. CASE a.live
    BY <1>4, <1>5, <2>1, ChangedRow
  <2>2. CASE ~a.live
    BY <1>1, <2>2
  <2>3. QED
    BY <2>1, <2>2
<1>8. Own(a) /\ p.kind = page.kind /\ p.key # page.key =>
        /\ p.key # None
        /\ v.kind = "row" /\ v.doubt \intersect {"moved", "overlap"} = {} /\ v.form # Nothing
             => v.form = <<v.conn, v.name, p.key>>
  BY <1>2, <1>4, <1>5, <1>6, ChangedRow
<1>9. Navigate(p, v, rest, Own(a))
  BY DEF p
<1> HIDE DEF rest
<1>10. /\ page' \in Pages
       /\ Base(page', view', asked') /\ DashboardOK(page', view', asked')
       /\ FormOK(page', view', asked') /\ NoNewDelete(rest, asked')
  BY <1>1, <1>3, <1>5, <1>6, <1>7, <1>8, <1>9, NavigateKeeps
<1>11. StepOK
  BY <1>10 DEF StepOK, NoNewDelete, rest
<1>12. QED
  BY <1>1, <1>10, <1>11 DEF IInv, TypeOK, ViewOK, DialogOK, Base

LEMMA AddStep ==
  ASSUME IInv, NEW a \in asked, AddAnswered(a)
  PROVE  IInv' /\ StepOK
<1> DEFINE v == IF a.live THEN [view EXCEPT !.key = a.to, !.form = Renamed(a), !.submitting = FALSE]
                ELSE view
<1>1. /\ a.kind = "add" /\ dialog' = dialog /\ neighbour' \in {neighbour, page}
      /\ Navigate(After(a), v, asked \ {a}, Own(a))
  BY DEF AddAnswered
<1>2. ASSUME a.live
      PROVE  /\ v \in Forms /\ v.conn = view.conn /\ v.name = view.name
             /\ v.doubt = view.doubt /\ v.form = Renamed(a) /\ v.key = a.to
  <2>1. view \in Views /\ view.kind = "row" /\ a.to \in Keys /\ a.table \in Tables /\ a \in Requests
    BY <1>1, <1>2 DEF IInv, ViewOK, Base, Typed, Belong
  <2>2. view \in Forms
    BY <2>1, ViewFields
  <2>3. Renamed(a) \in {Nothing} \union (Conns \X Tables \X (Keys \union {None}))
    BY <2>1, <2>2 DEF Renamed, Forms, Requests
  <2>4. QED
    BY <1>2, <2>1, <2>2, <2>3 DEF Forms
<1>3. ~a.live => v = view
  OBVIOUS
<1> HIDE DEF v
<1>4. QED
  BY <1>1, <1>2, <1>3, ChangeLeads

LEMMA UpdateStep ==
  ASSUME IInv, NEW a \in asked, UpdateAnswered(a)
  PROVE  IInv' /\ StepOK
<1> DEFINE v == IF a.live THEN [view EXCEPT !.form = Renamed(a), !.submitting = FALSE] ELSE view
<1>1. /\ a.kind = "update" /\ dialog' = dialog /\ neighbour' \in {neighbour, page}
      /\ \/ Navigate(After(a), v, asked \ {a}, Own(a))
         \/ a.to = a.key /\ Navigate(page, v, asked \ {a}, Own(a))
  BY DEF UpdateAnswered
<1>2. ASSUME a.live
      PROVE  /\ v \in Forms /\ v.conn = view.conn /\ v.name = view.name
             /\ v.doubt = view.doubt /\ v.form = Renamed(a) /\ v.key = view.key
  <2>1. view \in Views /\ view.kind = "row" /\ a.to \in Keys /\ a.table \in Tables /\ a \in Requests
    BY <1>1, <1>2 DEF IInv, ViewOK, Base, Typed, Belong
  <2>2. view \in Forms
    BY <2>1, ViewFields
  <2>3. Renamed(a) \in {Nothing} \union (Conns \X Tables \X (Keys \union {None}))
    BY <2>1, <2>2 DEF Renamed, Forms, Requests
  <2>4. QED
    BY <1>2, <2>1, <2>2, <2>3 DEF Forms
<1>3. ~a.live => v = view
  OBVIOUS
<1> HIDE DEF v
<1>4. CASE Navigate(After(a), v, asked \ {a}, Own(a))
  BY <1>1, <1>2, <1>3, <1>4, ChangeLeads
<1>5. CASE a.to = a.key /\ Navigate(page, v, asked \ {a}, Own(a))
  <2>1. page' = page /\ view' = v /\ asked' = asked \ {a}
    BY <1>5 DEF Navigate
  <2>2. /\ Base(page, view, asked \ {a}) /\ DashboardOK(page, view, asked \ {a})
        /\ FormOK(page, view, asked \ {a})
        /\ neighbour' \in Pages /\ DialogOK /\ dialog \in Dialogs
    BY <1>1, LessRequests DEF IInv, TypeOK, Typed, ViewOK
  <2>3. Base(page, v, asked \ {a}) /\ DashboardOK(page, v, asked \ {a})
    BY <1>1, <1>2, <1>3, <2>2, Changed
  <2>4. FormOK(page, v, asked \ {a})
    <3>1. Renamed(a) = view.form
      BY <1>5 DEF Renamed
    <3>2. a.live => view.kind = "row"
      BY <1>1 DEF IInv, ViewOK, Base, Belong
    <3>3. QED
      BY <1>2, <1>3, <2>2, <3>1, <3>2 DEF FormOK
  <2>5. StepOK
    BY <2>1 DEF StepOK
  <2>6. QED
    BY <1>1, <2>1, <2>2, <2>3, <2>4, <2>5 DEF IInv, TypeOK, ViewOK, DialogOK, Base
<1>6. QED
  BY <1>1, <1>4, <1>5

LEMMA SubmitFailedStep ==
  ASSUME IInv, NEW a \in asked, SubmitFailed(a)
  PROVE  IInv' /\ StepOK
<1>1. /\ a.kind \in {"add", "update"} /\ asked' = asked \ {a}
      /\ page' = page /\ neighbour' = neighbour /\ dialog' = dialog
      /\ view' = IF a.live THEN [view EXCEPT !.submitting = FALSE] ELSE view
  BY DEF SubmitFailed, Stays
<1>2. /\ Base(page, view, asked \ {a}) /\ DashboardOK(page, view, asked \ {a})
      /\ FormOK(page, view, asked \ {a}) /\ view \in Views
  BY LessRequests DEF IInv, ViewOK, Base, Typed
<1>3. ASSUME a.live
      PROVE  /\ Base(page, view', asked \ {a}) /\ DashboardOK(page, view', asked \ {a})
             /\ FormOK(page, view', asked \ {a})
  <2>1. view.kind = "row"
    BY <1>1, <1>3 DEF IInv, ViewOK, Base, Belong
  <2>2. view \in Forms
    BY <1>2, <2>1, ViewFields
  <2>3. /\ view' \in Forms /\ view'.kind = "row" /\ view'.conn = view.conn
        /\ view'.name = view.name /\ view'.key = view.key /\ view'.form = view.form
        /\ view'.doubt = view.doubt
    BY <1>1, <1>3, <2>2 DEF Forms
  <2>4. QED
    BY <1>1, <1>2, <1>3, <2>1, <2>3, Changed DEF FormOK
<1>4. ViewOK'
  BY <1>1, <1>2, <1>3 DEF ViewOK
<1>5. StepOK
  BY <1>1 DEF StepOK
<1>6. QED
  BY <1>1, <1>4, <1>5 DEF IInv, TypeOK, ViewOK, DialogOK, Base

LEMMA DeleteSteps ==
  ASSUME IInv, NEW a \in asked, DeleteAnswered(a) \/ DeleteFailed(a)
  PROVE  IInv' /\ StepOK
<1> DEFINE rest == asked \ {a}
<1>1. /\ page \in Pages /\ neighbour \in Pages /\ view \in Views /\ rest \in SUBSET Requests
      /\ DialogOK /\ dialog \in Dialogs
      /\ Base(page, view, rest) /\ DashboardOK(page, view, rest) /\ FormOK(page, view, rest)
      /\ page' = page /\ neighbour' = neighbour
  BY LessRequests DEF IInv, TypeOK, Typed, ViewOK, DeleteAnswered, DeleteFailed
<1>2. /\ dialog' \in {NoDialog, dialog, [dialog EXCEPT !.submitting = FALSE]}
  BY DEF DeleteAnswered, DeleteFailed
<1>3. dialog' \in Dialogs /\ DialogOK'
  <2>1. CASE dialog' = NoDialog
    BY <2>1 DEF Dialogs, DialogOK, NoDialog
  <2>2. CASE dialog' = dialog
    BY <1>1, <2>2 DEF DialogOK
  <2>3. CASE dialog' = [dialog EXCEPT !.submitting = FALSE] /\ dialog = NoDialog
    <3>1. dialog' = NoDialog
      BY <2>3 DEF NoDialog
    <3>2. QED
      BY <2>1, <3>1
  <2>4. CASE dialog' = [dialog EXCEPT !.submitting = FALSE] /\ dialog # NoDialog
    <3>1. /\ dialog' \in Dialogs
          /\ dialog'.open = dialog.open /\ dialog'.doubt = dialog.doubt
          /\ dialog'.shown = dialog.shown /\ dialog'.conn = dialog.conn
          /\ dialog'.table = dialog.table
      BY <1>1, <2>4 DEF Dialogs
    <3>2. QED
      BY <1>1, <3>1 DEF DialogOK
  <2>5. QED
    BY <1>2, <2>1, <2>2, <2>3, <2>4
<1>4. SUFFICES /\ Base(page, view', asked') /\ DashboardOK(page, view', asked')
               /\ FormOK(page, view', asked') /\ NoNewDelete(rest, asked')
  BY <1>1, <1>3 DEF IInv, TypeOK, ViewOK, Base, StepOK, NoNewDelete
<1>5. CASE view' = view /\ asked' = rest
  BY <1>1, <1>5 DEF NoNewDelete
<1>6. CASE /\ view.kind = "dashboard" /\ view.tables = "got" /\ view.name # None
           /\ view' = WithTable(view, view.name, asked)
           /\ asked' = rest \union {RowsOf(view, view.name)}
           /\ DeleteAnswered(a)
  <2>1. view \in Dashboards
    BY <1>1, <1>6, ViewFields
  <2>2. view.name \in Tables
    BY <1>6, <2>1 DEF Dashboards
  <2>3. /\ page.kind = "table" /\ page.table = view.name
        /\ "pulled" \notin view.doubt => page.conn = view.conn
    BY <1>1, <1>6 DEF DashboardOK, DashboardAt
  <2>4. Belong(view, rest) /\ (\A b \in rest \ asked : b.kind = "rows" => b.table = view.name)
    BY <1>1 DEF Base
  <2>5. asked \in SUBSET Requests
    BY DEF IInv, TypeOK, Typed
  <2>6. view.rows # Nothing => view.name # None
    BY <1>6
  <2> HIDE DEF rest
  <2>7. QED
    BY <1>1, <1>6, <2>2, <2>3, <2>4, <2>5, <2>6, ReadKeeps
<1>7. QED
  BY <1>5, <1>6 DEF DeleteAnswered, DeleteFailed

LEMMA AnswerStep == ASSUME IInv, Answer PROVE IInv' /\ StepOK
BY TablesAnsweredStep, ListingSteps, LoadSteps, AddStep, UpdateStep, SubmitFailedStep, DeleteSteps
DEF Answer
-----------------------------------------------------------------------------
(***************************************************************************)
(* Every step keeps the invariant, and what it sends is about what is      *)
(* shown.                                                                  *)
(***************************************************************************)
LEMMA NextStep == ASSUME IInv, [Next]_vars PROVE IInv' /\ StepOK
<1>1. CASE UNCHANGED vars
  BY <1>1 DEF vars, IInv, TypeOK, Typed, ViewOK, Base, KindsAgree, Belong, DashboardOK,
              DashboardAt, RowsFit, FormOK, Loads, DialogOK, StepOK
<1>2. CASE User
  BY <1>2, UserStep
<1>3. CASE Answer
  BY <1>3, AnswerStep
<1>4. QED
  BY <1>1, <1>2, <1>3 DEF Next

LEMMA InitOK == Init => IInv
<1> SUFFICES ASSUME Init PROVE IInv
  OBVIOUS
<1>1. /\ page = Connections /\ neighbour = Connections /\ view = NoView /\ dialog = NoDialog
      /\ asked = {}
  BY DEF Init
<1>2. page \in Pages /\ neighbour \in Pages /\ page.kind = "list"
  BY <1>1, PageMade DEF Connections, Address
<1>3. view \in Views /\ view.kind = "none"
  BY <1>1 DEF Views, NoView
<1>4. dialog \in Dialogs /\ ~dialog.open
  BY <1>1 DEF Dialogs, NoDialog
<1>5. QED
  BY <1>1, <1>2, <1>3, <1>4
  DEF IInv, TypeOK, Typed, ViewOK, Base, KindsAgree, Belong, DashboardOK, DashboardAt, RowsFit,
      FormOK, DialogOK

LEMMA InvariantHolds == Spec => []IInv
BY InitOK, NextStep, PTL DEF Spec

(***************************************************************************)
(* Every variable of the client keeps its type, however many requests are  *)
(* under way and in whatever order they are answered.                      *)
(***************************************************************************)
THEOREM ClientTypeCorrect == Spec => []TypeOK
<1>1. IInv => TypeOK
  BY DEF IInv
<1>2. QED
  BY <1>1, InvariantHolds, PTL

(***************************************************************************)
(* A request to delete a row names the connection and the table of the     *)
(* rows that were shown when it was clicked on, outside the cases that the *)
(* property excepts.                                                       *)
(***************************************************************************)
THEOREM DeleteNamesTheRowShown == Spec => DeletesTheRowShown
<1>1. IInv /\ [Next]_vars =>
        [\A a \in asked' \ asked : a.kind = "delete" /\ a.live =>
           dialog.shown = <<a.conn, a.table>> \/ dialog.doubt # {}]_vars
  BY NextStep DEF StepOK, DeleteIsShown
<1>2. QED
  BY <1>1, InvariantHolds, PTL DEF Spec, DeletesTheRowShown

(***************************************************************************)
(* An update names the row whose values are in the form, outside the cases *)
(* that the property excepts.                                              *)
(***************************************************************************)
THEOREM UpdateNamesTheRowShown == Spec => SavesTheRowShown
<1>1. IInv /\ [Next]_vars =>
        [\A a \in asked' \ asked : a.kind = "update" /\ a.live =>
           view.form = <<a.conn, a.table, a.key>>
             \/ view.doubt \intersect {"moved", "overlap"} # {}]_vars
  BY NextStep DEF StepOK, SaveIsShown
<1>2. QED
  BY <1>1, InvariantHolds, PTL DEF Spec, SavesTheRowShown
-----------------------------------------------------------------------------
(***************************************************************************)
(* Listing and adding rows (RowQueries).  First the folds that the queries *)
(* are put together with.  The library's induction takes an operator, which *)
(* cannot be instantiated; here a set of numbers stands for the property,  *)
(* and the function that a fold recurs on is put together value by value.  *)
(***************************************************************************)
LEMMA LeastOfNumbers ==
  ASSUME NEW T \in SUBSET Nat, T # {}
  PROVE  \E i \in T : \A j \in T : i <= j
<1>1. PICK R : R = {p \in Nat \X Nat : p[1] < p[2]}
  OBVIOUS
<1>2. IsWellFoundedOn(R, Nat)
  BY <1>1, NatLessThanWellFounded DEF OpToRel
<1>3. \E i \in T : \A j \in T : ~ (<<j, i>> \in R)
  BY <1>2, WFMin
<1>4. \A i, j \in T : ~(<<j, i>> \in R) => i <= j
  BY <1>1
<1> QED BY <1>3, <1>4

\* Induction up to n.
LEMMA Climb ==
  ASSUME NEW n \in Nat, NEW P, 0 \in P, \A i \in 1..n : i - 1 \in P => i \in P
  PROVE  0..n \subseteq P
<1> DEFINE T == {i \in 0..n : i \notin P}
<1> SUFFICES T = {}
  OBVIOUS
<1>1. T \in SUBSET Nat
  OBVIOUS
<1>2. SUFFICES ASSUME T # {}
               PROVE  FALSE
  OBVIOUS
<1>3. PICK i \in T : \A j \in T : i <= j
  <2> HIDE DEF T
  <2> QED BY <1>1, <1>2, LeastOfNumbers
<1>4. i \in 1..n
  OBVIOUS
<1>5. i - 1 \in 0..n /\ i - 1 \notin T
  BY <1>3, <1>4
<1> QED BY <1>4, <1>5

LEMMA TopOfRange ==
  ASSUME NEW n \in Nat, NEW s \in SUBSET (1..(n + 1)), n + 1 \in s
  PROVE  Max(s) = n + 1
<1>1. \A y \in s : n + 1 >= y
  OBVIOUS
<1>2. \A x \in s : (\A y \in s : x >= y) => x = n + 1
  OBVIOUS
<1> QED BY <1>1, <1>2 DEF Max

\* The steps of a fold over n values, and the function that MapThenFoldSet
\* recurs on.
StepsIn(n, V) == [(1..n) \X V -> V]

Folds(f, n, V, base, step) ==
  /\ f \in [SUBSET (1..n) -> V]
  /\ f[{}] = base
  /\ \A s \in SUBSET (1..n) : s # {} => f[s] = step[<<Max(s), f[s \ {Max(s)}]>>]

LEMMA FoldExists ==
  ASSUME NEW n \in Nat, NEW V, NEW base \in V, NEW step \in StepsIn(n, V)
  PROVE  \E f : Folds(f, n, V, base, step)
<1> DEFINE Works(k) == \E f : Folds(f, k, V, base, step)
           P == {k \in 0..n : Works(k)}
<1>1. Works(0)
  <2>1. PICK f : f = [s \in SUBSET (1..0) |-> base]
    OBVIOUS
  <2>2. SUBSET (1..0) = {{}}
    OBVIOUS
  <2>3. f \in [SUBSET (1..0) -> V] /\ f[{}] = base
    BY <2>1, <2>2
  <2> QED BY <2>2, <2>3 DEF Folds
<1>2. ASSUME NEW k \in 1..n, k - 1 \in P
      PROVE  Works(k)
  <2>1. PICK f : Folds(f, k - 1, V, base, step)
    BY <1>2
  <2> USE DEF Folds
  <2> step \in [(1..n) \X V -> V]
    BY DEF StepsIn
  <2>2. PICK g : g = [s \in SUBSET (1..k) |-> IF k \in s THEN step[<<k, f[s \ {k}]>>] ELSE f[s]]
    OBVIOUS
  <2>3. \A s \in SUBSET (1..k) : /\ s \ {k} \in SUBSET (1..(k - 1))
                                 /\ k \notin s => s \in SUBSET (1..(k - 1))
    OBVIOUS
  <2>4. g \in [SUBSET (1..k) -> V]
    <3>1. ASSUME NEW s \in SUBSET (1..k)
          PROVE  g[s] \in V
      <4>1. CASE k \in s
        <5>1. <<k, f[s \ {k}]>> \in (1..n) \X V
          BY <2>1, <2>3
        <5> QED BY <2>2, <4>1, <5>1
      <4>2. CASE k \notin s
        BY <2>1, <2>2, <2>3, <4>2
      <4> QED BY <4>1, <4>2
    <3> QED BY <2>2, <3>1
  <2>5. ASSUME NEW s \in SUBSET (1..k), s # {}
        PROVE  g[s] = step[<<Max(s), g[s \ {Max(s)}]>>]
    <3>1. CASE k \in s
      <4>1. Max(s) = k
        BY <3>1, TopOfRange, k - 1 \in Nat, k = (k - 1) + 1
      <4>2. g[s \ {k}] = f[s \ {k}]
        BY <2>2, k \notin s \ {k}, s \ {k} \in SUBSET (1..k)
      <4> QED BY <2>2, <3>1, <4>1, <4>2
    <3>2. CASE k \notin s
      <4>1. s \in SUBSET (1..(k - 1)) /\ g[s] = f[s]
        BY <2>2, <2>3, <3>2
      <4>2. f[s] = step[<<Max(s), f[s \ {Max(s)}]>>]
        BY <2>1, <2>5, <4>1
      <4>3. s \ {Max(s)} \in SUBSET (1..k) /\ k \notin s \ {Max(s)}
        BY <3>2
      <4> QED BY <2>2, <4>1, <4>2, <4>3
    <3> QED BY <3>1, <3>2
  <2>6. g[{}] = base
    BY <2>1, <2>2, {} \in SUBSET (1..k), {} \in SUBSET (1..(k - 1))
  <2> QED BY <2>4, <2>5, <2>6
<1>3. 0 \in P /\ \A k \in 1..n : k - 1 \in P => k \in P
  <2> HIDE DEF Works
  <2> QED BY <1>1, <1>2
<1>4. n \in P
  <2> HIDE DEF P
  <2> QED BY <1>3, Climb
<1> QED BY <1>4

LEMMA FirstNumbers ==
  ASSUME NEW n \in Nat, NEW i \in 1..n
  PROVE  /\ 1..i \in SUBSET (1..n) /\ 1..i # {}
         /\ Max(1..i) = i /\ (1..i) \ {i} = 1..(i - 1)
<1>1. 1..i \in SUBSET (1..((i - 1) + 1)) /\ i \in 1..i /\ i - 1 \in Nat /\ i = (i - 1) + 1
  OBVIOUS
<1>2. Max(1..i) = i
  BY <1>1, TopOfRange
<1> QED BY <1>2

LEMMA MaxIsMember ==
  ASSUME NEW n \in Nat, NEW s \in SUBSET (1..n), s # {}
  PROVE  Max(s) \in s
<1> DEFINE below == {n - x : x \in s}
<1>1. \A x \in s : n - x \in Nat
  OBVIOUS
<1>0. below \in SUBSET Nat /\ below # {}
  BY <1>1, Zenon
<1>2. \E i \in below : \A j \in below : i <= j
  <2> HIDE DEF below
  <2> QED BY <1>0, LeastOfNumbers
<1>3. PICK x \in s : \A y \in s : n - x <= n - y
  BY <1>2
<1>4. \A y \in s : x >= y
  BY <1>3
<1> QED BY <1>4 DEF Max

LEMMA AddFiltersFolds ==
  ASSUME NEW S, NEW filters \in Seq(S), NEW V, NEW where \in V,
         \A w \in V, x \in S : AddFilter(w, x) \in V
  PROVE  \E h : /\ h[0] = where
                /\ \A i \in 0..Len(filters) : h[i] \in V
                /\ \A i \in 1..Len(filters) : h[i] = AddFilter(h[i - 1], filters[i])
                /\ AddFilters(where, filters) = h[Len(filters)]
<1> DEFINE n == Len(filters)
           step == [p \in (1..n) \X V |-> AddFilter(p[2], filters[p[1]])]
           Fixed(g) == g = [s \in SUBSET (1..n) |->
                              IF s = {} THEN where
                              ELSE AddFilter(g[s \ {Max(s)}], filters[Max(s)])]
           f == CHOOSE g : Fixed(g)
           h == [i \in 0..n |-> f[1..i]]
<1>1. n \in Nat /\ DOMAIN filters = 1..n /\ \A i \in 1..n : filters[i] \in S
  OBVIOUS
<1>2. AddFilters(where, filters) = f[1..n]
  BY <1>1 DEF AddFilters, FoldLeft, MapThenFoldSet
<1>3. step \in StepsIn(n, V)
  BY <1>1 DEF StepsIn
<1>4. \E g : Fixed(g)
  <2>1. PICK g : Folds(g, n, V, where, step)
    <3> HIDE DEF n, step
    <3> QED BY <1>1, <1>3, FoldExists
  <2> USE DEF Folds
  <2>2. ASSUME NEW s \in SUBSET (1..n), s # {}
        PROVE  g[s] = AddFilter(g[s \ {Max(s)}], filters[Max(s)])
    <3>1. Max(s) \in 1..n
      BY <1>1, <2>2, MaxIsMember
    <3>2. s \ {Max(s)} \in SUBSET (1..n)
      OBVIOUS
    <3>3. <<Max(s), g[s \ {Max(s)}]>> \in (1..n) \X V
      BY <2>1, <3>1, <3>2
    <3> HIDE DEF n
    <3> QED BY <2>1, <2>2, <3>3
  <2>3. \A s \in SUBSET (1..n) : g[s] = IF s = {} THEN where
                                        ELSE AddFilter(g[s \ {Max(s)}], filters[Max(s)])
    BY <2>1, <2>2
  <2>4. Fixed(g)
    <3>1. g = [s \in SUBSET (1..n) |-> g[s]]
      BY <2>1
    <3> HIDE DEF n, step
    <3> QED BY <2>3, <3>1
  <2> QED BY <2>4
<1>5. Fixed(f)
  <2> HIDE DEF Fixed
  <2> QED BY <1>4
<1> HIDE DEF f
<1>6. h[0] = where
  BY <1>5, <1>1, 1..0 = {}, {} \in SUBSET (1..n)
<1>7. ASSUME NEW i \in 1..n
      PROVE  h[i] = AddFilter(h[i - 1], filters[i])
  <2>1. f[1..i] = AddFilter(f[(1..i) \ {Max(1..i)}], filters[Max(1..i)])
    BY <1>1, <1>5, FirstNumbers
  <2>2. f[1..i] = AddFilter(f[1..(i - 1)], filters[i])
    BY <1>1, <2>1, FirstNumbers
  <2> QED BY <2>2, <1>1
<1>8. \A i \in 0..n : h[i] \in V
  <2> DEFINE P == {i \in 0..n : h[i] \in V}
  <2>1. 0 \in P
    BY <1>6, <1>1
  <2>2. \A i \in 1..n : i - 1 \in P => i \in P
    <3> HIDE DEF h, n
    <3> QED BY <1>7, <1>1
  <2>3. 0..n \subseteq P
    <3> HIDE DEF P, n, h
    <3> QED BY <1>1, <2>1, <2>2, Climb
  <2> QED BY <2>3
<1>9. AddFilters(where, filters) = h[n]
  BY <1>1, <1>2
<1> HIDE DEF h, n
<1>10. QED BY <1>6, <1>7, <1>8, <1>9 DEF n

LEMMA UnitedRange ==
  ASSUME NEW S, NEW s \in Seq(S), NEW t \in Seq(S)
  PROVE  ToSet(s \o t) = ToSet(s) \union ToSet(t)
<1>1. /\ Len(s) \in Nat /\ Len(t) \in Nat
      /\ DOMAIN s = 1..Len(s) /\ DOMAIN t = 1..Len(t)
      /\ DOMAIN (s \o t) = 1..(Len(s) + Len(t))
      /\ \A i \in 1..Len(s) : (s \o t)[i] = s[i]
  OBVIOUS
<1>2. \A i \in 1..Len(t) : (s \o t)[Len(s) + i] = t[i] /\ Len(s) + i \in 1..(Len(s) + Len(t))
  OBVIOUS
<1>3. ASSUME NEW i \in 1..(Len(s) + Len(t))
      PROVE  (s \o t)[i] \in ToSet(s) \union ToSet(t)
  <2>1. CASE i \in 1..Len(s)
    BY <1>1, <2>1 DEF ToSet
  <2>2. CASE i \notin 1..Len(s)
    <3>1. i - Len(s) \in 1..Len(t) /\ i = Len(s) + (i - Len(s))
      BY <1>1, <2>2
    <3>2. (s \o t)[i] = t[i - Len(s)]
      BY <1>2, <3>1
    <3> QED BY <1>1, <3>1, <3>2 DEF ToSet
  <2> QED BY <2>1, <2>2
<1>4. ToSet(s) \subseteq ToSet(s \o t)
  BY <1>1 DEF ToSet
<1>5. ToSet(t) \subseteq ToSet(s \o t)
  <2>1. ASSUME NEW i \in 1..Len(t)
        PROVE  t[i] \in ToSet(s \o t)
    BY <1>1, <1>2 DEF ToSet
  <2> QED BY <1>1, <2>1 DEF ToSet
<1>6. ToSet(s \o t) \subseteq ToSet(s) \union ToSet(t)
  <2>1. \A x \in ToSet(s \o t) : \E i \in 1..(Len(s) + Len(t)) : x = (s \o t)[i]
    BY <1>1 DEF ToSet
  <2> QED BY <1>3, <2>1
<1> QED BY <1>4, <1>5, <1>6

\* A sequence of sequences has the elements of all of them.
LEMMA Flattened ==
  ASSUME NEW S, NEW seqs \in Seq(Seq(S))
  PROVE  /\ FlattenSeq(seqs) \in Seq(S)
         /\ ToSet(FlattenSeq(seqs)) = UNION {ToSet(seqs[i]) : i \in DOMAIN seqs}
<1> DEFINE n == Len(seqs)
           Fixed(g) == g = [i \in 1..n |-> IF i = 1 THEN seqs[i] ELSE g[i - 1] \o seqs[i]]
           f == CHOOSE g : Fixed(g)
           step == [p \in (1..n) \X Seq(S) |-> IF p[1] = 1 THEN seqs[1] ELSE p[2] \o seqs[p[1]]]
<1>1. n \in Nat /\ DOMAIN seqs = 1..n /\ \A i \in 1..n : seqs[i] \in Seq(S)
  OBVIOUS
<1>2. CASE n = 0
  <2>1. seqs = <<>>
    BY <1>2
  <2>2. FlattenSeq(seqs) = <<>>
    BY <1>2, <2>1 DEF FlattenSeq
  <2>3. ToSet(FlattenSeq(seqs)) = {} /\ FlattenSeq(seqs) \in Seq(S)
    BY <2>2 DEF ToSet
  <2>4. {ToSet(seqs[i]) : i \in DOMAIN seqs} = {}
    BY <1>1, <1>2
  <2> QED BY <2>3, <2>4
<1>3. CASE n # 0
  <2>1. FlattenSeq(seqs) = f[n]
    BY <1>3 DEF FlattenSeq
  <2>2. step \in StepsIn(n, Seq(S))
    <3>1. \A p \in (1..n) \X Seq(S) :
             (IF p[1] = 1 THEN seqs[1] ELSE p[2] \o seqs[p[1]]) \in Seq(S)
      BY <1>1, <1>3
    <3> QED BY <3>1 DEF StepsIn
  <2>3. PICK fold : Folds(fold, n, Seq(S), <<>>, step)
    <3>1. <<>> \in Seq(S)
      OBVIOUS
    <3> HIDE DEF n, step
    <3> QED BY <1>1, <2>2, <3>1, FoldExists
  <2>4. \E g : Fixed(g)
    <3>1. PICK g : g = [i \in 1..n |-> fold[1..i]]
      OBVIOUS
    <3>2. ASSUME NEW i \in 1..n
          PROVE  g[i] = IF i = 1 THEN seqs[i] ELSE g[i - 1] \o seqs[i]
      <4>1. fold[1..i] = step[<<i, fold[1..(i - 1)]>>]
        <5>1. fold[1..i] = step[<<Max(1..i), fold[(1..i) \ {Max(1..i)}]>>]
          <6> HIDE DEF step
          <6> QED BY <1>1, <2>3, FirstNumbers DEF Folds
        <5> HIDE DEF n, step
        <5> QED BY <1>1, <5>1, FirstNumbers
      <4>2. fold[1..(i - 1)] \in Seq(S)
        <5>1. 1..(i - 1) \in SUBSET (1..n)
          BY <1>1
        <5> HIDE DEF n, step
        <5> QED BY <2>3, <5>1 DEF Folds
      <4>3. <<i, fold[1..(i - 1)]>> \in (1..n) \X Seq(S)
        BY <4>2
      <4>4. fold[1..i] = IF i = 1 THEN seqs[1] ELSE fold[1..(i - 1)] \o seqs[i]
        <5> HIDE DEF n
        <5> QED BY <4>1, <4>3
      <4> HIDE DEF n
      <4> QED BY <1>1, <3>1, <4>4
    <3>3. g = [i \in 1..n |-> g[i]]
      BY <3>1
    <3>4. Fixed(g)
      <4> HIDE DEF n
      <4> QED BY <3>2, <3>3
    <3> QED BY <3>4
  <2>5. Fixed(f)
    <3> HIDE DEF Fixed
    <3> QED BY <2>4
  <2> HIDE DEF f, step
  <2> DEFINE All(i) == UNION {ToSet(seqs[j]) : j \in 1..i}
             P == {i \in 0..n : i = 0 \/ (f[i] \in Seq(S) /\ ToSet(f[i]) = All(i))}
  <2>6. ASSUME NEW i \in 1..n, i - 1 \in P
        PROVE  i \in P
    <3>1. CASE i = 1
      <4>1. f[i] = seqs[1]
        BY <2>5, <3>1
      <4>2. All(1) = ToSet(seqs[1])
        OBVIOUS
      <4> QED BY <1>1, <3>1, <4>1, <4>2
    <3>2. CASE i # 1
      <4>1. f[i] = f[i - 1] \o seqs[i]
        BY <2>5, <3>2
      <4>2. f[i - 1] \in Seq(S) /\ ToSet(f[i - 1]) = All(i - 1) /\ seqs[i] \in Seq(S)
        BY <1>1, <2>6, <3>2
      <4>3. All(i) = All(i - 1) \union ToSet(seqs[i])
        <5>1. 1..i = (1..(i - 1)) \union {i}
          BY <1>1
        <5> QED BY <5>1
      <4>4. ToSet(f[i - 1] \o seqs[i]) = ToSet(f[i - 1]) \union ToSet(seqs[i])
        <5> HIDE DEF All, n
        <5> QED BY <4>2, UnitedRange
      <4>5. f[i] \in Seq(S)
        BY <4>1, <4>2
      <4> HIDE DEF All
      <4>6. ToSet(f[i]) = All(i)
        BY <4>1, <4>2, <4>3, <4>4
      <4>7. i \in 0..n
        BY <1>1
      <4> QED BY <4>5, <4>6, <4>7
    <3> QED BY <3>1, <3>2
  <2>7. 0..n \subseteq P
    <3>1. 0 \in P
      BY <1>1
    <3> HIDE DEF P, n
    <3> QED BY <1>1, <2>6, <3>1, Climb
  <2>8. f[n] \in Seq(S) /\ ToSet(f[n]) = All(n)
    <3>1. n \in 0..n
      BY <1>1
    <3> HIDE DEF n, All
    <3> QED BY <1>3, <2>7, <3>1
  <2> QED BY <1>1, <2>1, <2>8
<1> QED BY <1>2, <1>3

LEMMA WithoutOmits ==
  ASSUME NEW S, NEW seq \in Seq(S), NEW T
  PROVE  /\ Without(seq, T) \in Seq(S)
         /\ ToSet(Without(seq, T)) = ToSet(seq) \ T
<1> DEFINE parts == [i \in DOMAIN seq |-> IF seq[i] \in T THEN <<>> ELSE <<seq[i]>>]
<1>1. DOMAIN seq = 1..Len(seq) /\ Len(seq) \in Nat /\ \A i \in 1..Len(seq) : seq[i] \in S
  OBVIOUS
<1>2. parts \in Seq(Seq(S)) /\ DOMAIN parts = DOMAIN seq
  <2>1. \A i \in 1..Len(seq) : (IF seq[i] \in T THEN <<>> ELSE <<seq[i]>>) \in Seq(S)
    BY <1>1
  <2> QED BY <1>1, <2>1
<1>3. Without(seq, T) = FlattenSeq(parts)
  BY DEF Without
<1>4. ToSet(<<>>) = {} /\ \A c : ToSet(<<c>>) = {c}
  BY DEF ToSet
<1>5. \A i \in DOMAIN seq : ToSet(parts[i]) = IF seq[i] \in T THEN {} ELSE {seq[i]}
  BY <1>4
<1>6. UNION {ToSet(parts[i]) : i \in DOMAIN parts} = ToSet(seq) \ T
  <2> HIDE DEF parts
  <2>1. ASSUME NEW i \in DOMAIN parts
        PROVE  ToSet(parts[i]) \subseteq ToSet(seq) \ T
    <3>1. seq[i] \in ToSet(seq) /\ ToSet(parts[i]) = IF seq[i] \in T THEN {} ELSE {seq[i]}
      <4>1. i \in DOMAIN seq
        BY <1>2
      <4>2. ToSet(parts[i]) = IF seq[i] \in T THEN {} ELSE {seq[i]}
        BY <1>5, <4>1
      <4> QED BY <4>1, <4>2 DEF ToSet
    <3> QED BY <3>1
  <2>2. ASSUME NEW c \in ToSet(seq) \ T
        PROVE  \E i \in DOMAIN parts : c \in ToSet(parts[i])
    BY <1>2, <1>5 DEF ToSet
  <2> QED BY <2>1, <2>2
<1> HIDE DEF parts
<1> QED BY <1>2, <1>3, <1>6, Flattened

LEMMA ListedSet ==
  ASSUME NEW S, IsFiniteSet(S)
  PROVE  /\ SetToSeq(S) \in Seq(S)
         /\ ToSet(SetToSeq(S)) = S
<1>1. Cardinality(S) \in Nat /\ ExistsBijection(1..Cardinality(S), S)
  BY FS_CardinalityType
<1>2. \E f \in [1..Cardinality(S) -> S] : IsInjective(f)
  BY <1>1 DEF ExistsBijection, Bijection, Injection
<1>3. SetToSeq(S) \in [1..Cardinality(S) -> S] /\ IsInjective(SetToSeq(S))
  BY <1>2 DEF SetToSeq
<1>4. SetToSeq(S) \in Injection(1..Cardinality(S), S)
  BY <1>3 DEF Injection
<1>5. IsFiniteSet(1..Cardinality(S)) /\ Cardinality(1..Cardinality(S)) = Cardinality(S)
  <2>1. IsFiniteSet(1..Cardinality(S)) /\ Cardinality(1..Cardinality(S)) =
          IF 1 > Cardinality(S) THEN 0 ELSE Cardinality(S) - 1 + 1
    BY <1>1, 1 \in Int, Cardinality(S) \in Int, FS_Interval
  <2> QED BY <1>1, <2>1
<1>6. SetToSeq(S) \in Surjection(1..Cardinality(S), S)
  BY <1>4, <1>5, FS_Injection
<1>7. SetToSeq(S) \in Seq(S) /\ DOMAIN SetToSeq(S) = 1..Cardinality(S)
  BY <1>1, <1>3
<1>8. \A x \in S : \E i \in 1..Cardinality(S) : SetToSeq(S)[i] = x
  BY <1>6 DEF Surjection
<1> QED BY <1>3, <1>7, <1>8 DEF ToSet

\* What findFilteringFieldsUtil returns are the filters on columns of the
\* structure.
LEMMA FilteringFieldsAre ==
  ASSUME NEW w \in Wants, NEW S, NEW structure \in Seq(S)
  PROVE  /\ FilteringFields(w, structure) \in Seq(w.filters)
         /\ ToSet(FilteringFields(w, structure)) = {f \in w.filters : f.field \in ToSet(structure)}
<1> DEFINE of(field, criterion) == {f \in w.filters : f.field = field /\ f.criterion = criterion}
           given(field, criterion) == SetToSeq(of(field, criterion))
           parts(field) == [i \in DOMAIN CriteriaInOrder |-> given(field, CriteriaInOrder[i])]
           all(field) == FlattenSeq(parts(field))
           seqs == [i \in DOMAIN structure |-> all(structure[i])]
<1>1. /\ DOMAIN CriteriaInOrder = 1..10 /\ ToSet(CriteriaInOrder) = Criteria
      /\ DOMAIN structure = 1..Len(structure) /\ Len(structure) \in Nat
  <2>1. DOMAIN CriteriaInOrder = 1..10
    BY DEF CriteriaInOrder
  <2>2. 1..10 = {1, 2, 3, 4, 5, 6, 7, 8, 9, 10}
    OBVIOUS
  <2>3. ToSet(CriteriaInOrder) = Criteria
    BY <2>1, <2>2 DEF ToSet, CriteriaInOrder, Criteria
  <2> QED BY <2>1, <2>3
<1>2. IsFiniteSet(w.filters) /\ \A f \in w.filters : f.criterion \in Criteria
  BY QueriesAssumption
<1>3. ASSUME NEW field, NEW criterion
      PROVE  /\ given(field, criterion) \in Seq(w.filters)
             /\ ToSet(given(field, criterion)) = of(field, criterion)
  <2>1. of(field, criterion) \subseteq w.filters
    OBVIOUS
  <2>2. IsFiniteSet(of(field, criterion))
    <3> HIDE DEF of
    <3> QED BY <1>2, <2>1, FS_Subset
  <2>3. /\ given(field, criterion) \in Seq(of(field, criterion))
        /\ ToSet(given(field, criterion)) = of(field, criterion)
    <3> HIDE DEF of
    <3> QED BY <2>2, ListedSet
  <2> HIDE DEF of
  <2>4. \A T \in SUBSET w.filters : \A s \in Seq(T) : s \in Seq(w.filters)
    OBVIOUS
  <2> QED BY <2>1, <2>3, <2>4
<1> HIDE DEF given
<1>4. ASSUME NEW field
      PROVE  /\ all(field) \in Seq(w.filters)
             /\ ToSet(all(field)) = {f \in w.filters : f.field = field}
  <2>1. parts(field) \in Seq(Seq(w.filters)) /\ DOMAIN parts(field) = 1..10
    <3>1. parts(field) \in [1..10 -> Seq(w.filters)]
      BY <1>1, <1>3
    <3>2. \A X : \A n \in Nat : \A s \in [1..n -> X] : s \in Seq(X)
      OBVIOUS
    <3> HIDE DEF parts
    <3> QED BY <3>1, <3>2, 10 \in Nat
  <2>2. /\ all(field) \in Seq(w.filters)
        /\ ToSet(all(field)) = UNION {ToSet(parts(field)[i]) : i \in DOMAIN parts(field)}
    <3> HIDE DEF parts
    <3> QED BY <2>1, Flattened
  <2>3. \A i \in 1..10 : ToSet(parts(field)[i]) = of(field, CriteriaInOrder[i])
    BY <1>1, <1>3
  <2>4. ASSUME NEW f \in w.filters, f.field = field
        PROVE  \E i \in 1..10 : f \in of(field, CriteriaInOrder[i])
    BY <1>1, <1>2, <2>4 DEF ToSet
  <2> HIDE DEF parts
  <2>5. \A i \in 1..10 : ToSet(parts(field)[i]) \subseteq {f \in w.filters : f.field = field}
    BY <2>3
  <2>6. UNION {ToSet(parts(field)[i]) : i \in 1..10} = {f \in w.filters : f.field = field}
    <3> HIDE DEF of
    <3>1. \A f \in w.filters : f.field = field => \E i \in 1..10 : f \in ToSet(parts(field)[i])
      BY <2>3, <2>4
    <3> QED BY <2>5, <3>1
  <2> QED BY <2>1, <2>2, <2>6
<1>5. seqs \in Seq(Seq(w.filters)) /\ DOMAIN seqs = DOMAIN structure
  <2> HIDE DEF all
  <2> QED BY <1>1, <1>4
<1>6. FilteringFields(w, structure) = FlattenSeq(seqs)
  BY DEF FilteringFields, given
<1>7. UNION {ToSet(seqs[i]) : i \in DOMAIN seqs} = {f \in w.filters : f.field \in ToSet(structure)}
  <2>1. \A i \in DOMAIN structure : ToSet(seqs[i]) = {f \in w.filters : f.field = structure[i]}
    <3> HIDE DEF all
    <3> QED BY <1>4
  <2> HIDE DEF seqs
  <2>2. \A i \in DOMAIN structure : structure[i] \in ToSet(structure)
    BY DEF ToSet
  <2>3. \A f \in w.filters : f.field \in ToSet(structure)
           => \E i \in DOMAIN structure : f \in ToSet(seqs[i])
    BY <2>1 DEF ToSet
  <2>4. \A i \in DOMAIN structure :
           ToSet(seqs[i]) \subseteq {f \in w.filters : f.field \in ToSet(structure)}
    BY <2>1, <2>2
  <2> QED BY <1>5, <2>3, <2>4
<1> HIDE DEF seqs
<1> QED BY <1>5, <1>6, <1>7, Flattened

\* Filters other than for empty fields make one group of tests, or no
\* condition.
LEMMA FiltersAreOneGroup ==
  ASSUME NEW S, NEW filters \in Seq(S), \A f \in S : f.criterion # "empty"
  PROVE  AddFilters(<<>>, filters) = IF filters = <<>> THEN <<>> ELSE <<ToSet(filters)>>
<1> DEFINE n == Len(filters)
           Conditions == {<<>>} \union {<<T>> : T \in SUBSET S}
           First(i) == {filters[j] : j \in 1..i}
<1>1. n \in Nat /\ DOMAIN filters = 1..n /\ \A i \in 1..n : filters[i] \in S
  OBVIOUS
<1>2. \A x \in S : AddFilter(<<>>, x) = <<{x}>>
  BY DEF AddFilter, And
<1>3. \A x \in S, T \in SUBSET S : AddFilter(<<T>>, x) = <<T \union {x}>>
  <2>1. ASSUME NEW x \in S, NEW T \in SUBSET S
        PROVE  AddFilter(<<T>>, x) = <<T \union {x}>>
    <3>1. AddFilter(<<T>>, x) = [<<T>> EXCEPT ![1] = @ \union {x}]
      <4>1. <<T>> # <<>> /\ Len(<<T>>) = 1
        OBVIOUS
      <4> QED BY <4>1, x.criterion # "empty" DEF AddFilter, And
    <3> QED BY <3>1
  <2> QED BY <2>1
<1>4. \A c \in Conditions, x \in S : AddFilter(c, x) \in Conditions
  <2>1. ASSUME NEW x \in S, NEW T \in SUBSET S
        PROVE  AddFilter(<<T>>, x) \in Conditions
    <3>1. T \union {x} \in SUBSET S
      OBVIOUS
    <3> QED BY <1>3, <3>1
  <2>2. \A x \in S : AddFilter(<<>>, x) \in Conditions
    BY <1>2
  <2> QED BY <2>1, <2>2
<1>5. PICK h : /\ h[0] = <<>>
               /\ \A i \in 1..n : h[i] = AddFilter(h[i - 1], filters[i])
               /\ AddFilters(<<>>, filters) = h[n]
  <2>1. <<>> \in Conditions
    OBVIOUS
  <2> HIDE DEF Conditions
  <2> QED BY <1>4, <2>1, AddFiltersFolds
<1> DEFINE P == {i \in 0..n : i = 0 \/ h[i] = <<First(i)>>}
<1>6. ASSUME NEW i \in 1..n, i - 1 \in P
      PROVE  i \in P
  <2>1. CASE i = 1
    <3>1. h[1] = <<{filters[1]}>>
      BY <1>1, <1>2, <1>5, <2>1
    <3>2. First(1) = {filters[1]}
      OBVIOUS
    <3> QED BY <1>1, <2>1, <3>1, <3>2
  <2>2. CASE i # 1
    <3>1. h[i - 1] = <<First(i - 1)>>
      BY <1>6, <2>2
    <3>2. First(i - 1) \in SUBSET S
      BY <1>1
    <3>3. h[i] = <<First(i - 1) \union {filters[i]}>>
      <4> HIDE DEF First
      <4> QED BY <1>1, <1>3, <1>5, <3>1, <3>2
    <3>4. First(i) = First(i - 1) \union {filters[i]}
      <4>1. 1..i = (1..(i - 1)) \union {i}
        BY <1>1
      <4> QED BY <4>1
    <3> QED BY <1>1, <3>3, <3>4
  <2> QED BY <2>1, <2>2
<1>7. 0..n \subseteq P
  <2>1. 0 \in P
    BY <1>1
  <2> HIDE DEF P, n
  <2> QED BY <1>1, <1>6, <2>1, Climb
<1>8. n = 0 \/ h[n] = <<ToSet(filters)>>
  <2>1. n \in 0..n /\ First(n) = ToSet(filters)
    BY <1>1 DEF ToSet
  <2> HIDE DEF n, First
  <2> QED BY <1>7, <2>1
<1>9. filters = <<>> <=> n = 0
  OBVIOUS
<1> QED BY <1>5, <1>8, <1>9
-----------------------------------------------------------------------------
(***************************************************************************)
(* Pages.                                                                  *)
(***************************************************************************)
\* Ordered by a column without duplicates, rows are delivered in one order.
LEMMA UniqueDelivery ==
  ASSUME NEW rows, IsFiniteSet(rows), NEW column, column # Undefined,
         \A row \in rows : row[column] \in Nat \ {Null},
         \A a, b \in rows : a[column] = b[column] => a = b,
         NEW s \in Deliveries(rows, column), NEW t \in Deliveries(rows, column)
  PROVE  s = t
<1> DEFINE n == Cardinality(rows)
<1>1. n \in Nat
  BY FS_CardinalityType
<1>2. \A u \in Deliveries(rows, column) :
         /\ u \in [1..n -> rows]
         /\ \A i, j \in 1..n : u[i] = u[j] => i = j
         /\ \A i, j \in 1..n : i < j => u[i][column] <= u[j][column]
  BY DEF Deliveries
<1>3. \A u \in Deliveries(rows, column), x \in rows : \E i \in 1..n : u[i] = x
  <2>1. ASSUME NEW u \in Deliveries(rows, column)
        PROVE  u \in Surjection(1..n, rows)
    <3>1. u \in Injection(1..n, rows)
      BY <1>2 DEF Injection, IsInjective
    <3>2. Cardinality(1..n) = n
      <4>1. Cardinality(1..n) = IF 1 > n THEN 0 ELSE n - 1 + 1
        BY <1>1, 1 \in Int, n \in Int, FS_Interval
      <4> QED BY <1>1, <4>1
    <3> QED BY <3>1, <3>2, FS_Injection
  <2> QED BY <2>1 DEF Surjection
<1> DEFINE T == {i \in 1..n : s[i] # t[i]}
<1>4. CASE T = {}
  <2>1. \A i \in 1..n : s[i] = t[i]
    BY <1>4
  <2>2. s \in [1..n -> rows] /\ t \in [1..n -> rows]
    BY <1>2
  <2>3. s = [i \in 1..n |-> s[i]] /\ t = [i \in 1..n |-> t[i]]
    BY <2>2
  <2> HIDE DEF n
  <2>4. [i \in 1..n |-> s[i]] = [i \in 1..n |-> t[i]]
    BY <2>1
  <2> QED BY <2>3, <2>4
<1>5. CASE T # {}
  <2>1. PICK i \in T : \A j \in T : i <= j
    <3>1. T \in SUBSET Nat
      BY <1>1
    <3> HIDE DEF T
    <3> QED BY <1>5, <3>1, LeastOfNumbers
  <2>2. \A j \in 1..n : j < i => s[j] = t[j]
    BY <1>1, <2>1
  <2> HIDE DEF n
  <2>3. PICK j \in 1..n : t[j] = s[i]
    BY <1>2, <1>3
  <2>4. PICK k \in 1..n : s[k] = t[i]
    BY <1>2, <1>3
  <2>5. j > i /\ k > i
    BY <1>1, <1>2, <2>1, <2>2, <2>3, <2>4
  <2>6. t[i][column] <= s[i][column] /\ s[i][column] <= t[i][column]
    BY <1>2, <2>3, <2>4, <2>5
  <2>7. s[i] \in rows /\ t[i] \in rows
    BY <1>2
  <2> QED BY <2>1, <2>6, <2>7
<1> QED BY <1>4, <1>5

\* Of two pages, the first ends before the second begins.
LEMMA PagesAreApart ==
  ASSUME NEW p \in Nat, NEW q \in Nat, NEW per \in Nat, p < q
  PROVE  p * per + per <= q * per
<1>1. PICK d \in Nat : q = p + 1 + d
  BY q - p - 1 \in Nat, q = p + 1 + (q - p - 1)
<1>2. q * per = p * per + per + d * per /\ d * per \in Nat /\ p * per \in Nat
  BY <1>1
<1> QED BY <1>2

Positive == Nat \ {0}
\* The number of rows before a page.
Before(number, per) == (number - 1) * per

LEMMA SliceIs ==
  ASSUME NEW S, NEW seq \in Seq(S), NEW number \in Positive, NEW per \in Positive
  PROVE  /\ Len(seq) - Before(number, per) <= 0 => Len(Slice(seq, number, per)) = 0
         /\ ~(Len(seq) - Before(number, per) <= 0) =>
              Len(Slice(seq, number, per)) = LeastOf(Len(seq) - Before(number, per), per)
         /\ \A x \in ToSet(Slice(seq, number, per)) :
              \E i \in 1..Len(seq) : /\ x = seq[i] /\ Before(number, per) < i
                                    /\ i <= Before(number, per) + per
<1>0. PICK first, n : first = (number - 1) * per /\ n = Len(seq) /\ first = Before(number, per)
  BY DEF Before
<1> USE DEF Positive
<1> DEFINE m == LeastOf(first + per, n)
           slice == SubSeq(seq, first + 1, m)
<1>1. first \in Nat /\ n \in Nat /\ Slice(seq, number, per) = slice
  <2>1. (number - 1) * per \in Nat
    BY number - 1 \in Nat
  <2> QED BY <1>0, <2>1 DEF Slice
<1>2. m \in Nat /\ m <= n /\ m <= first + per
  BY <1>1 DEF LeastOf
<1>3. /\ Len(slice) = IF first + 1 <= m THEN m - first ELSE 0
      /\ DOMAIN slice = 1..Len(slice)
      /\ \A i \in 1..Len(slice) : slice[i] = seq[first + i]
  <2>1. \A i \in (first + 1)..m : seq[i] \in S
    <3>1. \A i \in 1..n : seq[i] \in S
      BY <1>0
    <3>2. \A i \in (first + 1)..m : i \in 1..n
      <4> HIDE DEF m
      <4> QED BY <1>1, <1>2
    <3> HIDE DEF m
    <3> QED BY <3>1, <3>2
  <2>2. first + 1 \in Int /\ m \in Int
    BY <1>1, <1>2
  <2> HIDE DEF m
  <2>3. /\ slice \in Seq(S)
        /\ Len(slice) = IF first + 1 <= m THEN m - (first + 1) + 1 ELSE 0
        /\ \A i \in 1..(m - (first + 1) + 1) : slice[i] = seq[(first + 1) + i - 1]
    BY <2>1, <2>2, SubSeqProperties
  <2>4. m - (first + 1) + 1 = m - first /\ \A i \in Int : (first + 1) + i - 1 = first + i
    BY <1>1, <1>2
  <2>5. Len(slice) = IF first + 1 <= m THEN m - first ELSE 0
    BY <2>3, <2>4
  <2>6. \A i \in 1..Len(slice) : slice[i] = seq[first + i]
    BY <1>1, <1>2, <2>3, <2>4, <2>5
  <2> HIDE DEF slice
  <2> QED BY <2>3, <2>5, <2>6
<1> HIDE DEF slice
<1>4. Len(slice) = IF n - first <= 0 THEN 0 ELSE LeastOf(n - first, per)
  BY <1>1, <1>3 DEF LeastOf
<1>5. ToSet(slice) = {seq[i] : i \in {k \in 1..n : first < k /\ k <= first + per}}
  <2> DEFINE K == {k \in 1..n : first < k /\ k <= first + per}
  <2>1. \A i \in 1..Len(slice) : first + i \in K
    BY <1>1, <1>3 DEF LeastOf
  <2>2. \A k \in K : k - first \in 1..Len(slice) /\ first + (k - first) = k
    BY <1>1, <1>3 DEF LeastOf
  <2> HIDE DEF K, slice
  <2>3. \A x \in ToSet(slice) : \E k \in K : x = seq[k]
    BY <1>3, <2>1 DEF ToSet
  <2>4. \A k \in K : seq[k] \in ToSet(slice)
    BY <1>3, <2>2 DEF ToSet
  <2> QED BY <2>3, <2>4 DEF K
<1>6. ASSUME NEW x \in ToSet(slice)
      PROVE  \E i \in 1..n : x = seq[i] /\ first < i /\ i <= first + per
  BY <1>5, <1>6
<1> QED BY <1>0, <1>1, <1>4, <1>6

LEMMA SliceIsPart ==
  ASSUME NEW S, NEW seq \in Seq(S), NEW number \in Positive, NEW per \in Positive
  PROVE  ToSet(Slice(seq, number, per)) \subseteq ToSet(seq)
<1>1. DOMAIN seq = 1..Len(seq)
  OBVIOUS
<1>2. \A x \in ToSet(Slice(seq, number, per)) : \E i \in DOMAIN seq : x = seq[i]
  BY <1>1, SliceIs
<1> QED BY <1>2 DEF ToSet
-----------------------------------------------------------------------------
(***************************************************************************)
(* What is known of a request at each of its places.  A request selects    *)
(* once its query is checked, it has a page once the rows were delivered,  *)
(* and the pagination once the rows are numbered.                          *)
(***************************************************************************)
Limits  == {"oracle", "mysql_ssh"}
Listing == {"count", "rows", "refs"}
Adding  == {"insert", "lastId"}

Answered(r) == reply[r] = "ok" /\ want[r].op # "add"
Selects(r)  == pc[r] \in Listing \/ Answered(r)
HasPage(r)  == pc[r] = "refs" \/ (pc[r] = "count" /\ dialect = "oracle") \/ Answered(r)
HasTotal(r) == pc[r] = "refs" \/ Answered(r)
Plain(r)    == want[r].referenced = Undefined
Whole(r)    == want[r].filters = {} /\ want[r].search = Undefined /\ table # {}

PerPageOf(d, q) ==
  IF q.perPage = Undefined /\ d \notin Limits THEN LibraryPerPage ELSE q.perPage
PageOf(d, q, seq) ==
  IF q.perPage = Undefined /\ d \in Limits THEN seq ELSE Slice(seq, q.page, PerPageOf(d, q))

AnswerForm(a) ==
  a = [data |-> a.data, shown |-> a.shown, total |-> a.total, lastPage |-> a.lastPage,
       perPage |-> a.perPage, refs |-> a.refs, key |-> a.key]

Checked(w, s, q) ==
  /\ q = [using |-> s, filters |-> q.filters, search |-> w.search, order |-> q.order,
          autocomplete |-> q.autocomplete, available |-> q.available,
          page |-> Page(w), perPage |-> PerPage(w, s)]
  /\ w.referenced = Undefined => q.autocomplete = <<>>
  /\ q.filters \in Seq(w.filters)
  /\ ListedOnce(s) => ToSet(q.available) \cap s.excluded_fields = {}

PlaceInv(r) ==
  /\ pc[r] \in {"unsent", "read", "done"} \union
               (IF want[r].op = "add" THEN Adding ELSE Listing)
  /\ reply[r] = "ok" => pc[r] = "done"
  /\ AnswerForm(answer[r])

KeyInv(r) ==
  /\ (pc[r] = "lastId" /\ dialect = "mysql_ssh" /\ r \notin changed) => lastId[Driver] = added[r]
  /\ (/\ want[r].op = "add" /\ reply[r] = "ok"
      /\ \/ dialect \in {"postgres", "mssql"}
         \/ dialect = "mysql_ssh" /\ r \notin changed)
     => answer[r].key = added[r]

QueryInv(r) ==
  Selects(r) =>
    /\ Checked(want[r], settings, query[r])
    /\ r \notin changed \union stale =>
         ToSet(query[r].filters) = {f \in want[r].filters : f.field \in present}

PageInv(r) ==
  (HasPage(r) /\ Plain(r)) =>
    /\ query[r].available # <<>> => answer[r].shown = ToSet(query[r].available)
    /\ \A row \in ToSet(answer[r].data) : Satisfies(row, Where(query[r]))
    /\ Still => \E seq \in Deliveries(Matching(Where(query[r])), query[r].order) :
                   answer[r].data = PageOf(dialect, query[r], seq)

TotalInv(r) ==
  (Still /\ Plain(r)) =>
    /\ (pc[r] = "rows" /\ dialect = "mysql_ssh" /\ Whole(r)) => counted[r] = Cardinality(table)
    /\ HasTotal(r) =>
         /\ answer[r].perPage = PerPageOf(dialect, query[r])
         /\ (dialect \in Limits /\ Whole(r)) => answer[r].total = Cardinality(table)
         /\ (dialect \notin Limits /\ Matching(Where(query[r])) # {}) =>
               answer[r].total = Cardinality(Matching(Where(query[r])))

RefsInv(r) ==
  Answered(r) =>
    \A k \in DOMAIN ForeignKeys :
      (\A j \in DOMAIN ForeignKeys : ForeignKeys[j].table = ForeignKeys[k].table => k <= j)
        => answer[r].refs[k] =
             CellsOf(r, ForeignKeys[k].column) \cap Referenced[ForeignKeys[k].table]

RequestInv(r) == /\ PlaceInv(r) /\ KeyInv(r) /\ QueryInv(r)
                 /\ PageInv(r) /\ TotalInv(r) /\ RefsInv(r)

Shape ==
  /\ pc = [r \in Calls |-> pc[r]] /\ want \in [Calls -> Wants]
  /\ query = [r \in Calls |-> query[r]] /\ counted = [r \in Calls |-> counted[r]]
  /\ answer = [r \in Calls |-> answer[r]] /\ added = [r \in Calls |-> added[r]]
  /\ reply = [r \in Calls |-> reply[r]] /\ lastId = [s \in Sessions |-> lastId[s]]
  /\ nextId \in Nat /\ events \in Nat
  /\ settings \in SettingsChoices
  /\ cached = Undefined \/ cached \in Seq(Names)
  /\ IsFiniteSet(table) /\ (Still => table \in InitialTables)

QueriesInv == Shape /\ \A r \in Calls : RequestInv(r)

(* A step in which only the requests in S act.                             *)
Outside(S) ==
  /\ dialect' = dialect /\ settings' = settings /\ want' = want
  /\ \A q \in Calls \ S :
        /\ pc'[q] = pc[q] /\ query'[q] = query[q] /\ counted'[q] = counted[q]
        /\ answer'[q] = answer[q] /\ reply'[q] = reply[q] /\ added'[q] = added[q]
        /\ q \in stale' <=> q \in stale
        /\ pc[q] \in {"unsent", "done"} \/ q \in changed' \/ lastId' = lastId
        /\ pc[q] = "unsent" \/ q \in changed' \/ present' = present
  /\ changed \subseteq changed'
  /\ Still' => Still /\ table' = table

-----------------------------------------------------------------------------
(***************************************************************************)
(* Every step keeps what is known.  OthersKeep says of the other requests, *)
(* once for all steps, that a step in which they do not act keeps theirs.  *)
(***************************************************************************)
LEMMA OthersKeep ==
  ASSUME NEW S, NEW q \in Calls, q \notin S, RequestInv(q), Outside(S), Shape, Shape'
  PROVE  RequestInv(q)'
<1>1. /\ dialect' = dialect /\ settings' = settings /\ want'[q] = want[q]
      /\ pc'[q] = pc[q] /\ query'[q] = query[q] /\ counted'[q] = counted[q]
      /\ answer'[q] = answer[q] /\ reply'[q] = reply[q] /\ added'[q] = added[q]
      /\ q \in stale' <=> q \in stale
      /\ pc[q] \in {"unsent", "done"} \/ q \in changed' \/ lastId' = lastId
      /\ pc[q] = "unsent" \/ q \in changed' \/ present' = present
      /\ q \in changed => q \in changed'
      /\ Still' => Still /\ table' = table
  BY DEF Outside
<1>2. PlaceInv(q)'
  BY <1>1 DEF RequestInv, PlaceInv
<1>3. KeyInv(q)'
  BY <1>1 DEF RequestInv, KeyInv
<1>4. QueryInv(q)'
  <2>1. Selects(q)' <=> Selects(q)
    BY <1>1 DEF Selects, Answered
  <2>2. SUFFICES ASSUME Selects(q)
                 PROVE  /\ Checked(want[q], settings, query[q])
                        /\ q \notin changed' \union stale' =>
                             ToSet(query[q].filters) = {f \in want[q].filters : f.field \in present'}
    BY <1>1, <2>1 DEF QueryInv
  <2>3. pc[q] # "unsent"
    BY <2>2 DEF RequestInv, PlaceInv, Selects, Answered, Listing
  <2> QED BY <1>1, <2>2, <2>3 DEF RequestInv, QueryInv
<1>5. PageInv(q)'
  <2>1. HasPage(q)' <=> HasPage(q)
    BY <1>1 DEF HasPage, Answered
  <2>2. Plain(q)' <=> Plain(q)
    BY <1>1 DEF Plain
  <2>3. Still' => Matching(Where(query[q]))' = Matching(Where(query[q]))
    BY <1>1 DEF Matching
  <2> QED BY <1>1, <2>1, <2>2, <2>3 DEF RequestInv, PageInv
<1>6. TotalInv(q)'
  <2>1. HasTotal(q)' <=> HasTotal(q)
    BY <1>1 DEF HasTotal, Answered
  <2>2. Plain(q)' <=> Plain(q)
    BY <1>1 DEF Plain
  <2>3. Still' => Matching(Where(query[q]))' = Matching(Where(query[q])) /\ Whole(q)' = Whole(q)
    BY <1>1 DEF Matching, Whole
  <2> QED BY <1>1, <2>1, <2>2, <2>3 DEF RequestInv, TotalInv
<1>7. RefsInv(q)'
  <2>1. Answered(q)' <=> Answered(q)
    BY <1>1 DEF Answered
  <2>2. \A column : CellsOf(q, column)' = CellsOf(q, column)
    BY <1>1 DEF CellsOf, Shows
  <2> QED BY <1>1, <2>1, <2>2 DEF RequestInv, RefsInv
<1> QED BY <1>2, <1>3, <1>4, <1>5, <1>6, <1>7 DEF RequestInv

LEMMA InitEstablishes == QueriesInit => QueriesInv
<1> SUFFICES ASSUME QueriesInit
             PROVE  QueriesInv
  OBVIOUS
<1> USE DEF QueriesInit
<1>1. Shape
  <2>1. IsFiniteSet(table) /\ Cardinality(table) \in Nat
    BY QueriesAssumption, FS_CardinalityType
  <2> QED BY <2>1 DEF Shape, Empty
<1>2. ASSUME NEW r \in Calls
      PROVE  RequestInv(r)
  <2>1. pc[r] = "unsent" /\ reply[r] = "none" /\ answer[r] = NoAnswer
    OBVIOUS
  <2>2. PlaceInv(r) /\ KeyInv(r)
    BY <2>1 DEF PlaceInv, KeyInv, AnswerForm, NoAnswer
  <2>3. ~Selects(r) /\ ~HasPage(r) /\ ~HasTotal(r) /\ ~Answered(r)
    BY <2>1 DEF Selects, HasPage, HasTotal, Answered, Listing
  <2> QED BY <2>1, <2>2, <2>3 DEF RequestInv, QueryInv, PageInv, TotalInv, RefsInv
<1> QED BY <1>1, <1>2 DEF QueriesInv

LEMMA StructureIsSeq ==
  ASSUME Shape
  PROVE  Structure \in Seq(Names)
<1>1. Without(Columns, Names \ present) \in Seq(Names)
  BY QueriesAssumption, WithoutOmits
<1> QED BY <1>1 DEF Structure, Shape

(* All that is left to show of a step in which r acts.                     *)
LEMMA ActorSuffices ==
  ASSUME QueriesInv, NEW S, Outside(S), Shape', \A r \in Calls \cap S : RequestInv(r)'
  PROVE  QueriesInv'
<1>1. ASSUME NEW q \in Calls
      PROVE  RequestInv(q)'
  <2>1. CASE q \in S
    BY <2>1
  <2>2. CASE q \notin S
    BY <2>2, OthersKeep DEF QueriesInv
  <2> QED BY <2>1, <2>2
<1> QED BY <1>1 DEF QueriesInv

LEMMA SurroundingsKeep ==
  ASSUME QueriesInv, DeleteRow \/ AlterTable \/ Forget
  PROVE  QueriesInv'
<1>1. Shape
  BY DEF QueriesInv
<1>2. CASE DeleteRow
  <2>1. events' = events + 1 /\ events' \in Nat /\ ~Still'
    BY <1>1, <1>2 DEF DeleteRow, Happens, Shape, Still
  <2>2. IsFiniteSet(table')
    BY <1>1, <1>2, FS_RemoveElement DEF DeleteRow, Shape
  <2>3. Shape'
    BY <1>1, <1>2, <2>1, <2>2 DEF DeleteRow, Shape
  <2>4. Outside({})
    BY <1>2, <2>1 DEF DeleteRow, Outside, Active
  <2> QED BY <2>3, <2>4, ActorSuffices
<1>3. CASE AlterTable
  <2>1. events' = events + 1 /\ events' \in Nat /\ ~Still'
    BY <1>1, <1>3 DEF AlterTable, Happens, Shape, Still
  <2>2. Shape'
    BY <1>1, <1>3, <2>1 DEF AlterTable, Shape
  <2>3. Outside({})
    BY <1>3, <2>1 DEF AlterTable, Outside
  <2> QED BY <2>2, <2>3, ActorSuffices
<1>4. CASE Forget
  <2>1. events' = events + 1 /\ events' \in Nat /\ ~Still'
    BY <1>1, <1>4 DEF Forget, Happens, Shape, Still
  <2>2. Shape'
    BY <1>1, <1>4, <2>1 DEF Forget, Shape, database
  <2>3. Outside({})
    BY <1>4, <2>1 DEF Forget, Outside, database
  <2> QED BY <2>2, <2>3, ActorSuffices
<1> QED BY <1>2, <1>3, <1>4

LEMMA SendKeeps ==
  ASSUME QueriesInv, NEW r \in Calls, Send(r)
  PROVE  QueriesInv'
<1> USE DEF Send, Goto, database, history
<1>1. Shape /\ RequestInv(r)
  BY DEF QueriesInv
<1>2. Still' <=> Still
  BY DEF Still
<1>3. Shape'
  BY <1>1, <1>2 DEF Shape
<1>4. Outside({r})
  BY <1>1, <1>2 DEF Outside, Shape
<1>5. pc[r] = "unsent" /\ pc'[r] = "read"
  BY <1>1 DEF Shape
<1>6. RequestInv(r)'
  <2>1. PlaceInv(r)' /\ reply'[r] # "ok"
    BY <1>1, <1>5 DEF RequestInv, PlaceInv, AnswerForm, Adding, Listing
  <2>2. ~Selects(r)' /\ ~HasPage(r)' /\ ~HasTotal(r)' /\ ~Answered(r)'
    BY <1>5, <2>1 DEF Selects, HasPage, HasTotal, Answered, Listing
  <2> QED BY <1>5, <2>1, <2>2 DEF RequestInv, KeyInv, QueryInv, PageInv, TotalInv, RefsInv
<1> QED BY <1>3, <1>4, <1>6, ActorSuffices

LEMMA ReadStructureKeeps ==
  ASSUME QueriesInv, NEW r \in Calls, ReadStructure(r)
  PROVE  QueriesInv'
<1> USE DEF ReadStructure, Goto, Reply, database
<1>1. Shape /\ RequestInv(r)
  BY DEF QueriesInv
<1>2. Still' <=> Still
  BY DEF Still
<1>3. PICK structure : structure = Structure
  OBVIOUS
<1>4. structure \in Seq(Names) /\ cached' = structure
  BY <1>1, <1>3, StructureIsSeq
<1>5. Shape'
  BY <1>1, <1>2, <1>4 DEF Shape
<1>6. Outside({r})
  BY <1>1, <1>2 DEF Outside, Shape, Notice
<1>7. pc[r] = "read" /\ answer' = answer /\ reply[r] # "ok" /\ reply'[r] # "ok"
  BY <1>1 DEF RequestInv, PlaceInv, Shape
<1>8. IF want[r].op = "add" THEN pc'[r] = "insert"
      ELSE pc'[r] \in {"done", IF dialect = "oracle" THEN "rows" ELSE "count"}
  BY <1>1 DEF Shape
<1>9. RequestInv(r)'
  <2>1. PlaceInv(r)' /\ KeyInv(r)'
    BY <1>1, <1>7, <1>8 DEF RequestInv, PlaceInv, KeyInv, AnswerForm, Adding, Listing
  <2>2. ~HasPage(r)' /\ ~HasTotal(r)' /\ ~Answered(r)'
    BY <1>7, <1>8 DEF HasPage, HasTotal, Answered
  <2>3. PageInv(r)' /\ TotalInv(r)' /\ RefsInv(r)'
    BY <1>8, <2>2 DEF PageInv, TotalInv, RefsInv
  <2>4. QueryInv(r)'
    <3>1. SUFFICES ASSUME Selects(r)'
                   PROVE  /\ Checked(want[r], settings, query'[r])
                          /\ r \notin changed' \union stale' =>
                               ToSet(query'[r].filters) = {f \in want[r].filters : f.field \in present'}
      BY DEF QueryInv
    <3>2. want[r].op # "add" /\ pc'[r] # "done"
      BY <1>8, <2>2, <3>1 DEF Selects, Listing
    <3>3. PICK order, autocomplete :
             /\ query'[r] = [using |-> settings, filters |-> FilteringFields(want[r], structure),
                             search |-> want[r].search, order |-> order,
                             autocomplete |-> autocomplete, available |-> <<>>,
                             page |-> Page(want[r]), perPage |-> PerPage(want[r], settings)]
             /\ want[r].referenced = Undefined => autocomplete = <<>>
      <4>1. PICK order, autocomplete :
              /\ order = IF want[r].sort # Undefined THEN want[r].sort ELSE settings.ordering_field
              /\ autocomplete = IF want[r].referenced = Undefined THEN <<>>
                                ELSE AutocompleteFields(want[r], structure, settings)
        OBVIOUS
      <4>2. ~(\/ OrderingRefused(want[r], structure, settings)
              \/ AutocompleteRefused(want[r], structure, settings))
        BY <1>1, <1>3, <3>2 DEF Shape
      <4>3. query' = [query EXCEPT ![r] =
                       [using |-> settings, filters |-> FilteringFields(want[r], structure),
                        search |-> want[r].search, order |-> order,
                        autocomplete |-> autocomplete, available |-> <<>>,
                        page |-> Page(want[r]), perPage |-> PerPage(want[r], settings)]]
        BY <1>3, <3>2, <4>1, <4>2, Zenon
      <4> QED BY <1>1, <4>1, <4>3 DEF Shape
    <3>4. want[r] \in Wants
      BY <1>1 DEF Shape
    <3>5. /\ query'[r].filters \in Seq(want[r].filters)
          /\ ToSet(query'[r].filters) = {f \in want[r].filters : f.field \in ToSet(structure)}
      BY <1>4, <3>3, <3>4, FilteringFieldsAre
    <3>6. ToSet(<<>>) = {}
      BY DEF ToSet
    <3>7. Checked(want[r], settings, query'[r])
      BY <3>3, <3>5, <3>6 DEF Checked
    <3>8. r \notin stale' => ToSet(structure) = present'
      BY <1>3 DEF Notice
    <3> QED BY <3>5, <3>7, <3>8
  <2> QED BY <2>1, <2>3, <2>4 DEF RequestInv
<1> QED BY <1>5, <1>6, <1>9, ActorSuffices

LEMMA AddKeeps ==
  ASSUME QueriesInv, NEW r \in Calls, AddRow(r)
  PROVE  QueriesInv'
<1>1. Shape /\ RequestInv(r)
  BY DEF QueriesInv
<1>2. Driver \in Sessions
  BY QueriesAssumption DEF Driver
<1>3. PICK s \in Sessions :
         /\ Insert(r, s)
         /\ \/ dialect \in {"postgres", "mssql"} /\ Returning(r)
            \/ dialect = "mysql_ssh" /\ s = Driver /\ Asking(r)
            \/ dialect \in {"mysql", "oracle"} /\ Asking(r)
  BY <1>2 DEF AddRow, PostgresAdd, MssqlAdd, MysqlAdd, OracleAdd, MysqlSshAdd
<1> USE DEF Insert, Returning, Asking, AnswerKey, Goto, Reply
<1>4. added'[r] = nextId /\ nextId \in Nat /\ ~Still'
  BY <1>1, <1>3, QueriesAssumption DEF Shape, Still
<1>5. pc[r] = "insert" /\ want[r].op = "add" /\ want' = want /\ pc'[r] \in {"done", "lastId"}
  BY <1>1, <1>3 DEF RequestInv, PlaceInv, Listing, Shape
<1>6. IsFiniteSet(table')
  BY <1>1, <1>3, FS_AddElement DEF Shape
<1>7. Shape'
  <2>1. /\ pc' = [q \in Calls |-> pc'[q]] /\ reply' = [q \in Calls |-> reply'[q]]
        /\ answer' = [q \in Calls |-> answer'[q]]
    <3>1. CASE Returning(r)
      BY <1>1, <3>1 DEF Shape
    <3>2. CASE Asking(r)
      BY <1>1, <3>2 DEF Shape
    <3> QED BY <1>3, <3>1, <3>2
  <2>2. /\ want' \in [Calls -> Wants] /\ query' = [q \in Calls |-> query'[q]]
        /\ counted' = [q \in Calls |-> counted'[q]] /\ added' = [q \in Calls |-> added'[q]]
        /\ lastId' = [t \in Sessions |-> lastId'[t]]
    BY <1>1, <1>3 DEF Shape
  <2>3. /\ nextId' \in Nat /\ events' \in Nat /\ settings' \in SettingsChoices
        /\ cached' = Undefined \/ cached' \in Seq(Names)
    BY <1>1, <1>3, <1>4 DEF Shape
  <2> QED BY <1>4, <1>6, <2>1, <2>2, <2>3 DEF Shape
<1>8. Outside({r})
  BY <1>1, <1>3, <1>4 DEF Outside, Shape, Touches, Active
<1>9. RequestInv(r)'
  <2>1. ~Answered(r)' /\ ~Selects(r)' /\ ~HasPage(r)' /\ ~HasTotal(r)'
    BY <1>5 DEF Answered, Selects, HasPage, HasTotal, Listing
  <2>2. AnswerForm(answer'[r])
    BY <1>1, <1>3 DEF RequestInv, PlaceInv, AnswerForm, Shape
  <2>3. PlaceInv(r)'
    BY <1>1, <1>3, <1>5, <2>2 DEF PlaceInv, RequestInv, Adding, Shape
  <2>4. KeyInv(r)'
    <3>1. CASE Returning(r)
      <4>1. pc'[r] = "done" /\ answer'[r].key = nextId
        BY <1>1, <3>1 DEF RequestInv, PlaceInv, AnswerForm, Shape
      <4> QED BY <1>4, <4>1 DEF KeyInv
    <3>2. CASE Asking(r)
      <4>1. reply'[r] # "ok"
        BY <1>1, <1>5, <3>2 DEF RequestInv, PlaceInv
      <4>2. dialect = "mysql_ssh" => lastId'[Driver] = nextId
        BY <1>1, <1>2, <1>3, <3>2 DEF Shape
      <4> QED BY <1>3, <1>4, <4>1, <4>2 DEF KeyInv
    <3> QED BY <1>3, <3>1, <3>2
  <2> QED BY <1>4, <2>1, <2>3, <2>4 DEF RequestInv, QueryInv, PageInv, TotalInv, RefsInv
<1> QED BY <1>7, <1>8, <1>9, ActorSuffices

LEMMA GetKeyKeeps ==
  ASSUME QueriesInv, NEW r \in Calls, GetKey(r)
  PROVE  QueriesInv'
<1>1. Shape /\ RequestInv(r)
  BY DEF QueriesInv
<1>2. /\ pc[r] = "lastId" /\ pc' = [pc EXCEPT ![r] = "done"]
      /\ UNCHANGED <<database, cached, want, query, counted, history>>
      /\ dialect \notin {"postgres", "mssql"}
      /\ \E s \in Sessions :
            /\ dialect = "mysql_ssh" => s = Driver
            /\ \/ reply' = [reply EXCEPT ![r] = "failed"] /\ answer' = answer
               \/ /\ reply' = [reply EXCEPT ![r] = "ok"]
                  /\ answer' = [answer EXCEPT ![r].key = lastId[s]]
  <2>1. Driver \in Sessions
    BY QueriesAssumption DEF Driver
  <2> QED BY <2>1 DEF GetKey, MysqlLastId, OracleCurrval, MysqlSshLastId, AskKey, AnswerKey,
                      Fail, Goto, Reply
<1> USE DEF database, history
<1>3. Still' <=> Still
  BY <1>2 DEF Still
<1>4. Shape'
  BY <1>1, <1>2, <1>3 DEF Shape
<1>5. Outside({r})
  BY <1>1, <1>2, <1>3 DEF Outside, Shape
<1>6. RequestInv(r)'
  <2>1. want[r].op = "add" /\ pc'[r] = "done"
    BY <1>1, <1>2 DEF RequestInv, PlaceInv, Listing, Shape
  <2>2. ~Answered(r)' /\ ~Selects(r)' /\ ~HasPage(r)' /\ ~HasTotal(r)'
    BY <1>2, <2>1 DEF Answered, Selects, HasPage, HasTotal, Listing
  <2>3. PlaceInv(r)'
    BY <1>1, <1>2, <2>1 DEF RequestInv, PlaceInv, AnswerForm, Shape
  <2>4. KeyInv(r)'
    <3>1. r \notin changed /\ dialect = "mysql_ssh" => lastId[Driver] = added[r]
      BY <1>1, <1>2 DEF RequestInv, KeyInv
    <3>2. reply'[r] = "ok" /\ dialect = "mysql_ssh" => answer'[r].key = lastId[Driver]
      BY <1>1, <1>2 DEF RequestInv, PlaceInv, AnswerForm, Shape
    <3> QED BY <1>2, <2>1, <3>1, <3>2 DEF KeyInv
  <2> QED BY <2>1, <2>2, <2>3, <2>4 DEF RequestInv, QueryInv, PageInv, TotalInv, RefsInv
<1> QED BY <1>4, <1>5, <1>6, ActorSuffices

LEMMA LookUpKeeps ==
  ASSUME QueriesInv, NEW r \in Calls, LookUpReferences(r)
  PROVE  QueriesInv'
<1> DEFINE identities(k) == CellsOf(r, ForeignKeys[k].column) \cap Referenced[ForeignKeys[k].table]
           Same(k) == {j \in DOMAIN ForeignKeys : ForeignKeys[j].table = ForeignKeys[k].table}
           first(k) == CHOOSE j \in DOMAIN ForeignKeys :
                         /\ ForeignKeys[j].table = ForeignKeys[k].table
                         /\ \A i \in DOMAIN ForeignKeys :
                               ForeignKeys[i].table = ForeignKeys[k].table => j <= i
<1>1. Shape /\ RequestInv(r)
  BY DEF QueriesInv
<1>2. PICK refs : refs = [k \in DOMAIN ForeignKeys |->
                            CellsOf(r, ForeignKeys[k].column) \cap identities(first(k))]
  OBVIOUS
<1>3. /\ pc[r] = "refs" /\ pc' = [pc EXCEPT ![r] = "done"]
      /\ answer' = [answer EXCEPT ![r].refs = refs]
      /\ reply' = [reply EXCEPT ![r] = "ok"]
      /\ UNCHANGED <<database, cached, want, query, counted, history>>
  BY <1>2 DEF LookUpReferences, Goto, Reply
<1> HIDE DEF identities, first
<1> USE DEF database, history
<1>4. Still' <=> Still
  BY <1>3 DEF Still
<1>5. Shape'
  BY <1>1, <1>3, <1>4 DEF Shape
<1>6. Outside({r})
  BY <1>1, <1>3, <1>4 DEF Outside, Shape
<1>7. /\ answer'[r].data = answer[r].data /\ answer'[r].shown = answer[r].shown
      /\ answer'[r].total = answer[r].total /\ answer'[r].perPage = answer[r].perPage
      /\ answer'[r].refs = refs /\ AnswerForm(answer'[r])
  <2>1. answer'[r] = [answer[r] EXCEPT !.refs = refs]
    BY <1>1, <1>3 DEF Shape
  <2>2. AnswerForm(answer[r])
    BY <1>1 DEF RequestInv, PlaceInv
  <2> QED BY <2>1, <2>2 DEF AnswerForm
<1>8. pc'[r] = "done" /\ reply'[r] = "ok" /\ want' = want /\ want[r].op # "add"
  BY <1>1, <1>3 DEF RequestInv, PlaceInv, Adding, Shape
<1>9. Answered(r)' /\ Selects(r)' /\ HasPage(r)' /\ HasTotal(r)'
  BY <1>8 DEF Answered, Selects, HasPage, HasTotal
<1>10. Selects(r) /\ HasPage(r) /\ HasTotal(r)
  BY <1>3 DEF Selects, HasPage, HasTotal, Listing
<1>11. RequestInv(r)'
  <2>1. PlaceInv(r)' /\ KeyInv(r)'
    BY <1>7, <1>8 DEF PlaceInv, KeyInv
  <2>2. QueryInv(r)'
    BY <1>1, <1>3, <1>9, <1>10 DEF RequestInv, QueryInv
  <2>3. Matching(Where(query[r]))' = Matching(Where(query[r])) /\ query'[r] = query[r]
    BY <1>3 DEF Matching
  <2>4. PageInv(r)'
    BY <1>1, <1>3, <1>4, <1>7, <1>9, <1>10, <2>3 DEF RequestInv, PageInv, Plain
  <2>5. TotalInv(r)'
    BY <1>1, <1>3, <1>4, <1>7, <1>8, <1>9, <1>10, <2>3 DEF RequestInv, TotalInv, Plain, Whole
  <2>6. RefsInv(r)'
    <3>1. SUFFICES ASSUME NEW k \in DOMAIN ForeignKeys,
                          \A j \in DOMAIN ForeignKeys :
                             ForeignKeys[j].table = ForeignKeys[k].table => k <= j
                   PROVE  answer'[r].refs[k] =
                            CellsOf(r, ForeignKeys[k].column)' \cap Referenced[ForeignKeys[k].table]
      BY DEF RefsInv
    <3>2. first(k) = k
      <4>1. \A j \in DOMAIN ForeignKeys : j \in Nat
        BY QueriesAssumption
      <4>2. \A j \in DOMAIN ForeignKeys :
               /\ ForeignKeys[j].table = ForeignKeys[k].table
               /\ \A i \in DOMAIN ForeignKeys : ForeignKeys[i].table = ForeignKeys[k].table => j <= i
               => j = k
        BY <3>1, <4>1
      <4> QED BY <3>1, <4>2 DEF first
    <3>3. CellsOf(r, ForeignKeys[k].column)' = CellsOf(r, ForeignKeys[k].column)
      BY <1>7 DEF CellsOf, Shows
    <3>4. refs[k] = CellsOf(r, ForeignKeys[k].column) \cap Referenced[ForeignKeys[k].table]
      BY <1>2, <3>2 DEF identities
    <3> QED BY <1>7, <3>3, <3>4
  <2> QED BY <2>1, <2>2, <2>4, <2>5, <2>6 DEF RequestInv
<1> QED BY <1>5, <1>6, <1>11, ActorSuffices

LEMMA SplicedOnce ==
  ASSUME NEW S, NEW seq \in Seq(S), NEW T, \A i, j \in DOMAIN seq : seq[i] = seq[j] => i = j
  PROVE  Spliced(seq, T) = Without(seq, T)
<1>1. DOMAIN seq = 1..Len(seq) /\ Len(seq) \in Nat
  OBVIOUS
<1>2. \A i \in DOMAIN seq : \A j \in 1..(i - 1) : seq[j] # seq[i]
  BY <1>1
<1>3. [i \in DOMAIN seq |->
         IF seq[i] \in T /\ \A j \in 1..(i - 1) : seq[j] # seq[i] THEN <<>> ELSE <<seq[i]>>]
      = [i \in DOMAIN seq |-> IF seq[i] \in T THEN <<>> ELSE <<seq[i]>>]
  BY <1>2
<1> QED BY <1>3 DEF Spliced, Without

LEMMA AvailableAre ==
  ASSUME Shape, ListedOnce(settings)
  PROVE  ToSet(AvailableFields(settings, Structure)) \cap settings.excluded_fields = {}
<1>1. settings.list_fields \in Seq(Names)
  BY QueriesAssumption DEF Shape
<1>2. Spliced(settings.list_fields, settings.excluded_fields)
        = Without(settings.list_fields, settings.excluded_fields)
  BY <1>1, SplicedOnce DEF ListedOnce
<1>3. PICK fields : fields = IF settings.list_fields # <<>> THEN settings.list_fields ELSE Structure
  OBVIOUS
<1>4. fields \in Seq(Names)
  BY <1>1, <1>3, StructureIsSeq
<1>5. ToSet(Without(fields, settings.excluded_fields)) = ToSet(fields) \ settings.excluded_fields
  BY <1>4, WithoutOmits
<1> QED BY <1>2, <1>3, <1>5 DEF AvailableFields

LEMMA CheckedWithColumns ==
  ASSUME NEW w, NEW s, NEW q, Checked(w, s, q), NEW available,
         ListedOnce(s) => ToSet(available) \cap s.excluded_fields = {}
  PROVE  LET p == [q EXCEPT !.available = available]
         IN  /\ Checked(w, s, p)
             /\ p.available = available /\ p.autocomplete = q.autocomplete /\ p.filters = q.filters
  BY DEF Checked

LEMMA CheckedWithOrder ==
  ASSUME NEW w, NEW s, NEW q, Checked(w, s, q), NEW order
  PROVE  LET p == [q EXCEPT !.order = order]
         IN  /\ Checked(w, s, p)
             /\ p.order = order /\ p.autocomplete = q.autocomplete /\ p.filters = q.filters
  BY DEF Checked

LEMMA CountInTime ==
  ASSUME Shape, Still', table # {}, NEW r \in Calls, NEW Estimates,
         CountWithTimeout(r, Cardinality(table), Estimates)
  PROVE  counted'[r] = Cardinality(table)
<1>1. Cardinality(table) # 0
  BY FS_EmptySet DEF Shape
<1>2. ~Happens
  BY DEF Happens, Still, Shape
<1> QED BY <1>1, <1>2 DEF CountWithTimeout, Count, Shape

LEMMA WholeIsPlain ==
  ASSUME NEW r \in Calls, want[r].filters = {}, want[r].search = Undefined,
         Checked(want[r], settings, query[r])
  PROVE  query[r].filters = <<>> /\ query[r].search = Undefined
<1>1. query[r].filters \in Seq({}) /\ query[r].search = want[r].search
  BY DEF Checked
<1>2. Len(query[r].filters) = 0
  BY <1>1
<1> QED BY <1>1, <1>2

LEMMA CountBeforeKeeps ==
  ASSUME QueriesInv, NEW r \in Calls,
         PostgresCount(r) \/ MysqlCount(r) \/ MssqlCount(r) \/ MysqlSshCount(r)
  PROVE  QueriesInv'
<1>1. Shape /\ RequestInv(r)
  BY DEF QueriesInv
<1>2. PICK available : available = AvailableFields(query[r].using, Structure)
  OBVIOUS
<1>3. PICK structure : structure = Structure
  OBVIOUS
<1>4. PICK n : /\ counted' = [counted EXCEPT ![r] = n]
               /\ events' = events \/ events' = events + 1
               /\ pc[r] = "count" /\ pc' = [pc EXCEPT ![r] = "rows"]
               /\ query' = [query EXCEPT ![r].available = available]
               /\ cached' = structure /\ Notice(r, structure)
               /\ UNCHANGED <<database, want, reply, added, changed, answer>>
  <2>1. \E n : counted' = [counted EXCEPT ![r] = n] /\ (events' = events \/ events' = events + 1)
    BY DEF PostgresCount, MysqlCount, MssqlCount, MysqlSshCount, CountWithTimeout, Count, Happens
  <2>2. PICK d : d \in {"postgres", "mysql", "mssql", "mysql_ssh"} /\ AtCount(r, d) /\ FindAvailable(r)
                 /\ UNCHANGED answer
    BY DEF PostgresCount, MysqlCount, MssqlCount, MysqlSshCount
  <2> QED BY <1>2, <1>3, <2>1, <2>2 DEF AtCount, FindAvailable, AfterCount, Goto
<1> USE DEF database
<1>5. dialect' = dialect /\ settings' = settings /\ want' = want /\ table' = table
      /\ present' = present /\ pc'[r] = "rows" /\ answer' = answer
  BY <1>1, <1>4 DEF Shape
<1>6. events' \in Nat /\ (Still' => Still)
  BY <1>1, <1>4 DEF Still, Shape
<1>7. Shape'
  <2>1. structure \in Seq(Names)
    BY <1>1, <1>3, StructureIsSeq
  <2>2. query' = [q \in Calls |-> query'[q]] /\ counted' = [q \in Calls |-> counted'[q]]
        /\ pc' = [q \in Calls |-> pc'[q]]
    BY <1>1, <1>4 DEF Shape
  <2> QED BY <1>1, <1>4, <1>6, <2>1, <2>2 DEF Shape
<1>8. Outside({r})
  BY <1>1, <1>4, <1>6 DEF Outside, Shape, Notice
<1>9. Selects(r) /\ reply[r] # "ok" /\ want[r].op # "add"
  BY <1>1, <1>4 DEF Selects, Listing, RequestInv, PlaceInv, Adding
<1>10. RequestInv(r)'
  <2>1. PlaceInv(r)' /\ KeyInv(r)'
    BY <1>1, <1>4, <1>5, <1>9 DEF RequestInv, PlaceInv, KeyInv, AnswerForm, Listing
  <2>2. ~Answered(r)' /\ ~HasPage(r)' /\ ~HasTotal(r)'
    BY <1>4, <1>5, <1>9 DEF Answered, HasPage, HasTotal
  <2>3. Checked(want[r], settings, query[r])
        /\ (r \notin changed \union stale =>
              ToSet(query[r].filters) = {f \in want[r].filters : f.field \in present})
    BY <1>1, <1>9 DEF RequestInv, QueryInv
  <2>4. query'[r] = [query[r] EXCEPT !.available = available]
    BY <1>1, <1>4 DEF Shape
  <2>5. ListedOnce(settings) => ToSet(available) \cap settings.excluded_fields = {}
    <3>1. query[r].using = settings
      BY <2>3 DEF Checked
    <3> QED BY <1>1, <1>2, <3>1, AvailableAre
  <2>6. Checked(want[r], settings, query'[r]) /\ query'[r].filters = query[r].filters
    BY <2>3, <2>4, <2>5, CheckedWithColumns
  <2>7. r \in stale => r \in stale'
    BY <1>4 DEF Notice
  <2>8. QueryInv(r)'
    BY <1>4, <1>5, <2>3, <2>6, <2>7 DEF QueryInv
  <2>9. TotalInv(r)'
    <3>1. SUFFICES ASSUME Still', dialect = "mysql_ssh", Whole(r)'
                   PROVE  counted'[r] = Cardinality(table)
      BY <1>5, <2>2 DEF TotalInv
    <3>2. Whole(r)
      BY <1>5, <3>1 DEF Whole
    <3>3. query[r].filters = <<>> /\ query[r].search = Undefined
      BY <2>3, <3>2, WholeIsPlain DEF Whole
    <3>4. CountWithTimeout(r, Cardinality(table), Rough)
      BY <3>1, <3>3 DEF PostgresCount, MysqlCount, MssqlCount, MysqlSshCount, AtCount
    <3> QED BY <1>1, <3>1, <3>2, <3>4, CountInTime DEF Whole
  <2> QED BY <2>1, <2>2, <2>8, <2>9 DEF RequestInv, PageInv, RefsInv
<1> QED BY <1>7, <1>8, <1>10, ActorSuffices

LEMMA OracleCountKeeps ==
  ASSUME QueriesInv, NEW r \in Calls, OracleCount(r)
  PROVE  QueriesInv'
<1>1. Shape /\ RequestInv(r)
  BY DEF QueriesInv
<1>2. PICK n : counted' = [counted EXCEPT ![r] = n] /\ (events' = events \/ events' = events + 1)
  BY DEF OracleCount, CountWithTimeout, Count, Happens
<1>3. PICK pagination : pagination = Limited(query[r], n)
  OBVIOUS
<1>4. /\ pc[r] = "count" /\ pc' = [pc EXCEPT ![r] = "refs"] /\ dialect = "oracle"
      /\ answer' = [answer EXCEPT ![r] = Numbered(@, pagination)]
      /\ UNCHANGED <<database, want, reply, added, changed, cached, query, stale>>
  <2>1. counted'[r] = n
    BY <1>1, <1>2 DEF Shape
  <2> QED BY <1>3, <2>1 DEF OracleCount, AtCount, AfterCount, Goto
<1> USE DEF database
<1>5. dialect' = dialect /\ settings' = settings /\ want' = want /\ table' = table
      /\ present' = present /\ pc'[r] = "refs" /\ query' = query
  BY <1>1, <1>4 DEF Shape
<1>6. events' \in Nat /\ (Still' => Still)
  BY <1>1, <1>2, <1>4 DEF Still, Shape
<1>7. Shape'
  <2>1. answer' = [q \in Calls |-> answer'[q]] /\ counted' = [q \in Calls |-> counted'[q]]
        /\ pc' = [q \in Calls |-> pc'[q]]
    BY <1>1, <1>2, <1>4 DEF Shape
  <2> QED BY <1>1, <1>4, <1>6, <2>1 DEF Shape
<1>8. Outside({r})
  BY <1>1, <1>2, <1>4, <1>6 DEF Outside, Shape
<1>9. Selects(r) /\ HasPage(r) /\ reply[r] # "ok" /\ want[r].op # "add"
  BY <1>1, <1>4 DEF Selects, HasPage, Listing, RequestInv, PlaceInv, Adding
<1>10. /\ answer'[r].data = answer[r].data /\ answer'[r].shown = answer[r].shown
       /\ answer'[r].total = n /\ answer'[r].perPage = query[r].perPage
       /\ AnswerForm(answer'[r])
  <2>1. answer'[r] = Numbered(answer[r], pagination) /\ AnswerForm(answer[r])
    BY <1>1, <1>4 DEF Shape, RequestInv, PlaceInv
  <2>2. pagination.total = n /\ pagination.perPage = query[r].perPage
    BY <1>3 DEF Limited
  <2> QED BY <2>1, <2>2 DEF Numbered, AnswerForm
<1>11. RequestInv(r)'
  <2>1. PlaceInv(r)' /\ KeyInv(r)'
    BY <1>1, <1>4, <1>5, <1>9, <1>10 DEF RequestInv, PlaceInv, KeyInv, Listing
  <2>2. QueryInv(r)'
    BY <1>1, <1>4, <1>5, <1>9 DEF RequestInv, QueryInv
  <2>3. PageInv(r)'
    <3>1. Matching(Where(query[r]))' = Matching(Where(query[r]))
      BY <1>5 DEF Matching
    <3> QED BY <1>1, <1>4, <1>5, <1>6, <1>9, <1>10, <3>1 DEF RequestInv, PageInv, Plain
  <2>4. TotalInv(r)'
    <3>1. answer'[r].perPage = PerPageOf(dialect, query[r])
      BY <1>4, <1>10 DEF PerPageOf, Limits
    <3>2. Still' /\ Whole(r)' => answer'[r].total = Cardinality(table)
      <4>1. SUFFICES ASSUME Still', Whole(r)'
                     PROVE  n = Cardinality(table)
        BY <1>10
      <4>2. Whole(r) /\ counted'[r] = n
        BY <1>1, <1>2, <1>5, <4>1 DEF Whole, Shape
      <4>3. CountWithTimeout(r, Cardinality(table), Rough)
        BY DEF OracleCount
      <4> QED BY <1>1, <4>1, <4>2, <4>3, CountInTime DEF Whole
    <3> QED BY <1>4, <1>5, <3>1, <3>2 DEF TotalInv, Limits
  <2>5. ~Answered(r)'
    BY <1>4, <1>9 DEF Answered
  <2> QED BY <2>1, <2>2, <2>3, <2>4, <2>5 DEF RequestInv, RefsInv
<1> QED BY <1>7, <1>8, <1>11, ActorSuffices

(* What the row actions have in common: the query that is selected with,   *)
(* and what becomes of it.                                                 *)
SelectsWith(r, q) ==
  /\ pc[r] = "rows" /\ query' = [query EXCEPT ![r] = q]
  /\ UNCHANGED <<database, want, counted, added, changed, events>>
  /\ \/ UNCHANGED <<cached, stale>>
     \/ cached' = Structure /\ Notice(r, Structure)
  /\ \/ q = query[r]
     \/ \E order : q = [query[r] EXCEPT !.order = order]
     \/ q = [query[r] EXCEPT !.available = AvailableFields(query[r].using, Structure)]
Ends(r, q) ==
  \/ Fail(r) /\ UNCHANGED answer
  \/ q.autocomplete # <<>> /\ \E star : Autocomplete(r, q, star)
  \/ q.autocomplete = <<>> /\ dialect \notin Limits /\ Paginate(r, q)
  \/ q.autocomplete = <<>> /\ dialect = "mysql_ssh" /\ Limit(r, q, Limited(q, counted[r]), "refs")
  \/ q.autocomplete = <<>> /\ dialect = "oracle" /\ Limit(r, q, NoAnswer, "count")

\* Dialects that are none are left out here: every action names its own.
LEMMA RowsAreSelected ==
  ASSUME NEW r \in Calls, GetRows(r)
  PROVE  \E q : SelectsWith(r, q) /\ Ends(r, q)
<1> USE DEF Select, SelectsWith, Ends, Limits
<1>1. CASE PostgresRows(r)
  BY <1>1 DEF PostgresRows
<1>2. CASE MysqlRows(r)
  BY <1>2 DEF MysqlRows
<1>3. CASE MssqlRows(r)
  <2>1. PICK order : order = IF query[r].order = Undefined
                             THEN IF query[r].available = <<>> THEN Undefined ELSE Head(query[r].available)
                             ELSE query[r].order
    OBVIOUS
  <2>2. PICK q : q = [query[r] EXCEPT !.order = order]
    OBVIOUS
  <2>3. /\ Select(r, "mssql", q,
                  IF q.autocomplete # <<>> THEN Autocomplete(r, q, TRUE) ELSE Paginate(r, q))
        /\ UNCHANGED <<cached, stale>>
    BY <1>3, <2>1, <2>2 DEF MssqlRows
  <2> QED BY <2>2, <2>3
<1>4. CASE MysqlSshRows(r)
  BY <1>4 DEF MysqlSshRows
<1>5. CASE OracleRows(r)
  BY <1>5 DEF OracleRows
<1> QED BY <1>1, <1>2, <1>3, <1>4, <1>5 DEF GetRows

\* What was delivered to the request, and how it is numbered.
Delivers(r, q, next, data, pagination) ==
  /\ pc' = [pc EXCEPT ![r] = next] /\ next \in {"count", "refs"} /\ reply' = reply
  /\ answer' = [answer EXCEPT ![r] = [Numbered(@, pagination) EXCEPT !.data = data,
                                                                     !.shown = Selected(q)]]
  /\ next = "count" <=> (dialect = "oracle" /\ q.autocomplete = <<>>)
  /\ q.autocomplete = <<>> =>
       /\ \E seq \in Deliveries(Matching(Where(q)), q.order) : data = PageOf(dialect, q, seq)
       /\ next = "refs" =>
            /\ pagination.perPage = PerPageOf(dialect, q)
            /\ dialect = "mysql_ssh" => pagination.total = counted[r]
            /\ (dialect \notin Limits /\ Matching(Where(q)) # {}) =>
                 pagination.total = Cardinality(Matching(Where(q)))

LEMMA MatchingIsFinite ==
  ASSUME Shape, NEW where
  PROVE  IsFiniteSet(Matching(where)) /\ Cardinality(Matching(where)) \in Nat
  BY FS_Subset, FS_CardinalityType DEF Matching, Shape

LEMMA EndsAsDelivered ==
  ASSUME Shape, NEW r \in Calls, NEW q, Ends(r, q)
  PROVE  \/ Fail(r) /\ UNCHANGED answer
         \/ \E next, data, pagination : Delivers(r, q, next, data, pagination)
<1> USE DEF Goto, Deliver, Delivers, Limits
<1>1. CASE Fail(r) /\ UNCHANGED answer
  BY <1>1
<1>2. CASE q.autocomplete # <<>> /\ \E star : Autocomplete(r, q, star)
  BY <1>2 DEF Autocomplete
<1>3. CASE q.autocomplete = <<>> /\ dialect \notin Limits /\ Paginate(r, q)
  <2>1. PICK pagination : pagination = Paginated(q, Matching(Where(q)), counted[r])
    OBVIOUS
  <2>2. PICK seq \in Deliveries(Matching(Where(q)), q.order) :
           Deliver(r, q, Slice(seq, q.page, pagination.perPage), pagination)
    BY <1>3, <2>1 DEF Paginate
  <2>3. pagination.perPage = PerPageOf(dialect, q)
    BY <1>3, <2>1 DEF Paginated, PerPageOf
  <2>4. Matching(Where(q)) # {} => pagination.total = Cardinality(Matching(Where(q)))
    BY <2>1, MatchingIsFinite, FS_EmptySet DEF Paginated
  <2>5. Slice(seq, q.page, pagination.perPage) = PageOf(dialect, q, seq)
    BY <1>3, <2>3 DEF PageOf
  <2>6. pc' = [pc EXCEPT ![r] = "refs"] /\ reply' = reply
    BY <1>3 DEF Paginate
  <2>7. Delivers(r, q, "refs", Slice(seq, q.page, pagination.perPage), pagination)
    BY <1>3, <2>2, <2>3, <2>4, <2>5, <2>6
  <2> QED BY <2>7
<1>4. CASE q.autocomplete = <<>> /\ dialect = "mysql_ssh" /\ Limit(r, q, Limited(q, counted[r]), "refs")
  <2>1. PICK pagination : pagination = Limited(q, counted[r])
    OBVIOUS
  <2>2. PICK seq \in Deliveries(Matching(Where(q)), q.order) :
           Deliver(r, q, IF q.perPage = Undefined THEN seq ELSE Slice(seq, q.page, q.perPage), pagination)
    BY <1>4, <2>1 DEF Limit
  <2>3. pagination.perPage = PerPageOf(dialect, q) /\ pagination.total = counted[r]
    BY <1>4, <2>1 DEF Limited, PerPageOf
  <2>4. Deliver(r, q, PageOf(dialect, q, seq), pagination)
    BY <1>4, <2>2 DEF PageOf, PerPageOf
  <2>5. pc' = [pc EXCEPT ![r] = "refs"] /\ reply' = reply
    BY <1>4 DEF Limit
  <2>6. Delivers(r, q, "refs", PageOf(dialect, q, seq), pagination)
    BY <1>4, <2>2, <2>3, <2>4, <2>5
  <2> QED BY <2>6
<1>5. CASE q.autocomplete = <<>> /\ dialect = "oracle" /\ Limit(r, q, NoAnswer, "count")
  <2>1. PICK seq \in Deliveries(Matching(Where(q)), q.order) :
           Deliver(r, q, IF q.perPage = Undefined THEN seq ELSE Slice(seq, q.page, q.perPage), NoAnswer)
    BY <1>5 DEF Limit
  <2>2. Deliver(r, q, PageOf(dialect, q, seq), NoAnswer)
    BY <1>5, <2>1 DEF PageOf, PerPageOf
  <2>3. pc' = [pc EXCEPT ![r] = "count"] /\ reply' = reply
    BY <1>5 DEF Limit
  <2>4. Delivers(r, q, "count", PageOf(dialect, q, seq), NoAnswer)
    BY <1>5, <2>1, <2>2, <2>3
  <2> QED BY <2>4
<1> QED BY <1>1, <1>2, <1>3, <1>4, <1>5 DEF Ends

\* The numbers of a page are positive.
LEMMA NumbersOfAPage ==
  ASSUME Shape, NEW r \in Calls, NEW q, Checked(want[r], settings, q)
  PROVE  /\ q.page \in Nat \ {0}
         /\ q.perPage \in (Nat \ {0}) \union {Undefined}
         /\ q.perPage # Undefined \/ dialect \notin Limits =>
              PerPageOf(dialect, q) \in Nat \ {0}
<1>1. want[r] \in Wants /\ settings \in SettingsChoices
  BY DEF Shape
<1>2. q.page = Page(want[r]) /\ q.perPage = PerPage(want[r], settings)
  BY DEF Checked
<1>3. /\ {want[r].page, want[r].perPage} \subseteq (Nat \ {0}) \union {Undefined}
      /\ settings.list_per_page \in (Nat \ {0}) \union {Undefined}
      /\ DefaultPerPage \in Nat \ {0} /\ LibraryPerPage \in Nat \ {0}
  BY <1>1, QueriesAssumption
<1>4. q.page \in Nat \ {0} /\ q.perPage \in (Nat \ {0}) \union {Undefined}
  BY <1>2, <1>3 DEF Page, PerPage
<1> QED BY <1>3, <1>4 DEF PerPageOf

LEMMA PageIsOfRows ==
  ASSUME Shape, NEW r \in Calls, NEW q, Checked(want[r], settings, q), NEW where,
         NEW seq \in Deliveries(Matching(where), q.order)
  PROVE  \A row \in ToSet(PageOf(dialect, q, seq)) : Satisfies(row, where)
<1>1. PICK rows : rows = Matching(where)
  OBVIOUS
<1>2. Cardinality(rows) \in Nat
  BY <1>1, MatchingIsFinite
<1>3. seq \in Seq(rows) /\ ToSet(seq) \subseteq rows
  BY <1>1, <1>2 DEF Deliveries, ToSet
<1>4. ToSet(PageOf(dialect, q, seq)) \subseteq ToSet(seq)
  <2>1. CASE q.perPage = Undefined /\ dialect \in Limits
    BY <2>1 DEF PageOf
  <2>2. CASE q.perPage # Undefined \/ dialect \notin Limits
    <3>1. PICK number, per : /\ number = q.page /\ per = PerPageOf(dialect, q)
                             /\ number \in Nat \ {0} /\ per \in Nat \ {0}
      BY <2>2, NumbersOfAPage
    <3>2. ToSet(Slice(seq, number, per)) \subseteq ToSet(seq)
      BY <1>3, <3>1, SliceIsPart DEF Positive
    <3> QED BY <2>2, <3>1, <3>2 DEF PageOf
  <2> QED BY <2>1, <2>2
<1> QED BY <1>1, <1>3, <1>4 DEF Matching

LEMMA RowsKeep ==
  ASSUME QueriesInv, NEW r \in Calls, GetRows(r)
  PROVE  QueriesInv'
<1>1. Shape /\ RequestInv(r)
  BY DEF QueriesInv
<1>2. PICK q : SelectsWith(r, q) /\ Ends(r, q)
  BY RowsAreSelected
<1> USE DEF database
<1>3. /\ dialect' = dialect /\ settings' = settings /\ want' = want /\ table' = table
      /\ present' = present /\ query'[r] = q /\ pc[r] = "rows" /\ changed' = changed
      /\ counted' = counted /\ added' = added /\ lastId' = lastId /\ events' = events
  BY <1>1, <1>2 DEF SelectsWith, Shape
<1>4. Still' <=> Still
  BY <1>3 DEF Still
<1>5. /\ pc' = [p \in Calls |-> pc'[p]] /\ reply' = [p \in Calls |-> reply'[p]]
      /\ answer' = [p \in Calls |-> answer'[p]]
      /\ \A p \in Calls \ {r} : pc'[p] = pc[p] /\ reply'[p] = reply[p] /\ answer'[p] = answer[p]
  <2>1. CASE Fail(r) /\ UNCHANGED answer
    BY <1>1, <2>1 DEF Shape, Fail, Goto, Reply
  <2>2. ASSUME NEW next, NEW data, NEW pagination, Delivers(r, q, next, data, pagination)
        PROVE  /\ pc' = [p \in Calls |-> pc'[p]] /\ reply' = [p \in Calls |-> reply'[p]]
               /\ answer' = [p \in Calls |-> answer'[p]]
               /\ \A p \in Calls \ {r} : pc'[p] = pc[p] /\ reply'[p] = reply[p] /\ answer'[p] = answer[p]
    BY <1>1, <2>2 DEF Shape, Delivers
  <2> QED BY <1>1, <1>2, <2>1, <2>2, EndsAsDelivered
<1>6. Shape'
  <2>1. cached' = cached \/ (cached' = Structure /\ Structure \in Seq(Names))
    BY <1>1, <1>2, StructureIsSeq DEF SelectsWith
  <2>2. query' = [p \in Calls |-> query'[p]] /\ nextId' = nextId
    BY <1>1, <1>2 DEF SelectsWith, Shape
  <2> QED BY <1>1, <1>3, <1>4, <1>5, <2>1, <2>2 DEF Shape
<1>7. Outside({r})
  <2>1. \A p \in Calls \ {r} : p \in stale' <=> p \in stale
    BY <1>2 DEF SelectsWith, Notice
  <2>2. \A p \in Calls \ {r} : query'[p] = query[p]
    BY <1>1, <1>2 DEF SelectsWith, Shape
  <2> QED BY <1>3, <1>4, <1>5, <2>1, <2>2 DEF Outside
<1>8. Selects(r) /\ reply[r] # "ok" /\ want[r].op # "add" /\ AnswerForm(answer[r])
  BY <1>1, <1>3 DEF Selects, Listing, RequestInv, PlaceInv, Adding
<1>9. Checked(want[r], settings, q) /\ q.filters = query[r].filters
  <2>1. Checked(want[r], settings, query[r])
    BY <1>1, <1>8 DEF RequestInv, QueryInv
  <2>2. CASE \E order : q = [query[r] EXCEPT !.order = order]
    BY <2>1, <2>2, CheckedWithOrder
  <2>3. CASE q = [query[r] EXCEPT !.available = AvailableFields(query[r].using, Structure)]
    <3>1. PICK available : available = AvailableFields(query[r].using, Structure)
      OBVIOUS
    <3>2. query[r].using = settings
      BY <2>1 DEF Checked
    <3>3. ListedOnce(settings) => ToSet(available) \cap settings.excluded_fields = {}
      BY <1>1, <3>1, <3>2, AvailableAre
    <3> QED BY <2>1, <2>3, <3>1, <3>3, CheckedWithColumns
  <2> QED BY <1>2, <2>1, <2>2, <2>3 DEF SelectsWith
<1>10. Plain(r) => q.autocomplete = <<>>
  BY <1>9 DEF Checked, Plain
<1>11. stale \subseteq stale'
  BY <1>2 DEF SelectsWith, Notice
<1>12. QueryInv(r)'
  <2>1. r \notin changed \union stale =>
          ToSet(query[r].filters) = {f \in want[r].filters : f.field \in present}
    BY <1>1, <1>8 DEF RequestInv, QueryInv
  <2> QED BY <1>3, <1>9, <1>11, <2>1 DEF QueryInv
<1>13. RequestInv(r)'
  <2>1. CASE Fail(r) /\ UNCHANGED answer
    <3>1. pc'[r] = "done" /\ reply'[r] = "failed" /\ answer' = answer
      BY <1>1, <2>1 DEF Shape, Fail, Goto, Reply
    <3>2. PlaceInv(r)' /\ KeyInv(r)'
      BY <1>3, <1>8, <3>1 DEF PlaceInv, KeyInv, AnswerForm
    <3>3. ~Answered(r)' /\ ~HasPage(r)' /\ ~HasTotal(r)'
      BY <3>1 DEF Answered, HasPage, HasTotal
    <3> QED BY <1>12, <3>1, <3>2, <3>3 DEF RequestInv, PageInv, TotalInv, RefsInv
  <2>2. ASSUME NEW next, NEW data, NEW pagination, Delivers(r, q, next, data, pagination)
        PROVE  RequestInv(r)'
    <3>1. pc'[r] = next /\ next \in {"count", "refs"} /\ reply' = reply
      BY <1>1, <2>2 DEF Delivers, Shape
    <3>2. /\ AnswerForm(answer'[r]) /\ answer'[r].data = data /\ answer'[r].shown = Selected(q)
          /\ answer'[r].total = pagination.total /\ answer'[r].perPage = pagination.perPage
      <4>1. answer'[r] = [Numbered(answer[r], pagination) EXCEPT !.data = data, !.shown = Selected(q)]
        BY <1>1, <2>2 DEF Delivers, Shape
      <4>2. PICK a, columns : a = answer[r] /\ columns = Selected(q)
        OBVIOUS
      <4>3. AnswerForm(a) /\ answer'[r] = [Numbered(a, pagination) EXCEPT !.data = data, !.shown = columns]
        BY <1>8, <4>1, <4>2
      <4> QED BY <4>2, <4>3 DEF AnswerForm, Numbered
    <3>3. PlaceInv(r)' /\ KeyInv(r)' /\ ~Answered(r)'
      BY <1>3, <1>8, <3>1, <3>2 DEF PlaceInv, KeyInv, Listing, Answered
    <3>4. PageInv(r)'
      <4>1. SUFFICES ASSUME Plain(r)
                     PROVE  /\ q.available # <<>> => answer'[r].shown = ToSet(q.available)
                            /\ \A row \in ToSet(data) : Satisfies(row, Where(q))
                            /\ \E seq \in Deliveries(Matching(Where(q))', q.order) :
                                  data = PageOf(dialect, q, seq)
        BY <1>3, <3>2 DEF PageInv, Plain
      <4>2. PICK seq \in Deliveries(Matching(Where(q)), q.order) : data = PageOf(dialect, q, seq)
        BY <1>10, <2>2, <4>1 DEF Delivers
      <4>3. q.available # <<>> => Selected(q) = ToSet(q.available)
        BY <1>10, <4>1 DEF Selected
      <4>4. \A row \in ToSet(data) : Satisfies(row, Where(q))
        BY <1>1, <1>9, <4>2, PageIsOfRows
      <4>5. Matching(Where(q))' = Matching(Where(q))
        BY <1>3 DEF Matching
      <4> QED BY <3>2, <4>2, <4>3, <4>4, <4>5
    <3>5. TotalInv(r)'
      <4>1. SUFFICES ASSUME Still, Plain(r), next = "refs"
                     PROVE  /\ answer'[r].perPage = PerPageOf(dialect, q)
                            /\ (dialect \in Limits /\ Whole(r)) => answer'[r].total = Cardinality(table)
                            /\ (dialect \notin Limits /\ Matching(Where(q)) # {}) =>
                                  answer'[r].total = Cardinality(Matching(Where(q)))
        <5>1. Matching(Where(q))' = Matching(Where(q)) /\ (Whole(r)' <=> Whole(r)) /\ (Plain(r)' <=> Plain(r))
          BY <1>3 DEF Matching, Whole, Plain
        <5>2. HasTotal(r)' <=> next = "refs"
          BY <3>1, <3>3 DEF HasTotal
        <5>3. pc'[r] # "rows"
          BY <3>1
        <5> QED BY <1>3, <1>4, <5>1, <5>2, <5>3 DEF TotalInv
      <4>2. /\ pagination.perPage = PerPageOf(dialect, q)
            /\ dialect = "mysql_ssh" => pagination.total = counted[r]
            /\ (dialect \notin Limits /\ Matching(Where(q)) # {}) =>
                 pagination.total = Cardinality(Matching(Where(q)))
            /\ dialect # "oracle"
        BY <1>10, <2>2, <4>1 DEF Delivers
      <4>3. (dialect = "mysql_ssh" /\ Whole(r)) => counted[r] = Cardinality(table)
        BY <1>1, <1>3, <4>1 DEF RequestInv, TotalInv
      <4> QED BY <3>2, <4>2, <4>3 DEF Limits
    <3> QED BY <1>12, <3>3, <3>4, <3>5 DEF RequestInv, RefsInv
  <2> QED BY <1>1, <1>2, <2>1, <2>2, EndsAsDelivered
<1> QED BY <1>6, <1>7, <1>13, ActorSuffices

LEMMA QueriesStep == QueriesInv /\ [QueriesNext]_queryVars => QueriesInv'
<1> SUFFICES ASSUME QueriesInv, [QueriesNext]_queryVars
             PROVE  QueriesInv'
  OBVIOUS
<1>1. CASE UNCHANGED queryVars
  <2> USE <1>1 DEF queryVars, database, history
  <2>1. Still' <=> Still
    BY DEF Still
  <2>2. Shape'
    BY <2>1 DEF QueriesInv, Shape
  <2>3. Outside({})
    BY <2>1 DEF Outside
  <2> QED BY <2>2, <2>3, ActorSuffices
<1>2. CASE DeleteRow \/ AlterTable \/ Forget
  BY <1>2, SurroundingsKeep
<1>3. ASSUME NEW r \in Calls,
             \/ Send(r) \/ ReadStructure(r) \/ CountRows(r) \/ GetRows(r)
             \/ LookUpReferences(r) \/ AddRow(r) \/ GetKey(r)
      PROVE  QueriesInv'
  <2>1. CASE Send(r)
    BY <2>1, SendKeeps
  <2>2. CASE ReadStructure(r)
    BY <2>2, ReadStructureKeeps
  <2>3. CASE CountRows(r)
    BY <2>3, CountBeforeKeeps, OracleCountKeeps DEF CountRows
  <2>4. CASE GetRows(r)
    BY <2>4, RowsKeep
  <2>5. CASE LookUpReferences(r)
    BY <2>5, LookUpKeeps
  <2>6. CASE AddRow(r)
    BY <2>6, AddKeeps
  <2>7. CASE GetKey(r)
    BY <2>7, GetKeyKeeps
  <2> QED BY <1>3, <2>1, <2>2, <2>3, <2>4, <2>5, <2>6, <2>7
<1> QED BY <1>1, <1>2, <1>3 DEF QueriesNext

-----------------------------------------------------------------------------
(***************************************************************************)
(* What is known of every request holds throughout: of its place, its      *)
(* query, its page, its totals, the references and the key it answers.     *)
(***************************************************************************)
THEOREM QueriesInvariant == QueriesSpec => []QueriesInv
  BY InitEstablishes, QueriesStep, PTL DEF QueriesSpec

(***************************************************************************)
(* The key answered to an INSERT is that of the row it inserted, wherever  *)
(* the statement returns it or one session asks for it undisturbed, however *)
(* many requests, sessions and rows there are.                             *)
(***************************************************************************)
THEOREM KeysAlwaysTheirs == QueriesSpec => []AnsweredKeyIsAdded
<1>1. QueriesInv => AnsweredKeyIsAdded
  BY DEF QueriesInv, RequestInv, KeyInv, AnsweredKeyIsAdded
<1> QED BY <1>1, QueriesInvariant, PTL

(***************************************************************************)
(* The first foreign key to refer to a table finds the rows of all its     *)
(* cells, for any number of foreign keys.                                  *)
(***************************************************************************)
THEOREM ReferencesAlwaysResolve == QueriesSpec => []ReferencesResolve
<1>1. ASSUME QueriesInv, NEW r \in Calls, NEW k \in DOMAIN ForeignKeys, Listed(r),
             \A j \in DOMAIN ForeignKeys : ForeignKeys[j].table = ForeignKeys[k].table => k <= j
      PROVE  answer[r].refs[k] =
               CellsOf(r, ForeignKeys[k].column) \cap Referenced[ForeignKeys[k].table]
  <2>1. RefsInv(r) /\ Answered(r)
    BY <1>1 DEF QueriesInv, RequestInv, Listed, Answered
  <2> QED BY <1>1, <2>1 DEF RefsInv
<1>2. QueriesInv => ReferencesResolve
  BY <1>1 DEF ReferencesResolve
<1> QED BY <1>2, QueriesInvariant, PTL

LEMMA FiltersKept == QueriesInv => FiltersHold
<1> SUFFICES ASSUME QueriesInv, NEW r \in Calls, Settled(r), want[r].search = Undefined,
                    \A f \in want[r].filters : f.criterion # "empty",
                    NEW filter \in want[r].filters, NEW row \in ToSet(answer[r].data),
                    filter.field \in present
             PROVE  Passes(row, filter)
  BY DEF FiltersHold
<1>1. Shape /\ QueryInv(r) /\ PageInv(r)
  BY DEF QueriesInv, RequestInv
<1>2. Plain(r) /\ HasPage(r) /\ Selects(r) /\ r \notin changed \union stale
  BY DEF Settled, Listed, Plain, HasPage, Selects, Answered
<1>3. PICK filters : filters = query[r].filters
  OBVIOUS
<1>4. /\ filters \in Seq(want[r].filters) /\ query[r].search = Undefined
      /\ ToSet(filters) = {f \in want[r].filters : f.field \in present}
  BY <1>1, <1>2, <1>3 DEF QueryInv, Checked
<1>5. Where(query[r]) = IF filters = <<>> THEN <<>> ELSE <<ToSet(filters)>>
  <2>1. Where(query[r]) = AddFilters(<<>>, filters)
    BY <1>3, <1>4 DEF Where
  <2> QED BY <1>4, <2>1, FiltersAreOneGroup
<1>6. filter \in ToSet(filters)
  BY <1>4
<1>7. filters # <<>>
  BY <1>6 DEF ToSet
<1>8. PICK group : group = ToSet(filters)
  OBVIOUS
<1>9. Satisfies(row, <<group>>)
  BY <1>1, <1>2, <1>5, <1>7, <1>8 DEF PageInv
<1>10. \A test \in group : Passes(row, test)
  BY <1>9 DEF Satisfies
<1> QED BY <1>6, <1>8, <1>10

LEMMA ExcludedAreHidden == QueriesInv => ExcludedIsNotShown
<1> SUFFICES ASSUME QueriesInv, NEW r \in Calls, Listed(r), want[r].referenced = Undefined,
                    query[r].available # <<>>, ListedOnce(settings)
             PROVE  answer[r].shown \cap settings.excluded_fields = {}
  BY DEF ExcludedIsNotShown
<1>1. Plain(r) /\ HasPage(r) /\ Selects(r) /\ QueryInv(r) /\ PageInv(r)
  BY DEF Listed, Plain, HasPage, Selects, Answered, QueriesInv, RequestInv
<1> QED BY <1>1 DEF QueryInv, PageInv, Checked

(***************************************************************************)
(* A listing shows rows that pass all its filters and no excluded column,  *)
(* outside the cases that the property excepts, for any columns, filters,  *)
(* settings and contents of the table.                                     *)
(***************************************************************************)
THEOREM ListingsAlwaysAsAsked == QueriesSpec => []ListingIsAsAsked
  BY QueriesInvariant, FiltersKept, ExcludedAreHidden, PTL DEF ListingIsAsAsked

\* The deliveries of finitely many rows list them.
LEMMA DeliveryIsSeq ==
  ASSUME Shape, NEW where, NEW order, NEW seq \in Deliveries(Matching(where), order)
  PROVE  seq \in Seq(Matching(where)) /\ Len(seq) = Cardinality(Matching(where))
  BY MatchingIsFinite DEF Deliveries

LEMMA PagesFit == QueriesInv => PageFitsTotal
<1> SUFFICES ASSUME QueriesInv, NEW r \in Calls, Settled(r), Still, Matching(Where(query[r])) # {},
                    dialect \in Limits =>
                      /\ want[r].filters = {} /\ want[r].search = Undefined
                      /\ want[r].page # Undefined /\ want[r].perPage # Undefined
             PROVE  LET a == answer[r]
                        left == a.total - (query[r].page - 1) * a.perPage
                    IN  Len(a.data) = IF left <= 0 THEN 0 ELSE LeastOf(left, a.perPage)
  BY DEF PageFitsTotal, Limits
<1>1. Shape /\ QueryInv(r) /\ PageInv(r) /\ TotalInv(r)
  BY DEF QueriesInv, RequestInv
<1>2. Plain(r) /\ HasPage(r) /\ HasTotal(r) /\ Selects(r)
  BY DEF Settled, Listed, Plain, HasPage, HasTotal, Selects, Answered
<1>3. Checked(want[r], settings, query[r])
  BY <1>1, <1>2 DEF QueryInv
<1>4. PICK rows : rows = Matching(Where(query[r]))
  OBVIOUS
<1>5. PICK seq \in Deliveries(rows, query[r].order) : answer[r].data = PageOf(dialect, query[r], seq)
  BY <1>1, <1>2, <1>4 DEF PageInv
<1>6. seq \in Seq(rows) /\ Len(seq) = Cardinality(rows)
  BY <1>1, <1>4, <1>5, DeliveryIsSeq
<1>7. dialect \in Limits => query[r].perPage # Undefined
  BY <1>3 DEF Checked, PerPage
<1>8. PICK number, per : /\ number = query[r].page /\ per = PerPageOf(dialect, query[r])
                         /\ number \in Nat \ {0} /\ per \in Nat \ {0}
  BY <1>1, <1>3, <1>7, NumbersOfAPage
<1>9. answer[r].data = Slice(seq, number, per) /\ answer[r].perPage = per
  BY <1>1, <1>2, <1>5, <1>7, <1>8 DEF PageOf, TotalInv
<1>10. answer[r].total = Cardinality(rows)
  <2>1. CASE dialect \notin Limits
    BY <1>1, <1>2, <1>4, <2>1 DEF TotalInv
  <2>2. CASE dialect \in Limits
    <3>1. query[r].filters = <<>> /\ query[r].search = Undefined
      BY <1>3, <2>2, WholeIsPlain
    <3>2. Where(query[r]) = <<>>
      <4>1. PICK filters, S : filters = <<>> /\ S = {}
        OBVIOUS
      <4>2. filters \in Seq(S) /\ \A f \in S : f.criterion # "empty"
        BY <4>1
      <4>3. AddFilters(<<>>, filters) = <<>>
        BY <4>1, <4>2, FiltersAreOneGroup
      <4> QED BY <3>1, <4>1, <4>3 DEF Where
    <3>3. rows = table
      BY <1>4, <3>2 DEF Matching, Satisfies
    <3> QED BY <1>1, <1>2, <1>4, <2>2, <3>3 DEF TotalInv, Whole
  <2> QED BY <2>1, <2>2
<1>11. number \in Positive /\ per \in Positive /\ seq \in Seq(rows)
  BY <1>6, <1>8 DEF Positive
<1>12. PICK left : left = Len(seq) - Before(number, per)
  OBVIOUS
<1>13. /\ left <= 0 => Len(Slice(seq, number, per)) = 0
       /\ ~(left <= 0) => Len(Slice(seq, number, per)) = LeastOf(left, per)
  BY <1>11, <1>12, SliceIs
<1>14. left = answer[r].total - (number - 1) * per
  BY <1>6, <1>10, <1>12 DEF Before
<1> QED BY <1>8, <1>9, <1>13, <1>14

LEMMA PagesDisjoint ==
  ASSUME NEW S, NEW seq \in Seq(S), \A i, j \in DOMAIN seq : i # j => seq[i] # seq[j],
         NEW p \in Positive, NEW q \in Positive, NEW per \in Positive, p < q
  PROVE  ToSet(Slice(seq, p, per)) \cap ToSet(Slice(seq, q, per)) = {}
<1>1. PICK first, second : first = Before(p, per) /\ second = Before(q, per)
  OBVIOUS
<1>2. first + per <= second /\ first \in Nat /\ second \in Nat
  <2>1. p - 1 \in Nat /\ q - 1 \in Nat /\ p - 1 < q - 1 /\ per \in Nat
    BY DEF Positive
  <2>2. (p - 1) * per + per <= (q - 1) * per
    BY <2>1, PagesAreApart
  <2> QED BY <1>1, <2>1, <2>2 DEF Before
<1>3. ASSUME NEW x \in ToSet(Slice(seq, p, per)), x \in ToSet(Slice(seq, q, per))
      PROVE  FALSE
  <2>1. PICK i \in 1..Len(seq) : x = seq[i] /\ i <= first + per
    BY <1>1, SliceIs
  <2>2. PICK j \in 1..Len(seq) : x = seq[j] /\ second < j
    BY <1>1, <1>3, SliceIs
  <2>3. i # j
    BY <1>2, <2>1, <2>2 DEF Positive
  <2>4. i \in DOMAIN seq /\ j \in DOMAIN seq
    OBVIOUS
  <2> QED BY <2>1, <2>2, <2>3, <2>4, Zenon
<1> QED BY <1>3

LEMMA PagesApart == QueriesInv => PagesShareNothing
<1> SUFFICES ASSUME QueriesInv, NEW r \in Calls, NEW q \in Calls, Settled(r), Settled(q), Still,
                    query[r].order = Key,
                    [query[r] EXCEPT !.page = 1] = [query[q] EXCEPT !.page = 1],
                    query[r].page # query[q].page, query[r].perPage # Undefined
             PROVE  ToSet(answer[r].data) \cap ToSet(answer[q].data) = {}
  BY DEF PagesShareNothing
<1>1. Shape /\ \A p \in Calls : RequestInv(p)
  BY DEF QueriesInv
<1>2. ASSUME NEW p \in {r, q}
      PROVE  /\ Checked(want[p], settings, query[p])
             /\ \E seq \in Deliveries(Matching(Where(query[p])), query[p].order) :
                   answer[p].data = PageOf(dialect, query[p], seq)
  <2>1. Plain(p) /\ HasPage(p) /\ Selects(p)
    BY DEF Settled, Listed, Plain, HasPage, Selects, Answered
  <2> QED BY <1>1, <2>1 DEF RequestInv, QueryInv, PageInv
<1>3. /\ query[q].order = Key /\ query[q].perPage = query[r].perPage
      /\ query[q].using = query[r].using /\ query[q].filters = query[r].filters
      /\ query[q].search = query[r].search /\ query[q].available = query[r].available
  <2>1. PICK a, b : a = query[r] /\ b = query[q]
    OBVIOUS
  <2>2. a = [using |-> a.using, filters |-> a.filters, search |-> a.search, order |-> a.order,
             autocomplete |-> a.autocomplete, available |-> a.available,
             page |-> a.page, perPage |-> a.perPage]
    BY <1>2, <2>1 DEF Checked
  <2>3. b = [using |-> b.using, filters |-> b.filters, search |-> b.search, order |-> b.order,
             autocomplete |-> b.autocomplete, available |-> b.available,
             page |-> b.page, perPage |-> b.perPage]
    BY <1>2, <2>1 DEF Checked
  <2>4. [a EXCEPT !.page = 1] = [b EXCEPT !.page = 1] /\ a.order = Key
    BY <2>1
  <2>5. /\ b.order = Key /\ b.perPage = a.perPage /\ b.using = a.using /\ b.filters = a.filters
        /\ b.search = a.search /\ b.available = a.available
    BY <2>2, <2>3, <2>4
  <2> QED BY <2>1, <2>5
<1>4. PICK rows : rows = Matching(Where(query[r])) /\ rows = Matching(Where(query[q]))
  BY <1>3 DEF Where
<1>5. PICK seq \in Deliveries(rows, Key) : answer[r].data = PageOf(dialect, query[r], seq)
  BY <1>2, <1>4
<1>6. PICK seq2 \in Deliveries(rows, Key) : answer[q].data = PageOf(dialect, query[q], seq2)
  BY <1>2, <1>3, <1>4
<1>7. seq2 = seq
  <2>1. rows \subseteq table /\ table \in InitialTables
    BY <1>1, <1>4 DEF Matching, Shape
  <2>2. /\ \A row \in rows : row[Key] \in Nat \ {Null}
        /\ \A a, b \in rows : a[Key] = b[Key] => a = b
        /\ Key # Undefined
    BY <2>1, QueriesAssumption
  <2>3. IsFiniteSet(rows)
    BY <1>1, <1>4, MatchingIsFinite
  <2> QED BY <1>5, <1>6, <2>2, <2>3, UniqueDelivery
<1>8. seq \in Seq(rows) /\ \A i, j \in DOMAIN seq : i # j => seq[i] # seq[j]
  BY <1>1, <1>4, <1>5, DeliveryIsSeq DEF Deliveries
<1>9. PICK m, n, per : /\ m = query[r].page /\ n = query[q].page /\ per = query[r].perPage
                       /\ m \in Nat \ {0} /\ n \in Nat \ {0} /\ per \in Nat \ {0}
  BY <1>1, <1>2, NumbersOfAPage
<1>10. answer[r].data = Slice(seq, m, per) /\ answer[q].data = Slice(seq, n, per)
  BY <1>3, <1>5, <1>6, <1>7, <1>9 DEF PageOf, PerPageOf
<1>11. m \in Positive /\ n \in Positive /\ per \in Positive
  BY <1>9 DEF Positive
<1>12. CASE m < n
  BY <1>8, <1>10, <1>11, <1>12, PagesDisjoint
<1>13. CASE n < m
  BY <1>8, <1>10, <1>11, <1>13, PagesDisjoint
<1>14. m < n \/ n < m
  BY <1>9
<1> QED BY <1>12, <1>13, <1>14

(***************************************************************************)
(* A page is as long as the pagination says and shares no row with another *)
(* page of the same listing, for any table and any number of rows per page. *)
(***************************************************************************)
THEOREM PagesAlwaysRight == QueriesSpec => []PagesAreRight
  BY QueriesInvariant, PagesFit, PagesApart, PTL DEF PagesAreRight
=============================================================================
