-------------------------- MODULE TableConfigProofs -------------------------
(***************************************************************************)
(* Safety of what is configured for the tables, for any number of tables,  *)
(* rows and overlapping requests: one invariant says which table all that  *)
(* is stored and all that a request still holds is of.                     *)
(***************************************************************************)
EXTENDS TableConfig, SequenceTheorems, FiniteSetTheorems, WellFoundedInduction, TLAPS
-----------------------------------------------------------------------------
(***************************************************************************)
(* A row of settings, a row of a list and a request are tied to a table by *)
(* the table their ids were given for ("from").  A save updates the row    *)
(* without its table, so that a row that was removed meanwhile comes back  *)
(* for no table at all.                                                    *)
(***************************************************************************)
Columns   == Lists \union {"list_per_page"}
Existing  == Lists \ {"autocomplete_columns"}
NameSet   == Names \union Fields
Asked(t)  == {w \in UNION {ToSet(wanted) : wanted \in WidgetLists} : w.field \in FieldsOf[t]}
Items(from, t) == [id : {c \in ChildIds : from[c] = t}, name : NameSet]

RowOfTable(from, row, s) ==
  /\ row = [table |-> row.table, columns |-> row.columns]
  /\ from[s] \in Tables /\ row.table \in {None, from[s]}
  /\ DOMAIN row.columns = Columns
  /\ \A l \in Existing : row.columns[l] \subseteq FieldsOf[from[s]]

ChildOfTable(from, row, c) ==
  /\ row = [kind |-> row.kind, name |-> row.name, settings |-> row.settings]
  /\ from[c] \in Tables /\ row.kind \in Kinds /\ row.name \in NameSet
  /\ row.kind = "widget" => row.name \in FieldsOf[from[c]]
  /\ row.settings # None => row.settings \in SettingsIds /\ from[row.settings] = from[c]

CopyOfTable(from, t, copy) ==
  /\ copy = [id |-> copy.id, table |-> copy.table, columns |-> copy.columns]
  /\ copy.id \in SettingsIds /\ from[copy.id] = t /\ copy.table \in {None, t}
  /\ Exist(t, copy.columns)

(***************************************************************************)
(* What a request holds is of the table it names, but for the id of a      *)
(* field or an action, and it holds what its next steps need.              *)
(***************************************************************************)
Makes   == {"create field", "create action"}
Renames == {"update field", "update action"}

Busy(from, q) ==
  /\ q.table \in Tables
  /\ \/ q.copy # None \/ q.pc \in {"save", "find", "widgets", "drop"}
     \/ q.pc = "remove" /\ q.kind = "field"
     => CopyOfTable(from, q.table, q.copy)
  /\ q.array \in Seq(Items(from, q.table)) /\ q.found \in Seq(Items(from, q.table))
  /\ q.wanted \in Seq(Asked(q.table))
  /\ q.child # None => q.child \in ChildIds /\ from[q.child] \in Tables
  /\ q.body # None => Exist(q.table, q.body)
  /\ q.pc = "create" => q.op \in Makes \union {"create settings", "put widgets"}
  /\ q.pc = "store" => q.op \in Makes
  /\ q.pc = "write" => q.op \in Renames /\ q.child # None
  /\ q.op \in Makes \union Renames => q.name \in Names /\ q.kind \in {"field", "action"}
  /\ q.pc \in {"find", "widgets"} => q.op = "put widgets"
  /\ q.op = "put widgets" => q.kind = "widget"

Sound(from, q) ==
  /\ q = [op |-> q.op, pc |-> q.pc, tables |-> q.tables, table |-> q.table, body |-> q.body,
          kind |-> q.kind, name |-> q.name, child |-> q.child, copy |-> q.copy,
          array |-> q.array, wanted |-> q.wanted, found |-> q.found, left |-> q.left,
          alone |-> q.alone, before |-> q.before]
  /\ IF q.pc = "idle" THEN q.child = None /\ q.found = <<>> ELSE Busy(from, q)

(***************************************************************************)
(* All who hold the id of a row of a list, the row itself, a request that  *)
(* renames or removes it and one that found it among the widgets, take it  *)
(* for a row of the same list: what was removed comes back into no other.  *)
(***************************************************************************)
Holds(rows, requests, c, kind) ==
  \/ rows[c] # None /\ rows[c].kind = kind
  \/ \E r \in Requests : requests[r].child = c /\ requests[r].kind = kind
  \/ kind = "widget" /\ \E r \in Requests : c \in Ids(requests[r].found)

OneKind(rows, requests) ==
  \A c \in ChildIds : \A j, k \in Kinds :
    Holds(rows, requests, c, j) /\ Holds(rows, requests, c, k) => j = k

ConfigInv ==
  /\ origin \in [SettingsIds \union ChildIds -> Tables \union {None}]
  /\ settings = [s \in SettingsIds |-> settings[s]]
  /\ children = [c \in ChildIds |-> children[c]]
  /\ req = [r \in Requests |-> req[r]]
  /\ \A s \in SettingsIds : settings[s] # None => RowOfTable(origin, settings[s], s)
  /\ \A c \in ChildIds : children[c] # None => ChildOfTable(origin, children[c], c)
  /\ \A r \in Requests : Sound(origin, req[r])
  /\ OneKind(children, req)
-----------------------------------------------------------------------------
(* Sequences of items.                                                     *)

LEMMA LeastIndex ==
  ASSUME NEW n \in Nat, NEW T \in SUBSET (1..n), T # {}
  PROVE  \E i \in T : \A j \in T : i <= j
<1>1. PICK R : R = {p \in Nat \X Nat : p[1] < p[2]}
  OBVIOUS
<1>2. IsWellFoundedOn(R, Nat)
  BY <1>1, NatLessThanWellFounded DEF OpToRel
<1>3. T \subseteq Nat
  OBVIOUS
<1>4. \E i \in T : \A j \in T : ~ (<<j, i>> \in R)
  BY <1>2, <1>3, WFMin
<1>5. \A i, j \in T : ~(<<j, i>> \in R) => i <= j
  BY <1>1, <1>3
<1> QED BY <1>4, <1>5

LEMMA IndexIsPlace ==
  ASSUME NEW S, NEW array \in Seq(S), NEW property, NEW value
  PROVE  IndexOf(array, property, value) \in 0..Len(array)
<1> DEFINE places == {i \in DOMAIN array : array[i][property] = value}
<1>1. Len(array) \in Nat /\ DOMAIN array = 1..Len(array)
  BY LenProperties
<1>2. CASE places = {}
  BY <1>1, <1>2 DEF IndexOf
<1>3. CASE places # {}
  <2>1. \E i \in places : \A j \in places : i <= j
    BY <1>1, <1>3, LeastIndex
  <2>2. Min(places) \in places
    BY <2>1 DEF Min
  <2> QED BY <1>1, <1>3, <2>2 DEF IndexOf
<1> QED BY <1>2, <1>3

LEMMA SpliceSeq ==
  ASSUME NEW S, NEW array \in Seq(S), NEW i \in 0..Len(array)
  PROVE  Splice(array, i) \in Seq(S)
<1>1. CASE i > 0
  <2>1. SubSeq(array, 1, i - 1) \in Seq(S) /\ SubSeq(array, i + 1, Len(array)) \in Seq(S)
    BY <1>1, SubSeqProperties
  <2> QED BY <1>1, <2>1, ConcatProperties DEF Splice, RemoveAt
<1>2. CASE i = 0 /\ array # <<>>
  <2>1. Len(array) \in Nat \ {0}
    BY <1>2, EmptySeq
  <2>2. SubSeq(array, 1, Len(array) - 1) \in Seq(S)
    BY <2>1, SubSeqProperties
  <2> QED BY <1>2, <2>2 DEF Splice, Front
<1>3. CASE i = 0 /\ array = <<>>
  BY <1>3, EmptySeq DEF Splice
<1> QED BY <1>1, <1>2, <1>3

LEMMA IdsAreIds ==
  ASSUME NEW from, NEW t, NEW array \in Seq(Items(from, t))
  PROVE  Ids(array) \subseteq {c \in ChildIds : from[c] = t}
<1>1. \A i \in DOMAIN array : array[i] \in Items(from, t)
  BY LenProperties
<1> QED BY <1>1 DEF Ids, Items
-----------------------------------------------------------------------------
(* An id keeps the table it was given for, and what is of a table stays so. *)
Grows(from, after) ==
  \A i \in SettingsIds \union ChildIds : from[i] # None => after[i] = from[i]

LEMMA ItemsGrow ==
  ASSUME NEW from, NEW after, Grows(from, after), NEW t \in Tables
  PROVE  Items(from, t) \subseteq Items(after, t)
<1>1. {c \in ChildIds : from[c] = t} \subseteq {c \in ChildIds : after[c] = t}
  BY TableConfigAssumption DEF Grows
<1> QED BY <1>1 DEF Items

LEMMA RowGrows ==
  ASSUME NEW from, NEW after, Grows(from, after), NEW row, NEW s \in SettingsIds,
         RowOfTable(from, row, s)
  PROVE  RowOfTable(after, row, s)
<1>1. from[s] # None /\ after[s] = from[s]
  BY TableConfigAssumption DEF RowOfTable, Grows
<1> QED BY <1>1 DEF RowOfTable

LEMMA ChildGrows ==
  ASSUME NEW from, NEW after, Grows(from, after), NEW row, NEW c \in ChildIds,
         ChildOfTable(from, row, c)
  PROVE  ChildOfTable(after, row, c)
<1>1. from[c] \in Tables /\ after[c] = from[c]
  BY TableConfigAssumption DEF ChildOfTable, Grows
<1>2. row.settings # None => after[row.settings] = from[row.settings]
  BY <1>1, TableConfigAssumption DEF ChildOfTable, Grows
<1> QED BY <1>1, <1>2 DEF ChildOfTable

LEMMA CopyGrows ==
  ASSUME NEW from, NEW after, Grows(from, after), NEW t \in Tables, NEW copy,
         CopyOfTable(from, t, copy)
  PROVE  CopyOfTable(after, t, copy)
<1>1. from[copy.id] # None /\ after[copy.id] = from[copy.id]
  BY TableConfigAssumption DEF CopyOfTable, Grows
<1> QED BY <1>1 DEF CopyOfTable

LEMMA SoundGrows ==
  ASSUME NEW from, NEW after, Grows(from, after), NEW q, Sound(from, q)
  PROVE  Sound(after, q)
<1> SUFFICES ASSUME q.pc # "idle", Busy(from, q) PROVE Busy(after, q)
  BY DEF Sound
<1>1. q.table \in Tables
  BY DEF Busy
<1>2. \A array \in Seq(Items(from, q.table)) : array \in Seq(Items(after, q.table))
  BY <1>1, ItemsGrow, SeqMonotonic
<1>3. q.child # None => after[q.child] = from[q.child]
  BY TableConfigAssumption DEF Busy, Grows
<1>4. CopyOfTable(from, q.table, q.copy) => CopyOfTable(after, q.table, q.copy)
  BY <1>1, CopyGrows
<1> QED BY <1>1, <1>2, <1>3, <1>4 DEF Busy

-----------------------------------------------------------------------------
(* What a handler reads of a table. *)
LEMMA LoadedItems ==
  ASSUME ConfigInv, NEW t \in Tables, NEW s \in SettingsIds, origin[s] = t, NEW kind \in Kinds,
         NEW array \in Loaded(s, kind)
  PROVE  /\ array \in Seq(Items(origin, t))
         /\ \A c \in Ids(array) : Holds(children, req, c, kind)
<1> DEFINE rows == ChildrenOf(s, kind)
           n    == Cardinality(rows)
<1>1. n \in Nat
  <2>1. rows \subseteq ChildIds
    BY DEF ChildrenOf
  <2> QED BY <2>1, TableConfigAssumption, FS_Subset, FS_CardinalityType
<1>2. PICK q \in [1..n -> rows] : array = [i \in DOMAIN q |-> Item(q[i])]
  BY DEF Loaded, SetToSeqs
<1>3. ASSUME NEW c \in rows
      PROVE  Item(c) \in Items(origin, t) /\ Item(c).id = c /\ Holds(children, req, c, kind)
  <2>1. c \in ChildIds /\ children[c] # None /\ children[c].settings = s /\ children[c].kind = kind
    BY <1>3 DEF ChildrenOf
  <2>2. children[c].name \in NameSet /\ origin[c] = t
    BY <2>1, TableConfigAssumption DEF ConfigInv, ChildOfTable
  <2> QED BY <2>1, <2>2 DEF Item, Items, Holds
<1> HIDE DEF rows, n
<1>4. array \in [1..n -> Items(origin, t)] /\ \A i \in 1..n : array[i] = Item(q[i])
  BY <1>2, <1>3
<1>5. array \in Seq(Items(origin, t))
  BY <1>1, <1>4, SeqDef
<1>6. \A c \in Ids(array) : c \in rows
  BY <1>2, <1>3, <1>4 DEF Ids
<1> QED BY <1>3, <1>5, <1>6

ReadFor(request, q) ==
  \E copy, array : /\ q = [request EXCEPT !.copy = copy, !.array = array]
                   /\ CopyOfTable(origin, request.table, copy)
                   /\ array \in Seq(Items(origin, request.table))

LEMMA SettingsAreOfTable ==
  ASSUME ConfigInv, NEW t \in Tables, NEW s \in SettingsOf(t)
  PROVE  s \in SettingsIds /\ origin[s] = t /\ RowOfTable(origin, settings[s], s)
<1>1. s \in SettingsIds /\ settings[s] # None /\ settings[s].table = t
  BY DEF SettingsOf
<1> QED BY <1>1, TableConfigAssumption DEF ConfigInv, RowOfTable

LEMMA ReadsAreOfTable ==
  ASSUME ConfigInv, NEW request, request.table \in Tables, NEW kind \in Kinds,
         NEW q \in Reads(request, kind)
  PROVE  q = request \/ ReadFor(request, q)
<1> DEFINE t == request.table
<1>1. CASE SettingsOf(t) = {}
  BY <1>1 DEF Reads
<1>2. CASE SettingsOf(t) # {}
  <2>0. PICK s \in SettingsOf(t) : \E array \in Loaded(s, kind) : q = ReadInto(request, s, array)
    BY <1>2 DEF Reads
  <2>1. PICK array \in Loaded(s, kind) : q = ReadInto(request, s, array)
    BY <2>0
  <2>2. q = [request EXCEPT !.copy = [id |-> s, table |-> None, columns |-> settings[s].columns],
                            !.array = array]
    BY <2>1 DEF ReadInto
  <2>3. array \in Seq(Items(origin, t))
    BY LoadedItems, SettingsAreOfTable
  <2>4. CopyOfTable(origin, t, [id |-> s, table |-> None, columns |-> settings[s].columns])
    BY SettingsAreOfTable DEF CopyOfTable, RowOfTable, Exist, Existing
  <2> QED BY <2>2, <2>3, <2>4 DEF ReadFor
<1> QED BY <1>1, <1>2
-----------------------------------------------------------------------------
(* Who takes an id for a row of which list. *)
LEMMA HoldsStay ==
  ASSUME NEW rows, NEW requests, NEW after, NEW later, OneKind(rows, requests),
         \A c \in ChildIds : after[c] # None => Holds(rows, requests, c, after[c].kind),
         \A p \in Requests :
           /\ later[p].child \in ChildIds => Holds(rows, requests, later[p].child, later[p].kind)
           /\ \A c \in Ids(later[p].found) : Holds(rows, requests, c, "widget")
  PROVE  OneKind(after, later)
<1>1. \A c \in ChildIds, k \in Kinds : Holds(after, later, c, k) => Holds(rows, requests, c, k)
  BY DEF Holds
<1> QED BY <1>1 DEF OneKind

\* A request that goes on knows the ids it knew, and those it finds now.
Knows(q, r) ==
  /\ q.child \in ChildIds => q.child = req[r].child /\ q.kind = req[r].kind
  /\ \A c \in Ids(q.found) : Holds(children, req, c, "widget")

LEMMA RequestGoes ==
  ASSUME ConfigInv, NEW r \in Requests, NEW q, Goes(r, q)
  PROVE  /\ req' = [p \in Requests |-> req'[p]] /\ req'[r] = q
         /\ \A p \in Requests \ {r} : req'[p] = req[p]
BY DEF ConfigInv, Goes

LEMMA KnowsStays ==
  ASSUME ConfigInv, NEW r \in Requests, NEW q, Goes(r, q), Knows(q, r),
         \A c \in ChildIds : children'[c] # None => Holds(children, req, c, children'[c].kind)
  PROVE  OneKind(children', req')
<1>1. ASSUME NEW p \in Requests
      PROVE  /\ req'[p].child \in ChildIds => Holds(children, req, req'[p].child, req'[p].kind)
             /\ \A c \in Ids(req'[p].found) : Holds(children, req, c, "widget")
  <2>1. CASE p = r
    BY <2>1, RequestGoes DEF Knows, Holds
  <2>2. CASE p # r
    BY <2>2, RequestGoes DEF Holds
  <2> QED BY <2>1, <2>2
<1>2. \A p \in Requests :
        /\ req'[p].child \in ChildIds => Holds(children, req, req'[p].child, req'[p].kind)
        /\ \A c \in Ids(req'[p].found) : Holds(children, req, c, "widget")
  BY <1>1
<1>3. OneKind(children, req)
  BY DEF ConfigInv
<1> HIDE DEF Holds, OneKind
<1>4. PICK rows, requests, after, later :
        rows = children /\ requests = req /\ after = children' /\ later = req'
  OBVIOUS
<1>5. OneKind(after, later)
  BY <1>2, <1>3, <1>4, HoldsStay
<1> QED BY <1>4, <1>5

LEMMA HeldByItself ==
  ASSUME NEW c \in ChildIds, children[c] # None
  PROVE  Holds(children, req, c, children[c].kind)
BY DEF Holds

-----------------------------------------------------------------------------
(* A step of one request, by what changes. *)
LEMMA StepKeeps ==
  ASSUME ConfigInv, NEW r \in Requests, NEW q, Goes(r, q), Sound(origin', q),
         Grows(origin, origin'),
         origin' \in [SettingsIds \union ChildIds -> Tables \union {None}],
         settings' = [s \in SettingsIds |-> settings'[s]],
         children' = [c \in ChildIds |-> children'[c]],
         \A s \in SettingsIds : settings'[s] # None /\ settings'[s] # settings[s]
                                  => RowOfTable(origin', settings'[s], s),
         \A c \in ChildIds : children'[c] # None /\ children'[c] # children[c]
                               => ChildOfTable(origin', children'[c], c),
         OneKind(children', req')
  PROVE  ConfigInv'
<1>1. ASSUME NEW p \in Requests PROVE Sound(origin', req'[p])
  <2>1. CASE p = r
    BY <2>1, RequestGoes
  <2>2. CASE p # r
    <3>1. Sound(origin, req[p]) /\ req'[p] = req[p]
      BY <2>2, RequestGoes DEF ConfigInv
    <3>2. Sound(origin', req[p])
      BY <3>1, SoundGrows
    <3> QED BY <3>1, <3>2
  <2> QED BY <2>1, <2>2
<1>2. ASSUME NEW s \in SettingsIds, settings'[s] # None
      PROVE  RowOfTable(origin', settings'[s], s)
  <2>1. CASE settings'[s] = settings[s]
    <3>1. RowOfTable(origin, settings[s], s)
      BY <1>2, <2>1 DEF ConfigInv
    <3>2. RowOfTable(origin', settings[s], s)
      BY <3>1, RowGrows
    <3> QED BY <2>1, <3>2
  <2> QED BY <1>2, <2>1
<1>3. ASSUME NEW c \in ChildIds, children'[c] # None
      PROVE  ChildOfTable(origin', children'[c], c)
  <2>1. CASE children'[c] = children[c]
    <3>1. ChildOfTable(origin, children[c], c)
      BY <1>3, <2>1 DEF ConfigInv
    <3>2. ChildOfTable(origin', children[c], c)
      BY <3>1, ChildGrows
    <3> QED BY <2>1, <3>2
  <2> QED BY <1>3, <2>1
<1>4. req' = [p \in Requests |-> req'[p]]
  BY RequestGoes
<1> QED BY <1>1, <1>2, <1>3, <1>4 DEF ConfigInv

\* A step that changes no row.
LEMMA OnlyRequestChanges ==
  ASSUME ConfigInv, NEW r \in Requests, NEW q, Goes(r, q), Sound(origin, q), Knows(q, r),
         UNCHANGED <<settings, children, origin>>
  PROVE  ConfigInv'
<1>1. OneKind(children', req')
  BY KnowsStays, HeldByItself
<1>2. Grows(origin, origin')
  BY DEF Grows
<1>3. settings' = settings /\ children' = children /\ origin' = origin
  OBVIOUS
<1>4. /\ origin' \in [SettingsIds \union ChildIds -> Tables \union {None}]
      /\ settings' = [s \in SettingsIds |-> settings'[s]]
      /\ children' = [c \in ChildIds |-> children'[c]]
      /\ Sound(origin', q)
  BY <1>3 DEF ConfigInv
<1> QED BY <1>1, <1>2, <1>3, <1>4, StepKeeps

LEMMA IdleIsSound ==
  ASSUME NEW from, NEW r \in Requests
  PROVE  Sound(from, Idle) /\ Knows(Idle, r)
BY TableConfigAssumption DEF Sound, Idle, Knows, Ids

\* A new request, and what it does to the notes of those it meets.
LEMMA OpenKeeps ==
  ASSUME ConfigInv, NEW r \in Requests, NEW request, Open(r, request),
         UNCHANGED <<settings, children, origin>>, Sound(origin, request), request.found = <<>>,
         request.child \in ChildIds
           => children[request.child] # None /\ children[request.child].kind = request.kind
  PROVE  ConfigInv'
<1>1. ASSUME NEW p \in Requests
      PROVE  \E base, alone, before :
               /\ req'[p] = base \/ req'[p] = [base EXCEPT !.alone = alone, !.before = before]
               /\ base = IF p = r THEN request ELSE req[p]
  BY DEF Open
<1>2. ASSUME NEW p \in Requests
      PROVE  /\ Sound(origin, req'[p])
             /\ req'[p].child \in ChildIds => Holds(children, req, req'[p].child, req'[p].kind)
             /\ \A c \in Ids(req'[p].found) : Holds(children, req, c, "widget")
  <2>1. PICK base, alone, before :
          /\ req'[p] = base \/ req'[p] = [base EXCEPT !.alone = alone, !.before = before]
          /\ base = IF p = r THEN request ELSE req[p]
    BY <1>1
  <2>2. Sound(origin, base)
    BY <2>1 DEF ConfigInv
  <2>3. PICK noted : noted = [base EXCEPT !.alone = alone, !.before = before]
    OBVIOUS
  <2>5. Sound(origin, noted) /\ noted.child = base.child /\ noted.kind = base.kind
        /\ noted.found = base.found
    <3>1. noted = [op |-> base.op, pc |-> base.pc, tables |-> base.tables, table |-> base.table,
                   body |-> base.body, kind |-> base.kind, name |-> base.name,
                   child |-> base.child, copy |-> base.copy, array |-> base.array,
                   wanted |-> base.wanted, found |-> base.found, left |-> base.left,
                   alone |-> alone, before |-> before]
      BY <2>2, <2>3 DEF Sound
    <3> QED BY <2>2, <3>1 DEF Sound, Busy
  <2>6. req'[p] = base \/ req'[p] = noted
    BY <2>1, <2>3
  <2>4. /\ base.child \in ChildIds => Holds(children, req, base.child, base.kind)
        /\ \A c \in Ids(base.found) : Holds(children, req, c, "widget")
    BY <2>1 DEF Holds, Ids
  <2> QED BY <2>2, <2>4, <2>5, <2>6
<1>3. req' = [p \in Requests |-> req'[p]]
  BY DEF Open
<1>4. PICK after, later : after = children' /\ later = req'
  OBVIOUS
<1>5. OneKind(after, later)
  BY <1>2, <1>4, HeldByItself, HoldsStay DEF ConfigInv
<1> QED BY <1>2, <1>3, <1>4, <1>5 DEF ConfigInv
-----------------------------------------------------------------------------
(* The handlers, up to their first write. *)
LEMMA FreshRequest ==
  ASSUME NEW op, NEW t, NEW pc
  PROVE  New(op, t, pc) =
           [op |-> op, pc |-> pc, tables |-> {t}, table |-> t, body |-> None, kind |-> None,
            name |-> None, child |-> None, copy |-> None, array |-> <<>>, wanted |-> <<>>,
            found |-> <<>>, left |-> {}, alone |-> FALSE, before |-> None]
<1>1. PICK request : request = New(op, t, pc)
  OBVIOUS
<1>2. request =
        [op |-> op, pc |-> pc, tables |-> {t}, table |-> t, body |-> None, kind |-> None,
         name |-> None, child |-> None, copy |-> None, array |-> <<>>, wanted |-> <<>>,
         found |-> <<>>, left |-> {}, alone |-> FALSE, before |-> None]
  BY <1>1 DEF New, Idle
<1> QED BY <1>1, <1>2

LEMMA EmptyItems ==
  \A from, t : <<>> \in Seq(Items(from, t)) /\ <<>> \in Seq(Asked(t))
BY EmptySeq

LEMMA SettingsRequestsKeep ==
  ASSUME ConfigInv, NEW r \in Requests, NEW t \in Tables, NEW body,
         CreateSettings(r, t, body) \/ UpdateSettings(r, t, body) \/ DeleteSettings(r, t)
  PROVE  ConfigInv'
<1>1. ASSUME CreateSettings(r, t, body) PROVE ConfigInv'
  <2>1. PICK q : q = [New("create settings", t, "create") EXCEPT !.body = body]
    OBVIOUS
  <2>2. Exist(t, body) /\ Open(r, q) /\ UNCHANGED <<settings, children, origin>>
    BY <1>1, <2>1 DEF CreateSettings, Accepts
  <2>3. Sound(origin, q) /\ q.found = <<>> /\ q.child = None
    BY <2>1, <2>2, FreshRequest, EmptyItems DEF Sound, Busy, Makes, Renames
  <2> QED BY <2>2, <2>3, OpenKeeps, TableConfigAssumption
<1>2. ASSUME UpdateSettings(r, t, body) PROVE ConfigInv'
  <2>1. PICK s \in SettingsOf(t) :
          Open(r, [New("update settings", t, "save") EXCEPT
                     !.body = body, !.copy = [id |-> s, table |-> t, columns |-> body]])
    BY <1>2 DEF UpdateSettings
  <2>2. PICK q : q = [New("update settings", t, "save") EXCEPT
                        !.body = body, !.copy = [id |-> s, table |-> t, columns |-> body]]
    OBVIOUS
  <2>3. Exist(t, body) /\ Open(r, q) /\ UNCHANGED <<settings, children, origin>>
    BY <1>2, <2>1, <2>2 DEF UpdateSettings, Accepts
  <2>4. CopyOfTable(origin, t, [id |-> s, table |-> t, columns |-> body])
    BY <2>3, SettingsAreOfTable DEF CopyOfTable
  <2>5. Sound(origin, q) /\ q.found = <<>> /\ q.child = None
    BY <2>2, <2>3, <2>4, FreshRequest, EmptyItems DEF Sound, Busy, Makes, Renames
  <2> QED BY <2>3, <2>5, OpenKeeps, TableConfigAssumption
<1>3. ASSUME DeleteSettings(r, t) PROVE ConfigInv'
  <2>1. PICK s \in SettingsOf(t) :
          Open(r, [New("delete settings", t, "drop") EXCEPT
                     !.copy = [id |-> s, table |-> t, columns |-> settings[s].columns]])
    BY <1>3 DEF DeleteSettings
  <2>2. PICK q, columns : /\ columns = settings[s].columns
                          /\ q = [New("delete settings", t, "drop") EXCEPT
                                    !.copy = [id |-> s, table |-> t, columns |-> columns]]
    OBVIOUS
  <2>3. Open(r, q) /\ UNCHANGED <<settings, children, origin>>
    BY <1>3, <2>1, <2>2 DEF DeleteSettings
  <2>4. CopyOfTable(origin, t, [id |-> s, table |-> t, columns |-> columns])
    BY <2>2, SettingsAreOfTable DEF CopyOfTable, RowOfTable, Exist, Existing
  <2>5. Sound(origin, q) /\ q.found = <<>> /\ q.child = None
    BY <2>2, <2>4, FreshRequest, EmptyItems DEF Sound, Busy, Makes, Renames
  <2> QED BY <2>3, <2>5, OpenKeeps, TableConfigAssumption
<1> QED BY <1>1, <1>2, <1>3

LEMMA MakingRequestsKeep ==
  ASSUME ConfigInv, NEW r \in Requests, NEW t \in Tables, NEW name \in Names,
         CreateField(r, t, name) \/ CreateAction(r, t, name)
  PROVE  ConfigInv'
<1>1. ASSUME NEW op \in Makes, NEW kind \in {"field", "action"}, NEW start, NEW q,
             start = [New(op, t, "store") EXCEPT !.kind = kind, !.name = name],
             q = start \/ ReadFor(start, q)
      PROVE  /\ Sound(origin, q) /\ q.found = <<>> /\ q.child = None
             /\ Sound(origin, [q EXCEPT !.pc = "create"])
             /\ [q EXCEPT !.pc = "create"].found = <<>> /\ [q EXCEPT !.pc = "create"].child = None
  <2>1. start = [op |-> op, pc |-> "store", tables |-> {t}, table |-> t, body |-> None,
                 kind |-> kind, name |-> name, child |-> None, copy |-> None, array |-> <<>>,
                 wanted |-> <<>>, found |-> <<>>, left |-> {}, alone |-> FALSE, before |-> None]
    BY <1>1, FreshRequest
  <2>2. PICK copy, array :
          /\ q = [start EXCEPT !.copy = copy, !.array = array]
          /\ copy # None => CopyOfTable(origin, t, copy)
          /\ array \in Seq(Items(origin, t))
    <3>1. CASE q = start
      <4>1. PICK p : p = [start EXCEPT !.copy = None, !.array = <<>>]
        OBVIOUS
      <4>2. p = [op |-> op, pc |-> "store", tables |-> {t}, table |-> t, body |-> None,
                 kind |-> kind, name |-> name, child |-> None, copy |-> None, array |-> <<>>,
                 wanted |-> <<>>, found |-> <<>>, left |-> {}, alone |-> FALSE, before |-> None]
        BY <2>1, <4>1
      <4> QED BY <2>1, <3>1, <4>1, <4>2, EmptyItems
    <3>2. CASE ReadFor(start, q)
      BY <2>1, <3>2 DEF ReadFor
    <3> QED BY <1>1, <3>1, <3>2
  <2>3. q = [op |-> op, pc |-> "store", tables |-> {t}, table |-> t, body |-> None,
             kind |-> kind, name |-> name, child |-> None, copy |-> copy, array |-> array,
             wanted |-> <<>>, found |-> <<>>, left |-> {}, alone |-> FALSE, before |-> None]
    BY <2>1, <2>2
  <2>4. PICK p : p = [q EXCEPT !.pc = "create"]
    OBVIOUS
  <2>5. p = [op |-> op, pc |-> "create", tables |-> {t}, table |-> t, body |-> None,
             kind |-> kind, name |-> name, child |-> None, copy |-> copy, array |-> array,
             wanted |-> <<>>, found |-> <<>>, left |-> {}, alone |-> FALSE, before |-> None]
    BY <2>3, <2>4
  <2>6. op \notin {"create settings", "put widgets"} /\ op \notin Renames
    BY DEF Makes, Renames
  <2>7. Sound(origin, q) /\ q.found = <<>> /\ q.child = None
    <3>1. /\ q.op = op /\ q.pc = "store" /\ q.table = t /\ q.body = None /\ q.kind = kind
          /\ q.name = name /\ q.child = None /\ q.copy = copy /\ q.array = array
          /\ q.wanted = <<>> /\ q.found = <<>>
      BY <2>3
    <3>2. Busy(origin, q)
      BY <2>2, <2>6, <3>1, EmptyItems DEF Busy
    <3> QED BY <2>3, <3>1, <3>2 DEF Sound
  <2>8. Sound(origin, p) /\ p.found = <<>> /\ p.child = None
    <3>1. /\ p.op = op /\ p.pc = "create" /\ p.table = t /\ p.body = None /\ p.kind = kind
          /\ p.name = name /\ p.child = None /\ p.copy = copy /\ p.array = array
          /\ p.wanted = <<>> /\ p.found = <<>>
      BY <2>5
    <3>2. Busy(origin, p)
      BY <2>2, <2>6, <3>1, EmptyItems DEF Busy
    <3> QED BY <2>5, <3>1, <3>2 DEF Sound
  <2> QED BY <2>4, <2>7, <2>8
<1>2. ASSUME CreateField(r, t, name) PROVE ConfigInv'
  <2>1. PICK start : start = [New("create field", t, "store") EXCEPT !.kind = "field", !.name = name]
    OBVIOUS
  <2>2. PICK q \in Reads(start, "field") : Open(r, q)
    BY <1>2, <2>1 DEF CreateField
  <2>3. q = start \/ ReadFor(start, q)
    BY <2>1, FreshRequest, ReadsAreOfTable DEF Kinds
  <2>4. Sound(origin, q) /\ q.found = <<>> /\ q.child = None
    BY <1>1, <2>1, <2>3 DEF Makes
  <2> QED BY <1>2, <2>2, <2>4, OpenKeeps, TableConfigAssumption DEF CreateField
<1>3. ASSUME CreateAction(r, t, name) PROVE ConfigInv'
  <2>1. PICK start : start = [New("create action", t, "store") EXCEPT !.kind = "action", !.name = name]
    OBVIOUS
  <2>2. PICK q \in Reads(start, "action") :
          Open(r, IF q.copy = None THEN [q EXCEPT !.pc = "create"] ELSE q)
    BY <1>3, <2>1 DEF CreateAction
  <2>3. q = start \/ ReadFor(start, q)
    BY <2>1, FreshRequest, ReadsAreOfTable DEF Kinds
  <2>4. PICK p : p = IF q.copy = None THEN [q EXCEPT !.pc = "create"] ELSE q
    OBVIOUS
  <2>5. Sound(origin, p) /\ p.found = <<>> /\ p.child = None
    BY <1>1, <2>1, <2>3, <2>4 DEF Makes
  <2> QED BY <1>3, <2>2, <2>4, <2>5, OpenKeeps, TableConfigAssumption DEF CreateAction
<1> QED BY <1>2, <1>3

LEMMA ChildRequestsKeep ==
  ASSUME ConfigInv, NEW r \in Requests, NEW t, NEW c \in ChildIds, NEW name,
         \/ t \in Tables /\ name \in Names /\ UpdateField(r, t, c, name)
         \/ name \in Names /\ UpdateAction(r, c, name)
         \/ t \in Tables /\ DeleteField(r, t, c)
         \/ DeleteAction(r, c)
  PROVE  ConfigInv'
<1>1. children[c] # None => origin[c] \in Tables /\ c # None
  BY TableConfigAssumption DEF ConfigInv, ChildOfTable
<1>2. UNCHANGED <<settings, children, origin>> /\ children[c] # None
  BY DEF UpdateField, UpdateAction, DeleteField, DeleteAction
<1>3. ASSUME NEW q, Open(r, q), Sound(origin, q), q.found = <<>>, q.child = c,
             children[c].kind = q.kind
      PROVE  ConfigInv'
  BY <1>2, <1>3, OpenKeeps
<1>4. PICK both, from : both = {t, origin[c]} /\ from = origin[c]
  OBVIOUS
<1>5. ASSUME t \in Tables, name \in Names, UpdateField(r, t, c, name) PROVE ConfigInv'
  <2>1. PICK q : q = [New("update field", t, "write") EXCEPT
                        !.kind = "field", !.child = c, !.name = name, !.tables = both]
    OBVIOUS
  <2>2. Open(r, q) /\ children[c].kind = "field"
    BY <1>4, <1>5, <2>1 DEF UpdateField
  <2>3. Sound(origin, q) /\ q.found = <<>> /\ q.child = c /\ q.kind = "field"
    BY <1>1, <1>2, <1>5, <2>1, FreshRequest, EmptyItems DEF Sound, Busy, Makes, Renames
  <2> QED BY <1>3, <2>2, <2>3
<1>6. ASSUME name \in Names, UpdateAction(r, c, name) PROVE ConfigInv'
  <2>1. PICK q : q = [New("update action", from, "write") EXCEPT
                        !.kind = "action", !.child = c, !.name = name]
    OBVIOUS
  <2>2. Open(r, q) /\ children[c].kind = "action"
    BY <1>4, <1>6, <2>1 DEF UpdateAction
  <2>3. Sound(origin, q) /\ q.found = <<>> /\ q.child = c /\ q.kind = "action"
    BY <1>1, <1>2, <1>4, <1>6, <2>1, FreshRequest, EmptyItems DEF Sound, Busy, Makes, Renames
  <2> QED BY <1>3, <2>2, <2>3
<1>7. ASSUME t \in Tables, DeleteField(r, t, c) PROVE ConfigInv'
  <2>1. PICK q : q = [New("delete field", t, "read") EXCEPT
                        !.kind = "field", !.child = c, !.tables = both]
    OBVIOUS
  <2>2. Open(r, q) /\ children[c].kind = "field"
    BY <1>4, <1>7, <2>1 DEF DeleteField
  <2>3. Sound(origin, q) /\ q.found = <<>> /\ q.child = c /\ q.kind = "field"
    BY <1>1, <1>2, <1>7, <2>1, FreshRequest, EmptyItems DEF Sound, Busy, Makes, Renames
  <2> QED BY <1>3, <2>2, <2>3
<1>8. ASSUME DeleteAction(r, c) PROVE ConfigInv'
  <2>1. PICK q : q = [New("delete action", from, "remove") EXCEPT !.kind = "action", !.child = c]
    OBVIOUS
  <2>2. Open(r, q) /\ children[c].kind = "action"
    BY <1>4, <1>8, <2>1 DEF DeleteAction
  <2>3. Sound(origin, q) /\ q.found = <<>> /\ q.child = c /\ q.kind = "action"
    BY <1>1, <1>2, <1>4, <2>1, FreshRequest, EmptyItems DEF Sound, Busy, Makes, Renames
  <2> QED BY <1>3, <2>2, <2>3
<1> QED BY <1>5, <1>6, <1>7, <1>8

LEMMA PutWidgetsKeeps ==
  ASSUME ConfigInv, NEW r \in Requests, NEW t \in Tables, NEW wanted \in WidgetLists,
         PutWidgets(r, t, wanted)
  PROVE  ConfigInv'
<1>1. PICK names : names = {w.field : w \in ToSet(wanted)}
  OBVIOUS
<1>2. PICK start : start = [New("put widgets", t, "find") EXCEPT
                              !.kind = "widget", !.name = names, !.wanted = wanted]
  OBVIOUS
<1>3. start = [op |-> "put widgets", pc |-> "find", tables |-> {t}, table |-> t, body |-> None,
               kind |-> "widget", name |-> names, child |-> None, copy |-> None, array |-> <<>>,
               wanted |-> wanted, found |-> <<>>, left |-> {}, alone |-> FALSE, before |-> None]
  BY <1>2, FreshRequest
<1>4. PICK q \in Reads(start, "widget") :
        Open(r, IF q.copy = None THEN [q EXCEPT !.pc = "create"] ELSE q)
  BY <1>1, <1>2 DEF PutWidgets
<1>5. wanted \in Seq(Asked(t))
  <2>1. wanted \in Seq(ToSet(wanted)) /\ AcceptsWidgets(t, wanted)
    BY TableConfigAssumption DEF PutWidgets
  <2>2. ToSet(wanted) \subseteq Asked(t)
    BY <2>1 DEF ToSet, AcceptsWidgets, Asked
  <2> QED BY <2>1, <2>2, SeqMonotonic
<1>6. q = start \/ ReadFor(start, q)
  BY <1>3, ReadsAreOfTable DEF Kinds
<1>7. PICK copy, array : /\ q = [start EXCEPT !.copy = copy, !.array = array]
                         /\ copy # None => CopyOfTable(origin, t, copy)
                         /\ array \in Seq(Items(origin, t))
  <2>1. CASE q = start
    <3>1. PICK p : p = [start EXCEPT !.copy = None, !.array = <<>>]
      OBVIOUS
    <3>2. p = [op |-> "put widgets", pc |-> "find", tables |-> {t}, table |-> t, body |-> None,
               kind |-> "widget", name |-> names, child |-> None, copy |-> None, array |-> <<>>,
               wanted |-> wanted, found |-> <<>>, left |-> {}, alone |-> FALSE, before |-> None]
      BY <1>3, <3>1
    <3> QED BY <1>3, <2>1, <3>1, <3>2, EmptyItems
  <2>2. CASE ReadFor(start, q)
    BY <1>3, <2>2 DEF ReadFor
  <2> QED BY <1>6, <2>1, <2>2
<1>8. PICK call : call = IF copy = None THEN "create" ELSE "find"
  OBVIOUS
<1>9. PICK p : p = IF q.copy = None THEN [q EXCEPT !.pc = "create"] ELSE q
  OBVIOUS
<1>10. p = [op |-> "put widgets", pc |-> call, tables |-> {t}, table |-> t, body |-> None,
            kind |-> "widget", name |-> names, child |-> None, copy |-> copy, array |-> array,
            wanted |-> wanted, found |-> <<>>, left |-> {}, alone |-> FALSE, before |-> None]
  <2>1. q = [op |-> "put widgets", pc |-> "find", tables |-> {t}, table |-> t, body |-> None,
             kind |-> "widget", name |-> names, child |-> None, copy |-> copy, array |-> array,
             wanted |-> wanted, found |-> <<>>, left |-> {}, alone |-> FALSE, before |-> None]
    BY <1>3, <1>7
  <2> QED BY <1>8, <1>9, <2>1
<1>11. Sound(origin, p) /\ p.found = <<>> /\ p.child = None
  BY <1>5, <1>7, <1>8, <1>10, EmptyItems DEF Sound, Busy, Makes, Renames
<1> QED BY <1>4, <1>9, <1>11, OpenKeeps, TableConfigAssumption DEF PutWidgets
-----------------------------------------------------------------------------
(* The steps that follow. *)
Shaped(q) ==
  q = [op |-> q.op, pc |-> q.pc, tables |-> q.tables, table |-> q.table, body |-> q.body,
       kind |-> q.kind, name |-> q.name, child |-> q.child, copy |-> q.copy,
       array |-> q.array, wanted |-> q.wanted, found |-> q.found, left |-> q.left,
       alone |-> q.alone, before |-> q.before]
Same(q, p) == /\ q.op = p.op /\ q.table = p.table /\ q.body = p.body /\ q.kind = p.kind
              /\ q.name = p.name /\ q.child = p.child

LEMMA Serving ==
  ASSUME ConfigInv, NEW r \in Requests, req[r].pc # "idle"
  PROVE  Shaped(req[r]) /\ Busy(origin, req[r])
BY DEF ConfigInv, Sound, Shaped

\* A request that goes on keeps what it does not change.
LEMMA GoesOn ==
  ASSUME NEW from, NEW p, Busy(from, p), NEW q, Shaped(q), Same(q, p),
         q.pc \notin {"idle", "write"}, q.pc \in {"create", "store"} => q.op \in Makes,
         q.copy # None \/ q.pc \in {"save", "find", "widgets", "drop"}
           \/ (q.pc = "remove" /\ q.kind = "field")
           => CopyOfTable(from, q.table, q.copy),
         q.pc \in {"find", "widgets"} => q.op = "put widgets",
         q.array \in Seq(Items(from, q.table)), q.found \in Seq(Items(from, q.table)),
         q.wanted \in Seq(Asked(q.table))
  PROVE  Sound(from, q)
<1>1. Busy(from, q)
  BY DEF Busy, Same
<1> QED BY <1>1 DEF Sound, Shaped

LEMMA NobodyHoldsFresh ==
  ASSUME ConfigInv, NEW c \in Fresh(ChildIds)
  PROVE  /\ c \in ChildIds /\ children[c] = None
         /\ \A p \in Requests : req[p].child # c /\ c \notin Ids(req[p].found)
<1>1. c \in ChildIds /\ origin[c] = None /\ None \notin Tables /\ c # None
  BY TableConfigAssumption DEF Fresh
<1>2. children[c] = None
  BY <1>1 DEF ConfigInv, ChildOfTable
<1>3. ASSUME NEW p \in Requests PROVE req[p].child # c /\ c \notin Ids(req[p].found)
  <2>1. CASE req[p].pc = "idle"
    BY <1>1, <2>1 DEF ConfigInv, Sound, Ids
  <2>2. CASE req[p].pc # "idle"
    <3>1. Busy(origin, req[p])
      BY <2>2, Serving
    <3>2. req[p].found \in Seq(Items(origin, req[p].table))
      BY <3>1 DEF Busy
    <3>3. Ids(req[p].found) \subseteq {i \in ChildIds : origin[i] = req[p].table}
      BY <3>2, IdsAreIds
    <3> QED BY <1>1, <3>1, <3>3 DEF Busy
  <2> QED BY <2>1, <2>2
<1> QED BY <1>1, <1>2, <1>3

\* A new row of a list is in that list only.
LEMMA BornIsOneKind ==
  ASSUME ConfigInv, NEW r \in Requests, NEW q, Goes(r, q), Knows(q, r),
         NEW c \in Fresh(ChildIds), NEW row, children' = [children EXCEPT ![c] = row]
  PROVE  OneKind(children', req')
<1>0. PICK rows, after, later : rows = children /\ after = children' /\ later = req'
  OBVIOUS
<1>1. c \in ChildIds /\ children[c] = None
      /\ \A p \in Requests : req[p].child # c /\ c \notin Ids(req[p].found)
  BY NobodyHoldsFresh
<1>2. \A k \in Kinds : ~ Holds(children, req, c, k)
  BY <1>1 DEF Holds
<1>3. ASSUME NEW p \in Requests
      PROVE  /\ later[p].child \in ChildIds => Holds(children, req, later[p].child, later[p].kind)
             /\ \A i \in Ids(later[p].found) : Holds(children, req, i, "widget")
             /\ later[p].child # c /\ c \notin Ids(later[p].found)
  <2>1. CASE p = r
    <3>1. later[p] = q
      BY <1>0, <2>1, RequestGoes
    <3>2. q.child # c
      BY <1>1 DEF Knows
    <3>3. c \notin Ids(q.found)
      BY <1>2 DEF Knows, Kinds
    <3> QED BY <2>1, <3>1, <3>2, <3>3 DEF Knows, Holds
  <2>2. CASE p # r
    <3>1. later[p] = req[p]
      BY <1>0, <2>2, RequestGoes
    <3> QED BY <1>1, <3>1 DEF Holds
  <2> QED BY <2>1, <2>2
<1>4. \A i \in ChildIds \ {c} : after[i] = rows[i]
  BY <1>0 DEF ConfigInv
<1>5. ASSUME NEW i \in ChildIds, i # c, NEW k \in Kinds, Holds(after, later, i, k)
      PROVE  Holds(rows, req, i, k)
  <2>1. after[i] = rows[i]
    BY <1>4, <1>5
  <2> QED BY <1>0, <1>3, <1>5, <2>1 DEF Holds
<1>6. ASSUME NEW k \in Kinds, Holds(after, later, c, k) PROVE k = after[c].kind
  BY <1>3, <1>6 DEF Holds
<1>7. OneKind(rows, req)
  BY <1>0 DEF ConfigInv
<1>8. ASSUME NEW i \in ChildIds, NEW j \in Kinds, NEW k \in Kinds,
             Holds(after, later, i, j), Holds(after, later, i, k)
      PROVE  j = k
  <2>1. CASE i = c
    BY <1>6, <1>8, <2>1
  <2>2. CASE i # c
    BY <1>5, <1>7, <1>8, <2>2 DEF OneKind
  <2> QED BY <2>1, <2>2
<1>9. OneKind(after, later)
  BY <1>8 DEF OneKind
<1> QED BY <1>0, <1>9
-----------------------------------------------------------------------------
LEMMA GivenAgain ==
  ASSUME ConfigInv, NEW i \in SettingsIds \union ChildIds, origin[i] = None, NEW t \in Tables,
         origin' = [origin EXCEPT ![i] = t]
  PROVE  /\ origin' \in [SettingsIds \union ChildIds -> Tables \union {None}]
         /\ origin'[i] = t /\ Grows(origin, origin')
BY DEF ConfigInv, Grows

LEMMA InsertSettingsKeeps ==
  ASSUME ConfigInv, NEW r \in Requests, InsertSettings(r)
  PROVE  ConfigInv'
<1> DEFINE p == req[r]
           t == p.table
<1>1. p.pc = "create" /\ children' = children
  BY DEF InsertSettings
<1>2. Shaped(p) /\ Busy(origin, p) /\ t \in Tables
  BY <1>1, Serving DEF Busy
<1>3. PICK body : body = IF p.body = None THEN NoColumns ELSE p.body
  OBVIOUS
<1>4. Exist(t, body)
  BY <1>2, <1>3 DEF Busy, Exist, NoColumns
<1>5. ASSUME Close(r), UNCHANGED <<settings, origin>> PROVE ConfigInv'
  BY <1>1, <1>5, IdleIsSound, OnlyRequestChanges DEF Close
<1>6. ASSUME NEW s \in Fresh(SettingsIds),
             settings' = [settings EXCEPT ![s] = [table |-> t, columns |-> Merge(Defaults, body)]],
             origin' = [origin EXCEPT ![s] = t],
             IF p.op = "create settings" THEN Close(r)
             ELSE Goes(r, [p EXCEPT !.copy = [id |-> s, table |-> t, columns |-> Defaults],
                                    !.pc = NextAfterCreate(p)])
      PROVE  ConfigInv'
  <2>1. s \in SettingsIds /\ origin[s] = None
    BY <1>6 DEF Fresh
  <2>2. /\ origin' \in [SettingsIds \union ChildIds -> Tables \union {None}]
        /\ origin'[s] = t /\ Grows(origin, origin')
    BY <1>2, <1>6, <2>1, GivenAgain
  <2>3. settings' = [i \in SettingsIds |-> settings'[i]] /\ children' = [c \in ChildIds |-> children'[c]]
    BY <1>1, <1>6 DEF ConfigInv
  <2>4. PICK from : from = origin'
    OBVIOUS
  <2>5. ASSUME NEW i \in SettingsIds, settings'[i] # settings[i]
        PROVE  RowOfTable(origin', settings'[i], i)
    <3>1. i = s
      BY <1>6, <2>5 DEF ConfigInv
    <3>2. settings'[i] = [table |-> t, columns |-> Merge(Defaults, body)]
      BY <1>6, <2>1, <3>1 DEF ConfigInv
    <3>3. /\ DOMAIN Merge(Defaults, body) = Columns
          /\ \A l \in Existing : Merge(Defaults, body)[l] \subseteq FieldsOf[t]
      <4>1. PICK columns : columns = Merge(Defaults, body)
        OBVIOUS
      <4>2. DOMAIN columns = Columns
        BY <4>1 DEF Merge, Defaults, Columns
      <4>3. ASSUME NEW l \in Existing PROVE columns[l] \subseteq FieldsOf[t]
        <5>1. l \in Columns /\ l # "list_per_page"
          BY DEF Existing, Columns, Lists, Guarded
        <5>2. Defaults[l] = {} /\ columns[l] = IF body[l] = Undefined THEN Defaults[l] ELSE body[l]
          BY <4>1, <5>1 DEF Merge, Defaults, Columns
        <5> QED BY <1>4, <5>2 DEF Exist, Existing
      <4> QED BY <4>1, <4>2, <4>3
    <3> QED BY <1>2, <2>2, <3>1, <3>2, <3>3 DEF RowOfTable
  <2>6. ASSUME NEW q, Goes(r, q), Sound(origin', q), Knows(q, r) PROVE ConfigInv'
    <3>1. OneKind(children', req')
      BY <1>1, <2>6, KnowsStays, HeldByItself
    <3> QED BY <1>1, <2>2, <2>3, <2>5, <2>6, <3>1, StepKeeps
  <2>7. CASE p.op = "create settings"
    BY <1>6, <2>6, <2>7, IdleIsSound DEF Close
  <2>8. CASE p.op # "create settings"
    <3>1. PICK q, copy, next : /\ copy = [id |-> s, table |-> t, columns |-> Defaults]
                               /\ next = NextAfterCreate(p)
                               /\ q = [p EXCEPT !.copy = copy, !.pc = next]
      OBVIOUS
    <3>2. Goes(r, q)
      BY <1>6, <2>8, <3>1
    <3>3. /\ Shaped(q) /\ Same(q, p) /\ q.pc = next /\ q.copy = copy /\ q.array = p.array
          /\ q.wanted = p.wanted /\ q.found = p.found
      BY <1>2, <3>1 DEF Shaped, Same
    <3>4. /\ next \in {"save", "store", "find"}
          /\ next = "store" => p.op = "create action"
          /\ next = "find" => p.op = "put widgets"
      BY <1>1, <1>2, <2>8, <3>1 DEF Busy, Makes, NextAfterCreate
    <3>5. CopyOfTable(from, t, copy)
      <4>1. ASSUME NEW l \in Lists \ {"autocomplete_columns"} PROVE Defaults[l] = {}
        BY DEF Defaults, Lists, Guarded
      <4>2. Exist(t, Defaults)
        BY <4>1 DEF Exist
      <4> QED BY <2>1, <2>2, <2>4, <3>1, <4>2 DEF CopyOfTable
    <3>6. Sound(from, p)
      BY <2>2, <2>4, SoundGrows DEF ConfigInv
    <3>7. Busy(from, p)
      BY <1>1, <3>6 DEF Sound
    <3>8. /\ q.array \in Seq(Items(from, q.table)) /\ q.found \in Seq(Items(from, q.table))
          /\ q.wanted \in Seq(Asked(q.table)) /\ CopyOfTable(from, q.table, q.copy)
          /\ q.pc \notin {"idle", "write", "create"}
          /\ q.pc = "store" => q.op \in Makes
          /\ q.pc \in {"find", "widgets"} => q.op = "put widgets"
      BY <3>3, <3>4, <3>5, <3>7 DEF Busy, Same, Makes
    <3>9. Sound(from, q)
      BY <3>3, <3>7, <3>8, GoesOn
    <3>10. Knows(q, r)
      BY <3>3 DEF Knows, Same, Holds
    <3> QED BY <2>4, <2>6, <3>2, <3>9, <3>10
  <2> QED BY <2>7, <2>8
<1> QED BY <1>3, <1>5, <1>6 DEF InsertSettings

LEMMA DropSettingsKeeps ==
  ASSUME ConfigInv, NEW r \in Requests, DropSettings(r)
  PROVE  ConfigInv'
<1>1. /\ settings' = [settings EXCEPT ![req[r].copy.id] = None] /\ Goes(r, Idle)
      /\ children' = [c \in ChildIds |->
                        IF children[c] # None /\ children[c].settings = req[r].copy.id THEN None
                        ELSE children[c]]
      /\ origin' = origin
  BY DEF DropSettings, Close
<1>2. \A s \in SettingsIds : settings'[s] \in {None, settings[s]}
  BY <1>1 DEF ConfigInv
<1>3. \A c \in ChildIds : children'[c] \in {None, children[c]}
  BY <1>1
<1>4. settings' = [s \in SettingsIds |-> settings'[s]] /\ children' = [c \in ChildIds |-> children'[c]]
  BY <1>1 DEF ConfigInv
<1>5. OneKind(children', req')
  BY <1>1, <1>3, IdleIsSound, KnowsStays, HeldByItself
<1>6. Grows(origin, origin') /\ Sound(origin', Idle)
      /\ origin' \in [SettingsIds \union ChildIds -> Tables \union {None}]
  BY <1>1, IdleIsSound DEF Grows, ConfigInv
<1> QED BY <1>1, <1>2, <1>3, <1>4, <1>5, <1>6, StepKeeps

LEMMA StoreChildKeeps ==
  ASSUME ConfigInv, NEW r \in Requests, StoreChild(r)
  PROVE  ConfigInv'
<1> DEFINE p == req[r]
           t == p.table
<1>1. PICK c \in Fresh(ChildIds) :
        /\ Born(r, c, p.name)
        /\ Goes(r, [p EXCEPT !.array = Push(r, c, p.name),
                             !.pc = IF p.copy = None THEN "create" ELSE "save"])
  BY DEF StoreChild
<1>2. p.pc = "store" /\ settings' = settings
  BY DEF StoreChild
<1>3. Shaped(p) /\ Busy(origin, p) /\ t \in Tables /\ p.op \in Makes
      /\ p.name \in Names /\ p.kind \in {"field", "action"}
  BY <1>2, Serving DEF Busy
<1>4. PICK row : row = [kind |-> p.kind, name |-> p.name, settings |-> None]
  OBVIOUS
<1>5. children' = [children EXCEPT ![c] = row] /\ origin' = [origin EXCEPT ![c] = t]
      /\ c \in ChildIds /\ origin[c] = None
  BY <1>1, <1>4 DEF Born, Fresh
<1>6. /\ origin' \in [SettingsIds \union ChildIds -> Tables \union {None}]
      /\ origin'[c] = t /\ Grows(origin, origin')
  BY <1>3, <1>5, GivenAgain
<1>7. PICK from : from = origin'
  OBVIOUS
<1>8. PICK q, array, next : /\ array = Push(r, c, p.name)
                            /\ next = IF p.copy = None THEN "create" ELSE "save"
                            /\ q = [p EXCEPT !.array = array, !.pc = next]
  OBVIOUS
<1>9. /\ Shaped(q) /\ Same(q, p) /\ q.pc = next /\ q.copy = p.copy /\ q.array = array
      /\ q.wanted = p.wanted /\ q.found = p.found
  BY <1>3, <1>8 DEF Shaped, Same
<1>10. Sound(from, p)
  BY <1>6, <1>7, SoundGrows DEF ConfigInv
<1>11. Busy(from, p)
  BY <1>2, <1>10 DEF Sound
<1>12. array \in Seq(Items(from, t))
  <2>1. p.array \in Seq(Items(from, t)) /\ array = Append(p.array, [id |-> c, name |-> p.name])
    BY <1>8, <1>11 DEF Busy, Push
  <2>2. [id |-> c, name |-> p.name] \in Items(from, t)
    BY <1>3, <1>5, <1>6, <1>7 DEF Items, NameSet
  <2> QED BY <2>1, <2>2, AppendProperties
<1>13. Sound(from, q)
  <2>1. q.table = t /\ q.pc \in {"create", "save"} /\ q.op \in Makes
        /\ (q.pc = "save" <=> q.copy # None)
    BY <1>3, <1>8, <1>9 DEF Same
  <2>2. /\ q.array \in Seq(Items(from, q.table)) /\ q.found \in Seq(Items(from, q.table))
        /\ q.wanted \in Seq(Asked(q.table))
    BY <1>9, <1>11, <1>12, <2>1 DEF Busy
  <2>3. q.copy # None => CopyOfTable(from, q.table, q.copy)
    BY <1>9, <1>11, <2>1 DEF Busy
  <2> QED BY <1>9, <1>11, <2>1, <2>2, <2>3, GoesOn
<1>14. Goes(r, q) /\ Knows(q, r)
  BY <1>1, <1>8, <1>9 DEF Knows, Same, Holds
<1>15. OneKind(children', req')
  BY <1>1, <1>5, <1>14, BornIsOneKind
<1>16. ASSUME NEW i \in ChildIds, children'[i] # children[i]
       PROVE  ChildOfTable(origin', children'[i], i)
  <2>1. i = c /\ children'[i] = row
    BY <1>5, <1>16 DEF ConfigInv
  <2> QED BY <1>3, <1>4, <1>6, <2>1 DEF ChildOfTable, Kinds, NameSet
<1>17. settings' = [s \in SettingsIds |-> settings'[s]] /\ children' = [i \in ChildIds |-> children'[i]]
  BY <1>2, <1>5 DEF ConfigInv
<1> QED BY <1>2, <1>6, <1>7, <1>13, <1>14, <1>15, <1>16, <1>17, StepKeeps

\* A step that changes rows of the lists, and gives no id.
LEMMA RowsChange ==
  ASSUME ConfigInv, NEW r \in Requests, NEW q, Goes(r, q), Sound(origin, q), Knows(q, r),
         UNCHANGED <<settings, origin>>, children' = [c \in ChildIds |-> children'[c]],
         \A c \in ChildIds : children'[c] # None /\ children'[c] # children[c]
           => ChildOfTable(origin, children'[c], c) /\ Holds(children, req, c, children'[c].kind)
  PROVE  ConfigInv'
<1>1. \A c \in ChildIds : children'[c] # None => Holds(children, req, c, children'[c].kind)
  BY HeldByItself
<1>2. OneKind(children', req')
  BY <1>1, KnowsStays
<1>3. /\ origin' = origin /\ settings' = settings /\ Grows(origin, origin')
      /\ origin' \in [SettingsIds \union ChildIds -> Tables \union {None}]
      /\ settings' = [s \in SettingsIds |-> settings'[s]]
  BY DEF Grows, ConfigInv
<1>4. Sound(origin', q)
  BY <1>3
<1>5. \A c \in ChildIds : children'[c] # None /\ children'[c] # children[c]
                            => ChildOfTable(origin', children'[c], c)
  BY <1>3
<1> QED BY <1>2, <1>3, <1>4, <1>5, StepKeeps

\* The row that a save of a known row leaves.
LEMMA WrittenOfTable ==
  ASSUME ConfigInv, NEW c \in ChildIds, origin[c] \in Tables, NEW kind \in Kinds,
         Holds(children, req, c, kind), NEW name \in NameSet,
         kind = "widget" => name \in FieldsOf[origin[c]],
         children' = Written(c, kind, name)
  PROVE  /\ children' = [i \in ChildIds |-> children'[i]]
         /\ \A i \in ChildIds \ {c} : children'[i] = children[i]
         /\ ChildOfTable(origin, children'[c], c)
         /\ Holds(children, req, c, children'[c].kind)
<1>1. /\ children' = [i \in ChildIds |-> children'[i]]
      /\ \A i \in ChildIds \ {c} : children'[i] = children[i]
      /\ children'[c] = IF children[c] # None THEN [children[c] EXCEPT !.name = name]
                        ELSE [kind |-> kind, name |-> name, settings |-> None]
  BY DEF ConfigInv, Written
<1>2. CASE children[c] = None
  BY <1>1, <1>2 DEF ChildOfTable
<1>3. CASE children[c] # None
  <2>1. PICK row, now : row = children[c] /\ now = [row EXCEPT !.name = name]
    OBVIOUS
  <2>2. ChildOfTable(origin, row, c)
    BY <1>3, <2>1 DEF ConfigInv
  <2>3. row.kind = kind
    BY <1>3, <2>1, <2>2 DEF ConfigInv, OneKind, Holds, ChildOfTable
  <2>4. now = [kind |-> kind, name |-> name, settings |-> row.settings]
    BY <2>1, <2>2, <2>3 DEF ChildOfTable
  <2>5. children'[c] = now
    BY <1>1, <1>3, <2>1
  <2>6. ChildOfTable(origin, now, c) /\ now.kind = kind
    BY <2>2, <2>3, <2>4 DEF ChildOfTable
  <2> QED BY <1>1, <2>5, <2>6
<1> QED BY <1>2, <1>3

LEMMA WriteChildKeeps ==
  ASSUME ConfigInv, NEW r \in Requests, WriteChild(r)
  PROVE  ConfigInv'
<1> DEFINE p == req[r]
<1>1. /\ p.pc = "write" /\ children' = Written(p.child, p.kind, p.name) /\ Goes(r, Idle)
      /\ UNCHANGED <<settings, origin>>
  BY DEF WriteChild, Close
<1>2. /\ p.child \in ChildIds /\ origin[p.child] \in Tables /\ p.kind \in Kinds
      /\ p.kind # "widget" /\ p.name \in NameSet
  BY <1>1, Serving DEF Busy, Kinds, NameSet
<1>3. Holds(children, req, p.child, p.kind)
  BY DEF Holds
<1>4. /\ children' = [i \in ChildIds |-> children'[i]]
      /\ \A i \in ChildIds \ {p.child} : children'[i] = children[i]
      /\ ChildOfTable(origin, children'[p.child], p.child)
      /\ Holds(children, req, p.child, children'[p.child].kind)
  BY <1>1, <1>2, <1>3, WrittenOfTable
<1> QED BY <1>1, <1>4, IdleIsSound, RowsChange

LEMMA ReadForDeleteKeeps ==
  ASSUME ConfigInv, NEW r \in Requests, ReadForDelete(r)
  PROVE  ConfigInv'
<1> DEFINE p == req[r]
           t == p.table
<1>1. p.pc = "read" /\ UNCHANGED <<settings, children, origin>>
  BY DEF ReadForDelete
<1>2. Shaped(p) /\ Busy(origin, p) /\ t \in Tables
  BY <1>1, Serving DEF Busy
<1>3. PICK request \in Reads(p, "field") :
        IF request.copy = None THEN Close(r)
        ELSE Goes(r, [request EXCEPT !.array = Splice(@, IndexOf(@, "id", p.child)),
                                     !.pc = "remove"])
  BY DEF ReadForDelete
<1>4. CASE request.copy = None
  BY <1>1, <1>3, <1>4, IdleIsSound, OnlyRequestChanges DEF Close
<1>5. CASE request.copy # None
  <2>1. PICK copy, read : /\ request.copy = copy /\ request.array = read
                          /\ request = [p EXCEPT !.copy = copy, !.array = read]
                          /\ CopyOfTable(origin, t, copy) /\ read \in Seq(Items(origin, t))
    <3>1. request = p \/ ReadFor(p, request)
      BY <1>2, ReadsAreOfTable DEF Kinds
    <3>2. CASE request = p
      <4>1. PICK same : same = [p EXCEPT !.copy = p.copy, !.array = p.array]
        OBVIOUS
      <4>2. same = p
        BY <1>2, <4>1 DEF Shaped
      <4> QED BY <1>2, <1>5, <3>2, <4>1, <4>2 DEF Busy
    <3>3. CASE ReadFor(p, request)
      <4>1. PICK copy, read : /\ request = [p EXCEPT !.copy = copy, !.array = read]
                              /\ CopyOfTable(origin, t, copy) /\ read \in Seq(Items(origin, t))
        BY <3>3 DEF ReadFor
      <4> QED BY <1>2, <4>1 DEF Shaped
    <3> QED BY <3>1, <3>2, <3>3
  <2>2. PICK array : array = Splice(read, IndexOf(read, "id", p.child))
    OBVIOUS
  <2>3. array \in Seq(Items(origin, t))
    BY <2>1, <2>2, IndexIsPlace, SpliceSeq
  <2>4. PICK q : q = [request EXCEPT !.array = array, !.pc = "remove"]
    OBVIOUS
  <2>5. Goes(r, q)
    BY <1>3, <1>5, <2>1, <2>2, <2>4
  <2>6. /\ Shaped(q) /\ Same(q, p) /\ q.pc = "remove" /\ q.copy = copy /\ q.array = array
        /\ q.wanted = p.wanted /\ q.found = p.found
    BY <1>2, <2>1, <2>4 DEF Shaped, Same
  <2>7. /\ q.table = t /\ q.found \in Seq(Items(origin, q.table))
        /\ q.wanted \in Seq(Asked(q.table)) /\ q.array \in Seq(Items(origin, q.table))
        /\ CopyOfTable(origin, q.table, q.copy)
    BY <1>2, <2>1, <2>3, <2>6 DEF Busy, Same
  <2>8. Sound(origin, q)
    BY <1>2, <2>6, <2>7, GoesOn
  <2>9. Knows(q, r)
    BY <2>6 DEF Knows, Same, Holds
  <2> QED BY <1>1, <2>5, <2>8, <2>9, OnlyRequestChanges
<1> QED BY <1>4, <1>5

LEMMA RemoveChildKeeps ==
  ASSUME ConfigInv, NEW r \in Requests, RemoveChild(r)
  PROVE  ConfigInv'
<1> DEFINE p == req[r]
<1>1. /\ p.pc = "remove" /\ children' = [children EXCEPT ![p.child] = None]
      /\ IF p.kind = "field" THEN Goes(r, [p EXCEPT !.pc = "save"]) ELSE Goes(r, Idle)
      /\ UNCHANGED <<settings, origin>>
  BY DEF RemoveChild, Close
<1>2. /\ children' = [i \in ChildIds |-> children'[i]]
      /\ \A i \in ChildIds : children'[i] \in {None, children[i]}
  BY <1>1 DEF ConfigInv
<1>3. ASSUME NEW q, Goes(r, q), Sound(origin, q), Knows(q, r) PROVE ConfigInv'
  BY <1>1, <1>2, <1>3, RowsChange
<1>4. CASE p.kind # "field"
  BY <1>1, <1>3, <1>4, IdleIsSound
<1>5. CASE p.kind = "field"
  <2>1. Shaped(p) /\ Busy(origin, p)
    BY <1>1, Serving
  <2>2. PICK q : q = [p EXCEPT !.pc = "save"]
    OBVIOUS
  <2>3. /\ Shaped(q) /\ Same(q, p) /\ q.pc = "save" /\ q.copy = p.copy /\ q.array = p.array
        /\ q.wanted = p.wanted /\ q.found = p.found
    BY <2>1, <2>2 DEF Shaped, Same
  <2>4. /\ q.table = p.table /\ q.found \in Seq(Items(origin, q.table))
        /\ q.wanted \in Seq(Asked(q.table)) /\ q.array \in Seq(Items(origin, q.table))
        /\ CopyOfTable(origin, q.table, q.copy)
    BY <1>1, <1>5, <2>1, <2>3 DEF Busy, Same
  <2>5. Sound(origin, q)
    BY <2>1, <2>3, <2>4, GoesOn
  <2>6. Knows(q, r)
    BY <2>3 DEF Knows, Same, Holds
  <2> QED BY <1>1, <1>3, <1>5, <2>2, <2>5, <2>6
<1> QED BY <1>4, <1>5

LEMMA FindWidgetsKeeps ==
  ASSUME ConfigInv, NEW r \in Requests, FindWidgets(r)
  PROVE  ConfigInv'
<1> DEFINE p == req[r]
           t == p.table
<1>1. p.pc = "find" /\ UNCHANGED <<settings, children, origin>>
  BY DEF FindWidgets
<1>2. Shaped(p) /\ Busy(origin, p) /\ t \in Tables
  BY <1>1, Serving DEF Busy
<1>3. PICK found, left, next :
        /\ found \in IF SettingsOf(t) = {} THEN {<<>>}
                     ELSE Loaded(CHOOSE s \in SettingsOf(t) : TRUE, "widget")
        /\ next \in {"widgets", "save"}
        /\ Goes(r, [p EXCEPT !.found = found, !.left = left, !.pc = next])
  BY DEF FindWidgets
<1>4. found \in Seq(Items(origin, t)) /\ \A c \in Ids(found) : Holds(children, req, c, "widget")
  <2>1. CASE SettingsOf(t) = {}
    BY <1>3, <2>1, EmptySeq DEF Ids
  <2>2. CASE SettingsOf(t) # {}
    <3>1. PICK s \in SettingsOf(t) : found \in Loaded(s, "widget")
      BY <1>3, <2>2
    <3>2. s \in SettingsIds /\ origin[s] = t
      BY <1>2, SettingsAreOfTable
    <3> QED BY <1>2, <3>1, <3>2, LoadedItems DEF Kinds
  <2> QED BY <2>1, <2>2
<1>5. PICK q : q = [p EXCEPT !.found = found, !.left = left, !.pc = next]
  OBVIOUS
<1>6. /\ Shaped(q) /\ Same(q, p) /\ q.pc = next /\ q.copy = p.copy /\ q.array = p.array
      /\ q.wanted = p.wanted /\ q.found = found
  BY <1>2, <1>5 DEF Shaped, Same
<1>7. /\ q.table = t /\ q.op = "put widgets" /\ q.found \in Seq(Items(origin, q.table))
      /\ q.wanted \in Seq(Asked(q.table)) /\ q.array \in Seq(Items(origin, q.table))
      /\ CopyOfTable(origin, q.table, q.copy)
  BY <1>1, <1>2, <1>4, <1>6 DEF Busy, Same
<1>8. Sound(origin, q)
  BY <1>2, <1>3, <1>6, <1>7, GoesOn
<1>9. Knows(q, r)
  BY <1>4, <1>6 DEF Knows, Same
<1> QED BY <1>1, <1>3, <1>5, <1>8, <1>9, OnlyRequestChanges

\* After a widget: the row, its place in the list and what is left to do.
LEMMA WidgetsGoOn ==
  ASSUME ConfigInv, NEW r \in Requests, NEW from, Busy(from, req[r]), Shaped(req[r]),
         req[r].pc = "widgets", NEW array, array \in Seq(Items(from, req[r].table)),
         NEW wanted, wanted \in Seq(Asked(req[r].table)), NEW left
  PROVE  LET q == Widgets([req[r] EXCEPT !.array = array, !.wanted = wanted, !.left = left])
         IN  Sound(from, q) /\ Knows(q, r)
<1> DEFINE p == req[r]
<1>1. PICK q, edited : /\ edited = [p EXCEPT !.array = array, !.wanted = wanted, !.left = left]
                       /\ q = Widgets(edited)
  OBVIOUS
<1>2. PICK next : next \in {"save", "widgets"} /\ q = [edited EXCEPT !.pc = next]
  <2>1. edited.pc = "widgets"
    BY <1>1 DEF Shaped
  <2> QED BY <1>1, <2>1 DEF Widgets
<1>3. /\ Shaped(q) /\ Same(q, p) /\ q.pc = next /\ q.copy = p.copy /\ q.array = array
      /\ q.wanted = wanted /\ q.found = p.found
  BY <1>1, <1>2 DEF Shaped, Same
<1>4. /\ q.table = p.table /\ q.op = "put widgets" /\ q.found \in Seq(Items(from, q.table))
      /\ q.wanted \in Seq(Asked(q.table)) /\ q.array \in Seq(Items(from, q.table))
      /\ CopyOfTable(from, q.table, q.copy)
  BY <1>3 DEF Busy, Same
<1>5. Sound(from, q)
  BY <1>2, <1>3, <1>4, GoesOn
<1>6. Knows(q, r)
  BY <1>3 DEF Knows, Same, Holds, ConfigInv
<1> QED BY <1>1, <1>5, <1>6

LEMMA PutWidgetKeeps ==
  ASSUME ConfigInv, NEW r \in Requests, PutWidget(r)
  PROVE  ConfigInv'
<1> DEFINE p == req[r]
           t == p.table
           name == Head(p.wanted).field
           known == IndexOf(p.found, "name", name)
           place == IndexOf(p.array, "name", name)
<1>1. p.pc = "widgets" /\ p.wanted # <<>> /\ settings' = settings
  BY DEF PutWidget
<1>2. Shaped(p) /\ Busy(origin, p) /\ t \in Tables /\ p.kind = "widget"
      /\ p.array \in Seq(Items(origin, t)) /\ p.found \in Seq(Items(origin, t))
  BY <1>1, Serving DEF Busy
<1>3. PICK w, rest : w = name /\ rest = Tail(p.wanted)
  OBVIOUS
<1>4. w \in FieldsOf[t] /\ w \in NameSet /\ rest \in Seq(Asked(t))
  <2>1. p.wanted \in Seq(Asked(t))
    BY <1>2 DEF Busy
  <2>2. Head(p.wanted) \in Asked(t) /\ Tail(p.wanted) \in Seq(Asked(t))
    BY <1>1, <2>1, HeadTailProperties
  <2> QED BY <1>2, <1>3, <2>2 DEF Asked, NameSet, Fields
<1>5. CASE known > 0
  <2>1. PICK array : array = IF place > 0 THEN [p.array EXCEPT ![place] = p.found[known]] ELSE p.array
    OBVIOUS
  <2>2. PICK c : c = p.found[known].id
    OBVIOUS
  <2>3. children' = Written(c, "widget", w) /\ origin' = origin
        /\ Goes(r, Widgets([p EXCEPT !.array = array, !.wanted = rest]))
    <3>1. /\ children' = Written(p.found[known].id, "widget", name) /\ origin' = origin
          /\ Goes(r, Widgets([p EXCEPT !.array = IF place > 0
                                                  THEN [p.array EXCEPT ![place] = p.found[known]]
                                                  ELSE p.array,
                                       !.wanted = Tail(p.wanted)]))
      <4>1. known # 0
        BY <1>5
      <4> QED BY <4>1, Zenon DEF PutWidget
    <3> QED BY <1>3, <2>1, <2>2, <3>1, Zenon
  <2>4. known \in 1..Len(p.found) /\ p.found[known] \in Items(origin, t)
    <3>1. known \in 0..Len(p.found)
      BY <1>2, IndexIsPlace
    <3>2. Len(p.found) \in Nat
      BY <1>2, LenProperties
    <3>3. known \in 1..Len(p.found)
      BY <1>5, <3>1, <3>2
    <3> QED BY <1>2, <3>3, ElementOfSeq
  <2>5. c \in ChildIds /\ origin[c] = t /\ c \in Ids(p.found)
    BY <1>2, <2>2, <2>4, LenProperties DEF Items, Ids
  <2>6. array \in Seq(Items(origin, t))
    <3>1. place \in 0..Len(p.array)
      BY <1>2, IndexIsPlace
    <3>2. Len(p.array) \in Nat
      BY <1>2, LenProperties
    <3>3. CASE place > 0
      <4>1. place \in 1..Len(p.array)
        BY <3>1, <3>2, <3>3
      <4>2. [p.array EXCEPT ![place] = p.found[known]] \in Seq(Items(origin, t))
        BY <1>2, <2>4, <4>1, ExceptSeq
      <4> QED BY <2>1, <3>3, <4>2
    <3>4. CASE ~ (place > 0)
      BY <1>2, <2>1, <3>4
    <3> QED BY <3>3, <3>4
  <2>7. Holds(children, req, c, "widget")
    BY <2>5 DEF Holds
  <2>8. /\ children' = [i \in ChildIds |-> children'[i]]
        /\ \A i \in ChildIds \ {c} : children'[i] = children[i]
        /\ ChildOfTable(origin, children'[c], c)
        /\ Holds(children, req, c, children'[c].kind)
    BY <1>2, <1>4, <2>3, <2>5, <2>7, WrittenOfTable DEF Kinds
  <2>9. PICK q : q = Widgets([p EXCEPT !.array = array, !.wanted = rest, !.left = p.left])
    OBVIOUS
  <2>10. Goes(r, q)
    BY <1>2, <2>3, <2>9 DEF Shaped
  <2>11. Sound(origin, q) /\ Knows(q, r)
    BY <1>1, <1>2, <1>4, <2>6, <2>9, WidgetsGoOn
  <2> QED BY <1>1, <2>3, <2>8, <2>10, <2>11, RowsChange
<1>6. CASE known = 0
  <2>1. PICK c \in Fresh(ChildIds) :
          /\ Born(r, c, w)
          /\ Goes(r, Widgets([p EXCEPT !.array = Push(r, c, w), !.wanted = rest]))
    <3>1. \E c \in Fresh(ChildIds) :
            /\ Born(r, c, name)
            /\ Goes(r, Widgets([p EXCEPT !.array = Push(r, c, name), !.wanted = Tail(p.wanted)]))
      <4>1. ~ (known > 0)
        BY <1>6
      <4> QED BY <4>1, Zenon DEF PutWidget
    <3> QED BY <1>3, <3>1, Zenon
  <2>2. PICK row : row = [kind |-> "widget", name |-> w, settings |-> None]
    OBVIOUS
  <2>3. children' = [children EXCEPT ![c] = row] /\ origin' = [origin EXCEPT ![c] = t]
        /\ c \in ChildIds /\ origin[c] = None
    BY <1>2, <2>1, <2>2 DEF Born, Fresh
  <2>4. /\ origin' \in [SettingsIds \union ChildIds -> Tables \union {None}]
        /\ origin'[c] = t /\ Grows(origin, origin')
    BY <1>2, <2>3, GivenAgain
  <2>5. PICK from : from = origin'
    OBVIOUS
  <2>6. Busy(from, p)
    <3>1. Sound(from, p)
      BY <2>4, <2>5, SoundGrows DEF ConfigInv
    <3> QED BY <1>1, <3>1 DEF Sound
  <2>7. PICK array : array = Push(r, c, w)
    OBVIOUS
  <2>8. array \in Seq(Items(from, t))
    <3>1. p.array \in Seq(Items(from, t)) /\ array = Append(p.array, [id |-> c, name |-> w])
      BY <2>6, <2>7 DEF Busy, Push
    <3>2. [id |-> c, name |-> w] \in Items(from, t)
      BY <1>4, <2>3, <2>4, <2>5 DEF Items
    <3> QED BY <3>1, <3>2, AppendProperties
  <2>9. PICK q : q = Widgets([p EXCEPT !.array = array, !.wanted = rest, !.left = p.left])
    OBVIOUS
  <2>10. Goes(r, q)
    BY <1>2, <2>1, <2>7, <2>9 DEF Shaped
  <2>11. Sound(from, q) /\ Knows(q, r)
    BY <1>1, <1>2, <1>4, <2>6, <2>8, <2>9, WidgetsGoOn
  <2>12. OneKind(children', req')
    BY <2>1, <2>3, <2>10, <2>11, BornIsOneKind
  <2>13. ASSUME NEW i \in ChildIds, children'[i] # children[i]
         PROVE  ChildOfTable(origin', children'[i], i)
    <3>1. i = c /\ children'[i] = row
      BY <2>3, <2>13 DEF ConfigInv
    <3> QED BY <1>2, <1>4, <2>2, <2>4, <3>1 DEF ChildOfTable, Kinds
  <2>14. /\ settings' = [s \in SettingsIds |-> settings'[s]]
         /\ children' = [i \in ChildIds |-> children'[i]]
    BY <1>1, <2>3 DEF ConfigInv
  <2> QED BY <1>1, <2>4, <2>5, <2>10, <2>11, <2>12, <2>13, <2>14, StepKeeps
<1>7. known \in 0..Len(p.found)
  BY <1>2, IndexIsPlace
<1> QED BY <1>2, <1>5, <1>6, <1>7, LenProperties

LEMMA DropWidgetKeeps ==
  ASSUME ConfigInv, NEW r \in Requests, DropWidget(r)
  PROVE  ConfigInv'
<1> DEFINE p == req[r]
           t == p.table
<1>1. p.pc = "widgets" /\ UNCHANGED <<settings, origin>>
  BY DEF DropWidget
<1>2. Shaped(p) /\ Busy(origin, p) /\ t \in Tables /\ p.array \in Seq(Items(origin, t))
      /\ p.wanted \in Seq(Asked(t))
  BY <1>1, Serving DEF Busy
<1>3. PICK item :
        LET place == IndexOf(p.array, "name", item.name) IN
        /\ children' = [children EXCEPT ![item.id] = None]
        /\ Goes(r, Widgets([p EXCEPT !.array = Splice(@, place), !.left = @ \ {item}]))
  BY DEF DropWidget
<1>4. PICK array, left : /\ array = Splice(p.array, IndexOf(p.array, "name", item.name))
                         /\ left = p.left \ {item}
  OBVIOUS
<1>5. array \in Seq(Items(origin, t))
  BY <1>2, <1>4, IndexIsPlace, SpliceSeq
<1>6. PICK q : q = Widgets([p EXCEPT !.array = array, !.wanted = p.wanted, !.left = left])
  OBVIOUS
<1>7. Goes(r, q)
  BY <1>2, <1>3, <1>4, <1>6 DEF Shaped
<1>8. Sound(origin, q) /\ Knows(q, r)
  BY <1>1, <1>2, <1>5, <1>6, WidgetsGoOn
<1>9. /\ children' = [i \in ChildIds |-> children'[i]]
      /\ \A i \in ChildIds : children'[i] \in {None, children[i]}
  BY <1>3 DEF ConfigInv
<1> QED BY <1>1, <1>7, <1>8, <1>9, RowsChange

LEMMA MergeOfTable ==
  ASSUME NEW t, NEW columns, DOMAIN columns = Columns,
         \A l \in Existing : columns[l] \subseteq FieldsOf[t], NEW body, Exist(t, body)
  PROVE  /\ DOMAIN Merge(columns, body) = Columns
         /\ \A l \in Existing : Merge(columns, body)[l] \subseteq FieldsOf[t]
<1>1. DOMAIN Merge(columns, body) = Columns
  BY DEF Merge
<1>2. ASSUME NEW l \in Existing PROVE Merge(columns, body)[l] \subseteq FieldsOf[t]
  <2>1. l \in Columns
    BY DEF Existing, Columns
  <2>2. Merge(columns, body)[l] = IF body[l] = Undefined THEN columns[l] ELSE body[l]
    BY <2>1 DEF Merge
  <2> QED BY <2>2 DEF Exist, Existing
<1> QED BY <1>1, <1>2

LEMMA DefaultsOfTable ==
  ASSUME NEW t
  PROVE  /\ DOMAIN Defaults = Columns
         /\ \A l \in Existing : Defaults[l] \subseteq FieldsOf[t]
<1>1. ASSUME NEW l \in Existing PROVE l \in Columns /\ l # "list_per_page"
  BY DEF Existing, Columns, Lists, Guarded
<1> QED BY <1>1 DEF Defaults, Columns

LEMMA SavedRowOfTable ==
  ASSUME ConfigInv, NEW t \in Tables, NEW copy, CopyOfTable(origin, t, copy)
  PROVE  RowOfTable(origin, SavedRow(copy), copy.id)
<1>1. copy.id \in SettingsIds /\ origin[copy.id] = t /\ copy.table \in {None, t}
      /\ Exist(t, copy.columns)
  BY DEF CopyOfTable
<1>2. CASE settings[copy.id] = None
  <2>1. PICK columns : columns = Merge(Defaults, copy.columns)
    OBVIOUS
  <2>2. DOMAIN columns = Columns /\ \A l \in Existing : columns[l] \subseteq FieldsOf[t]
    BY <1>1, <2>1, DefaultsOfTable, MergeOfTable
  <2>3. SavedRow(copy) = [table |-> copy.table, columns |-> columns]
    BY <1>2, <2>1 DEF SavedRow
  <2> QED BY <1>1, <2>2, <2>3 DEF RowOfTable
<1>3. CASE settings[copy.id] # None
  <2>1. PICK row, columns : row = settings[copy.id] /\ columns = Merge(row.columns, copy.columns)
    OBVIOUS
  <2>2. RowOfTable(origin, row, copy.id)
    BY <1>1, <1>3, <2>1 DEF ConfigInv
  <2>3. DOMAIN row.columns = Columns /\ \A l \in Existing : row.columns[l] \subseteq FieldsOf[t]
    BY <1>1, <2>2 DEF RowOfTable
  <2>4. DOMAIN columns = Columns /\ \A l \in Existing : columns[l] \subseteq FieldsOf[t]
    BY <1>1, <2>1, <2>3, MergeOfTable
  <2>5. PICK saved : saved = [row EXCEPT !.columns = columns]
    OBVIOUS
  <2>6. SavedRow(copy) = saved
    BY <1>3, <2>1, <2>5 DEF SavedRow
  <2>7. saved = [table |-> row.table, columns |-> columns]
    BY <2>2, <2>5 DEF RowOfTable
  <2>8. RowOfTable(origin, saved, copy.id)
    BY <1>1, <2>2, <2>4, <2>7 DEF RowOfTable
  <2> QED BY <2>6, <2>8
<1> QED BY <1>2, <1>3

\* The links that a save of a list leaves.
LEMMA RelinkedOfTable ==
  ASSUME ConfigInv, NEW t \in Tables, NEW copy, CopyOfTable(origin, t, copy), NEW kind,
         NEW array \in Seq(Items(origin, t)), NEW c \in ChildIds,
         Relinked(copy, kind, array)[c] # None
  PROVE  /\ children[c] # None /\ Relinked(copy, kind, array)[c].kind = children[c].kind
         /\ ChildOfTable(origin, Relinked(copy, kind, array)[c], c)
<1>1. PICK row, linked, unlinked :
        /\ row = children[c] /\ linked = [row EXCEPT !.settings = copy.id]
        /\ unlinked = [row EXCEPT !.settings = None]
  OBVIOUS
<1>2. /\ Relinked(copy, kind, array)[c] \in {row, unlinked}
           \/ (c \in Ids(array) /\ Relinked(copy, kind, array)[c] = linked)
      /\ children[c] # None
  BY <1>1 DEF Relinked
<1>3. ChildOfTable(origin, row, c)
  BY <1>1, <1>2 DEF ConfigInv
<1>4. /\ linked = [kind |-> row.kind, name |-> row.name, settings |-> copy.id]
      /\ unlinked = [kind |-> row.kind, name |-> row.name, settings |-> None]
  BY <1>1, <1>3 DEF ChildOfTable
<1>5. ChildOfTable(origin, unlinked, c) /\ unlinked.kind = row.kind
  BY <1>3, <1>4 DEF ChildOfTable
<1>6. c \in Ids(array) => ChildOfTable(origin, linked, c) /\ linked.kind = row.kind
  <2>1. c \in Ids(array) => origin[c] = t
    BY IdsAreIds
  <2> QED BY <1>3, <1>4, <2>1 DEF ChildOfTable, CopyOfTable
<1> QED BY <1>1, <1>2, <1>3, <1>5, <1>6

LEMMA SaveSettingsKeeps ==
  ASSUME ConfigInv, NEW r \in Requests, SaveSettings(r)
  PROVE  ConfigInv'
<1> DEFINE p == req[r]
           t == p.table
<1>1. p.pc = "save" /\ Goes(r, Idle) /\ origin' = origin
  BY DEF SaveSettings, Close
<1>2. PICK copy : copy = p.copy
  OBVIOUS
<1>3. t \in Tables /\ CopyOfTable(origin, t, copy) /\ p.array \in Seq(Items(origin, t))
  BY <1>1, <1>2, Serving DEF Busy
<1>4. CASE UNCHANGED <<settings, children>>
  BY <1>1, <1>4, IdleIsSound, OnlyRequestChanges
<1>5. ASSUME settings' = [settings EXCEPT ![copy.id] = SavedRow(copy)],
             children' = IF p.kind = None THEN children ELSE Relinked(copy, p.kind, p.array)
      PROVE  ConfigInv'
  <2>1. settings' = [s \in SettingsIds |-> settings'[s]] /\ children' = [c \in ChildIds |-> children'[c]]
    BY <1>5 DEF ConfigInv, Relinked
  <2>2. ASSUME NEW s \in SettingsIds, settings'[s] # settings[s]
        PROVE  RowOfTable(origin, settings'[s], s)
    <3>1. s = copy.id /\ settings'[s] = SavedRow(copy)
      BY <1>5, <2>2 DEF ConfigInv
    <3> QED BY <1>3, <3>1, SavedRowOfTable
  <2>3. ASSUME NEW c \in ChildIds, children'[c] # None
        PROVE  children[c] # None /\ children'[c].kind = children[c].kind
               /\ ChildOfTable(origin, children'[c], c)
    <3>1. CASE children' = children
      BY <2>3, <3>1 DEF ConfigInv
    <3>2. CASE children' = Relinked(copy, p.kind, p.array)
      BY <1>3, <2>3, <3>2, RelinkedOfTable
    <3> QED BY <1>5, <3>1, <3>2
  <2>4. OneKind(children', req')
    BY <1>1, <2>3, IdleIsSound, KnowsStays DEF Holds
  <2>5. Grows(origin, origin') /\ Sound(origin', Idle)
        /\ origin' \in [SettingsIds \union ChildIds -> Tables \union {None}]
    BY <1>1, IdleIsSound DEF Grows, ConfigInv
  <2>6. /\ \A s \in SettingsIds : settings'[s] # None /\ settings'[s] # settings[s]
                                    => RowOfTable(origin', settings'[s], s)
        /\ \A c \in ChildIds : children'[c] # None /\ children'[c] # children[c]
                                 => ChildOfTable(origin', children'[c], c)
    BY <1>1, <2>2, <2>3
  <2> QED BY <1>1, <2>1, <2>4, <2>5, <2>6, StepKeeps
<1> QED BY <1>2, <1>4, <1>5 DEF SaveSettings
-----------------------------------------------------------------------------
(* The theorems. *)
LEMMA ConfigInvInit == Init => ConfigInv
<1> SUFFICES ASSUME Init PROVE ConfigInv
  OBVIOUS
<1>1. /\ settings = [s \in SettingsIds |-> None] /\ children = [c \in ChildIds |-> None]
      /\ req = [r \in Requests |-> Idle]
      /\ origin = [i \in SettingsIds \union ChildIds |-> None]
  BY DEF Init
<1>2. ASSUME NEW r \in Requests PROVE Sound(origin, req[r]) /\ req[r].child = None /\ req[r].found = <<>>
  BY <1>1, IdleIsSound DEF Idle
<1>3. OneKind(children, req)
  BY <1>1, <1>2, TableConfigAssumption DEF OneKind, Holds, Ids
<1> QED BY <1>1, <1>2, <1>3 DEF ConfigInv

LEMMA ConfigInvStep == ConfigInv /\ [Next]_vars => ConfigInv'
<1> SUFFICES ASSUME ConfigInv, [Next]_vars PROVE ConfigInv'
  OBVIOUS
<1>1. CASE UNCHANGED vars
  BY <1>1 DEF vars, ConfigInv, OneKind, Holds
<1>2. ASSUME NEW r \in Requests, Step(r) PROVE ConfigInv'
  BY <1>2, InsertSettingsKeeps, DropSettingsKeeps, StoreChildKeeps, WriteChildKeeps,
     ReadForDeleteKeeps, RemoveChildKeeps, FindWidgetsKeeps, PutWidgetKeeps, DropWidgetKeeps,
     SaveSettingsKeeps DEF Step
<1>3. ASSUME NEW r \in Requests, NEW t \in Tables, NEW body \in Bodies,
             CreateSettings(r, t, body) \/ UpdateSettings(r, t, body)
      PROVE  ConfigInv'
  BY <1>3, SettingsRequestsKeep
<1>4. ASSUME NEW r \in Requests, NEW t \in Tables, DeleteSettings(r, t) PROVE ConfigInv'
  BY <1>4, SettingsRequestsKeep
<1>5. ASSUME NEW r \in Requests, NEW t \in Tables, NEW name \in Names,
             CreateField(r, t, name) \/ CreateAction(r, t, name)
      PROVE  ConfigInv'
  BY <1>5, MakingRequestsKeep
<1>6. ASSUME NEW r \in Requests, NEW t \in Tables, NEW c \in ChildIds, NEW name \in Names,
             UpdateField(r, t, c, name)
      PROVE  ConfigInv'
  BY <1>6, ChildRequestsKeep
<1>7. ASSUME NEW r \in Requests, NEW t \in Tables, NEW c \in ChildIds, DeleteField(r, t, c)
      PROVE  ConfigInv'
  BY <1>7, ChildRequestsKeep
<1>8. ASSUME NEW r \in Requests, NEW t \in Tables, NEW wanted \in WidgetLists,
             PutWidgets(r, t, wanted)
      PROVE  ConfigInv'
  BY <1>8, PutWidgetsKeeps
<1>9. ASSUME NEW r \in Requests, NEW c \in ChildIds, DeleteAction(r, c) PROVE ConfigInv'
  BY <1>9, ChildRequestsKeep
<1>10. ASSUME NEW r \in Requests, NEW c \in ChildIds, NEW name \in Names, UpdateAction(r, c, name)
       PROVE  ConfigInv'
  BY <1>10, ChildRequestsKeep
<1> QED BY <1>1, <1>2, <1>3, <1>4, <1>5, <1>6, <1>7, <1>8, <1>9, <1>10 DEF Next

\* The invariant, and what it is for.
LEMMA ConfigInvImplies == ConfigInv => ChildrenStayInTheirTable /\ StoredFieldsExist
<1> SUFFICES ASSUME ConfigInv PROVE ChildrenStayInTheirTable /\ StoredFieldsExist
  OBVIOUS
<1>1. ASSUME NEW t \in Tables, NEW c \in ChildIds, children[c] # None,
             children[c].settings \in SettingsOf(t)
      PROVE  origin[c] = t
  <2>1. children[c].settings \in SettingsIds /\ origin[children[c].settings] = t
    BY <1>1, SettingsAreOfTable
  <2> QED BY <1>1, <2>1, TableConfigAssumption DEF ConfigInv, ChildOfTable
<1>2. ASSUME NEW t \in Tables, NEW s \in SettingsOf(t)
      PROVE  /\ \A l \in Lists \ {"autocomplete_columns"} : settings[s].columns[l] \subseteq FieldsOf[t]
             /\ \A c \in ChildrenOf(s, "widget") : children[c].name \in FieldsOf[t]
  <2>1. s \in SettingsIds /\ origin[s] = t /\ RowOfTable(origin, settings[s], s)
    BY SettingsAreOfTable
  <2>2. ASSUME NEW c \in ChildrenOf(s, "widget") PROVE children[c].name \in FieldsOf[t]
    <3>1. c \in ChildIds /\ children[c] # None /\ children[c].settings = s
          /\ children[c].kind = "widget"
      BY DEF ChildrenOf
    <3> QED BY <2>1, <3>1, TableConfigAssumption DEF ConfigInv, ChildOfTable
  <2> QED BY <2>1, <2>2 DEF RowOfTable, Existing
<1> QED BY <1>1, <1>2 DEF ChildrenStayInTheirTable, StoredFieldsExist

(***************************************************************************)
(* A widget, a field or an action is shown with the table it was made for, *)
(* and with no other: no save of settings moves a row it relinks.          *)
(***************************************************************************)
THEOREM ChildrenAlwaysStay == Spec => []ChildrenStayInTheirTable
BY ConfigInvInit, ConfigInvStep, ConfigInvImplies, PTL DEF Spec

(***************************************************************************)
(* What is stored for a table names columns it has, whichever of several   *)
(* requests wrote or wrote back which part of it.                          *)
(***************************************************************************)
THEOREM StoredFieldsAlwaysExist == Spec => []StoredFieldsExist
BY ConfigInvInit, ConfigInvStep, ConfigInvImplies, PTL DEF Spec
=============================================================================
